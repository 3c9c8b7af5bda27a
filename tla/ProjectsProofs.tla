---------------------------- MODULE ProjectsProofs ----------------------------
(***************************************************************************)
(* What Projects, the part "numbering" of Platform, promises for any       *)
(* number of projects, users and requests.  The inductive invariant ties   *)
(* the lock on a project's row to what create_bug has read under it.       *)
(***************************************************************************)
EXTENDS Platform, TLAPS

\* A request past its checks still has its call, and the stages belong to
\* the calls that have them.
CallsInProgress ==
  \A r \in Editors :
    /\ projectPc[r] # "idle" => call[r] \in Calls
    /\ projectPc[r] \in {"lock", "insert"} => call[r].op = "create_bug"
    /\ projectPc[r] = "validate" => Numbering!SetsLead(call[r])
    /\ projectPc[r] = "write" => call[r].op # "create_bug"

\* What create_bug has read stays true as long as it holds the row.
ReadsUnderLock ==
  \A r \in Editors : projectPc[r] = "insert" =>
    LET k == call[r].key
    IN holder[k] = r /\ number[r] = nextNumber[k] /\ ~closed[k]

\* Only such a request holds a row, and only the one it has locked.
LocksAreHeld ==
  \A k \in ProjectKeys : holder[k] # NoRequest =>
    projectPc[holder[k]] = "insert" /\ call[holder[k]].key = k

IInv ==
  /\ Numbering!TypeOK
  /\ CallsInProgress
  /\ ReadsUnderLock
  /\ LocksAreHeld
  /\ Numbering!NumbersAreGapless

-----------------------------------------------------------------------------
\* The two that stand for nobody are not among the rest.
LEMMA Names == NoUser \notin Staff /\ NoRequest \notin Editors
  BY PlatformAssumption DEF Numbering!ProjectsAssumption

\* Clients make service calls.
LEMMA ServiceCallsOnly == \A c \in Calls : c \in Numbering!ServiceCalls
  BY PlatformAssumption DEF Numbering!ProjectsAssumption

\* Every call names a project, and what it assigns has the column's type.
LEMMA CallTypes ==
  ASSUME NEW c \in Calls
  PROVE  /\ c.key \in ProjectKeys
         /\ c.op \in {"create_project", "update_project", "archive_project",
                      "restore_project", "create_bug"}
         /\ c.op = "create_project" => c.lead \in Numbering!Leads
         /\ c.op = "update_project" => c.field \in {"name", "lead"}
         /\ c.op = "update_project" /\ c.field = "lead" => c.value \in Numbering!Leads
         /\ c.op = "update_project" /\ c.field = "name" => c.value \in Nat
  BY ServiceCallsOnly
     DEF Numbering!ServiceCalls, Numbering!CreateCalls, Numbering!RenameCalls,
         Numbering!LeadCalls, Numbering!PlainCalls

\* The initial state satisfies the invariant: no numbers, and a counter of 1.
LEMMA InitInvariant == Numbering!Init => IInv
  <1>1. 1..(1 - 1) = {}
    OBVIOUS
  <1>2. QED
    BY <1>1, Names
       DEF Numbering!Init, IInv, Numbering!TypeOK, CallsInProgress, ReadsUnderLock,
           LocksAreHeld, Numbering!NumbersAreGapless, Numbering!Leads

\* Answering gives the row back and leaves every other request as it was.
LEMMA AnswerFrame ==
  ASSUME Numbering!TypeOK, LocksAreHeld, NEW r \in Editors, Numbering!Answer(r)
  PROVE  /\ projectPc' = [projectPc EXCEPT ![r] = "idle"]
         /\ call' \in [Editors -> Calls \union {Numbering!NoCall}]
         /\ number' \in [Editors -> Nat]
         /\ holder' \in [ProjectKeys -> Editors \union {NoRequest}]
         /\ \A k \in ProjectKeys : holder'[k] # r /\ (holder[k] # r => holder'[k] = holder[k])
         /\ \A k \in ProjectKeys : holder'[k] # NoRequest => holder'[k] = holder[k]
         /\ \A q \in Editors \ {r} : call'[q] = call[q] /\ number'[q] = number[q]
  BY Names DEF Numbering!Answer, Numbering!Goto, Numbering!TypeOK

-----------------------------------------------------------------------------
\* A request that answers keeps the invariant as long as it changes neither
\* what the requests holding a row have read nor the numbers.
LEMMA PlainAnswer ==
  ASSUME IInv, NEW r \in Editors, Numbering!Answer(r), projectPc[r] # "insert",
         UNCHANGED <<nextNumber, numbers>>,
         \A k \in ProjectKeys : closed'[k] => closed[k] \/ holder[k] = NoRequest
  PROVE  CallsInProgress' /\ ReadsUnderLock' /\ LocksAreHeld' /\ Numbering!NumbersAreGapless'
  <1> USE DEF IInv
  <1>0. /\ projectPc' = [projectPc EXCEPT ![r] = "idle"]
        /\ \A k \in ProjectKeys : holder'[k] # r /\ (holder[k] # r => holder'[k] = holder[k])
        /\ \A k \in ProjectKeys : holder'[k] # NoRequest => holder'[k] = holder[k]
        /\ \A q \in Editors \ {r} : call'[q] = call[q] /\ number'[q] = number[q]
    BY AnswerFrame
  <1>1. projectPc \in [Editors -> {"idle", "validate", "write", "lock", "insert"}]
    BY DEF Numbering!TypeOK
  <1>2. projectPc'[r] = "idle" /\ \A q \in Editors \ {r} : projectPc'[q] = projectPc[q]
    BY <1>0, <1>1
  <1>3. CallsInProgress'
    BY <1>0, <1>2 DEF CallsInProgress, Numbering!SetsLead
  <1>4. ReadsUnderLock'
    <2> SUFFICES ASSUME NEW q \in Editors, projectPc'[q] = "insert"
                 PROVE  LET k == call'[q].key
                        IN holder'[k] = q /\ number'[q] = nextNumber'[k] /\ ~closed'[k]
      BY DEF ReadsUnderLock
    <2>1. q # r /\ projectPc[q] = "insert" /\ call'[q] = call[q] /\ number'[q] = number[q]
      BY <1>0, <1>2
    <2>2. call[q] \in Calls
      BY <2>1 DEF CallsInProgress
    <2>3. call[q].key \in ProjectKeys
      BY <2>2, CallTypes
    <2>4. holder[call[q].key] = q /\ number[q] = nextNumber[call[q].key] /\ ~closed[call[q].key]
      BY <2>1 DEF ReadsUnderLock
    <2>5. holder'[call[q].key] = q
      BY <1>0, <2>1, <2>3, <2>4
    <2>6. ~closed'[call[q].key]
      BY <2>3, <2>4, Names
    <2>7. QED
      BY <2>1, <2>4, <2>5, <2>6
  <1>5. LocksAreHeld'
    <2> SUFFICES ASSUME NEW k \in ProjectKeys, holder'[k] # NoRequest
                 PROVE  projectPc'[holder'[k]] = "insert" /\ call'[holder'[k]].key = k
      BY DEF LocksAreHeld
    <2>1. holder'[k] = holder[k] /\ holder[k] # r
      BY <1>0
    <2>2. holder[k] \in Editors
      BY <2>1 DEF Numbering!TypeOK
    <2>3. QED
      BY <1>0, <1>2, <2>1, <2>2 DEF LocksAreHeld
  <1>6. Numbering!NumbersAreGapless'
    BY DEF Numbering!NumbersAreGapless
  <1>7. QED
    BY <1>3, <1>4, <1>5, <1>6

\* A request that only moves on to its next stage before any lock.
LEMMA SubmitInvariant ==
  ASSUME IInv, NEW r \in Editors, Numbering!Submit(r)
  PROVE  IInv'
  <1> USE DEF IInv
  <1>1. PICK c \in Calls :
          /\ call' = [call EXCEPT ![r] = c]
          /\ Numbering!Goto(r, IF c.op = "create_bug" THEN "lock"
                     ELSE IF Numbering!SetsLead(c) THEN "validate" ELSE "write")
    BY DEF Numbering!Submit
  <1>2. Numbering!TypeOK'
    BY <1>1 DEF Numbering!TypeOK, Numbering!Submit, Numbering!Goto, Numbering!rows
  <1>3. CallsInProgress'
    BY <1>1 DEF CallsInProgress, Numbering!TypeOK, Numbering!Submit, Numbering!Goto,
                Numbering!SetsLead
  <1>4. ReadsUnderLock'
    BY <1>1 DEF ReadsUnderLock, Numbering!TypeOK, Numbering!Submit, Numbering!Goto,
                Numbering!rows
  <1>5. LocksAreHeld'
    BY <1>1 DEF LocksAreHeld, Numbering!TypeOK, Numbering!Submit, Numbering!Goto
  <1>6. Numbering!NumbersAreGapless'
    BY DEF Numbering!NumbersAreGapless, Numbering!Submit, Numbering!rows
  <1>7. QED
    BY <1>2, <1>3, <1>4, <1>5, <1>6

\* The refusals, and the requests that write a project and answer.
LEMMA AnswerInvariant ==
  ASSUME IInv, NEW r \in Editors,
         \/ Numbering!RefuseLead(r) \/ Numbering!RefuseKey(r) \/ Numbering!RefuseArchived(r)
         \/ Numbering!CreateProject(r) \/ Numbering!UpdateProject(r)
         \/ Numbering!ArchiveOrRestore(r)
  PROVE  IInv'
  <1> USE DEF IInv
  <1>1. Numbering!Answer(r) /\ projectPc[r] # "insert" /\ UNCHANGED <<nextNumber, numbers>>
    BY DEF Numbering!RefuseLead, Numbering!RefuseKey, Numbering!RefuseArchived,
           Numbering!CreateProject, Numbering!UpdateProject, Numbering!ArchiveOrRestore,
           Numbering!CanWrite, Numbering!Raise, Numbering!KeepCounter, Numbering!rows
  <1>2. projectPc[r] \in {"validate", "write", "lock"}
    BY DEF Numbering!RefuseLead, Numbering!RefuseKey, Numbering!RefuseArchived,
           Numbering!CreateProject, Numbering!UpdateProject, Numbering!ArchiveOrRestore,
           Numbering!CanWrite
  <1>3. call[r] \in Calls
    BY <1>2 DEF CallsInProgress
  <1>4. \A k \in ProjectKeys : closed'[k] => closed[k] \/ holder[k] = NoRequest
    <2>1. CASE Numbering!ArchiveOrRestore(r)
      BY <1>3, <2>1, CallTypes
         DEF Numbering!ArchiveOrRestore, Numbering!CanWrite, Numbering!TypeOK
    <2>2. CASE ~Numbering!ArchiveOrRestore(r)
      BY <2>2 DEF Numbering!RefuseLead, Numbering!RefuseKey, Numbering!RefuseArchived,
                  Numbering!CreateProject, Numbering!UpdateProject, Numbering!Raise,
                  Numbering!rows
    <2>3. QED
      BY <2>1, <2>2
  <1>5. CallsInProgress' /\ ReadsUnderLock' /\ LocksAreHeld' /\ Numbering!NumbersAreGapless'
    BY <1>1, <1>4, PlainAnswer
  <1>6. /\ projectPc' = [projectPc EXCEPT ![r] = "idle"]
        /\ call' \in [Editors -> Calls \union {Numbering!NoCall}]
        /\ number' \in [Editors -> Nat]
        /\ holder' \in [ProjectKeys -> Editors \union {NoRequest}]
    BY <1>1, AnswerFrame
  <1>7. projectPc' \in [Editors -> {"idle", "validate", "write", "lock", "insert"}]
    BY <1>6 DEF Numbering!TypeOK
  <1>8. /\ exists' \in [ProjectKeys -> BOOLEAN]
        /\ name' \in [ProjectKeys -> Nat]
        /\ lead' \in [ProjectKeys -> Numbering!Leads]
        /\ closed' \in [ProjectKeys -> BOOLEAN]
        /\ members' \subseteq Staff
    <2>1. CASE Numbering!RefuseLead(r) \/ Numbering!RefuseKey(r) \/ Numbering!RefuseArchived(r)
      BY <2>1 DEF Numbering!RefuseLead, Numbering!RefuseKey, Numbering!RefuseArchived,
                  Numbering!Raise, Numbering!rows, Numbering!TypeOK
    <2>2. CASE Numbering!CreateProject(r)
      BY <1>3, <2>2, CallTypes
         DEF Numbering!CreateProject, Numbering!CanWrite, Numbering!TypeOK
    <2>3. CASE Numbering!UpdateProject(r)
      BY <1>3, <2>3, CallTypes
         DEF Numbering!UpdateProject, Numbering!CanWrite, Numbering!AssignLead,
             Numbering!TypeOK
    <2>4. CASE Numbering!ArchiveOrRestore(r)
      BY <1>3, <2>4, CallTypes DEF Numbering!ArchiveOrRestore, Numbering!TypeOK
    <2>5. QED
      BY <2>1, <2>2, <2>3, <2>4
  <1>9. Numbering!TypeOK'
    BY <1>1, <1>6, <1>7, <1>8 DEF Numbering!TypeOK
  <1>10. QED
    BY <1>5, <1>9

\* Validating the lead moves the request on and changes nothing else.
LEMMA ValidateInvariant ==
  ASSUME IInv, NEW r \in Editors, Numbering!ValidateLead(r)
  PROVE  IInv'
  <1> USE DEF IInv
  <1>1. Numbering!TypeOK'
    BY DEF Numbering!TypeOK, Numbering!ValidateLead, Numbering!Goto, Numbering!rows
  <1>2. call[r] \in Calls /\ Numbering!SetsLead(call[r])
    BY DEF CallsInProgress, Numbering!ValidateLead
  <1>3. call[r].op # "create_bug"
    BY <1>2, ServiceCallsOnly
       DEF Numbering!SetsLead, Numbering!ServiceCalls, Numbering!CreateCalls,
           Numbering!RenameCalls, Numbering!LeadCalls, Numbering!PlainCalls
  <1>4. CallsInProgress'
    BY <1>2, <1>3 DEF CallsInProgress, Numbering!TypeOK, Numbering!ValidateLead,
                      Numbering!Goto, Numbering!SetsLead
  <1>5. ReadsUnderLock' /\ LocksAreHeld' /\ Numbering!NumbersAreGapless'
    BY DEF ReadsUnderLock, LocksAreHeld, Numbering!NumbersAreGapless, Numbering!TypeOK,
           Numbering!ValidateLead, Numbering!Goto, Numbering!rows
  <1>6. QED
    BY <1>1, <1>4, <1>5

\* create_bug takes the lock: what it reads is what the row says.
LEMMA LockInvariant ==
  ASSUME IInv, NEW r \in Editors, Numbering!LockProject(r)
  PROVE  IInv'
  <1> USE DEF IInv
  <1>1. call[r] \in Calls /\ call[r].op = "create_bug" /\ call[r].key \in ProjectKeys
    BY CallTypes DEF Numbering!LockProject, CallsInProgress
  <1>2. Numbering!TypeOK'
    BY <1>1 DEF Numbering!TypeOK, Numbering!LockProject, Numbering!Goto, Numbering!rows
  <1>3. CallsInProgress'
    BY <1>1 DEF CallsInProgress, Numbering!TypeOK, Numbering!LockProject, Numbering!Goto
  <1>4. ReadsUnderLock'
    BY <1>1, Names
       DEF ReadsUnderLock, CallsInProgress, Numbering!TypeOK, Numbering!LockProject,
           Numbering!RowIsFree, Numbering!Goto, Numbering!rows
  <1>5. LocksAreHeld'
    BY <1>1, Names
       DEF LocksAreHeld, Numbering!TypeOK, Numbering!LockProject, Numbering!RowIsFree,
           Numbering!Goto
  <1>6. Numbering!NumbersAreGapless'
    BY DEF Numbering!NumbersAreGapless, Numbering!LockProject, Numbering!rows
  <1>7. QED
    BY <1>2, <1>3, <1>4, <1>5, <1>6

\* Two requests that insert work on different projects.
LEMMA OneInserter ==
  ASSUME IInv, NEW q \in Editors, NEW r \in Editors, q # r,
         projectPc[q] = "insert", projectPc[r] = "insert"
  PROVE  call[q].key # call[r].key
  BY DEF IInv, ReadsUnderLock

\* The insertion, or its rollback: the number read is still the counter's.
LEMMA InsertInvariant ==
  ASSUME IInv, NEW r \in Editors, Numbering!InsertBug(r) \/ Numbering!RollBack(r)
  PROVE  IInv'
  <1> USE DEF IInv
  <1> DEFINE k == call[r].key
  <1>1. /\ projectPc[r] = "insert" /\ Numbering!Answer(r)
        /\ UNCHANGED <<exists, name, lead, closed, members>>
    BY DEF Numbering!InsertBug, Numbering!RollBack, Numbering!Raise, Numbering!rows
  <1>2. k \in ProjectKeys /\ holder[k] = r /\ number[r] = nextNumber[k]
    BY <1>1, CallTypes DEF CallsInProgress, ReadsUnderLock
  <1>3. nextNumber[k] \in Nat \ {0} /\ numbers[k] = 1..(nextNumber[k] - 1)
    BY <1>2 DEF Numbering!TypeOK, Numbering!NumbersAreGapless
  <1>4. \/ UNCHANGED <<nextNumber, numbers>>
        \/ /\ nextNumber' = [nextNumber EXCEPT ![k] = nextNumber[k] + 1]
           /\ numbers' = [numbers EXCEPT ![k] = @ \union {nextNumber[k]}]
    BY <1>2 DEF Numbering!InsertBug, Numbering!RollBack, Numbering!Raise, Numbering!rows
  <1>5. /\ projectPc' = [projectPc EXCEPT ![r] = "idle"]
        /\ call' \in [Editors -> Calls \union {Numbering!NoCall}]
        /\ number' \in [Editors -> Nat]
        /\ holder' \in [ProjectKeys -> Editors \union {NoRequest}]
        /\ \A j \in ProjectKeys : holder'[j] # r /\ (holder[j] # r => holder'[j] = holder[j])
        /\ \A j \in ProjectKeys : holder'[j] # NoRequest => holder'[j] = holder[j]
        /\ \A q \in Editors \ {r} : call'[q] = call[q] /\ number'[q] = number[q]
    BY <1>1, AnswerFrame
  <1>6. projectPc' \in [Editors -> {"idle", "validate", "write", "lock", "insert"}]
        /\ projectPc'[r] = "idle" /\ \A q \in Editors \ {r} : projectPc'[q] = projectPc[q]
    BY <1>5 DEF Numbering!TypeOK
  <1>7. /\ nextNumber' \in [ProjectKeys -> Nat \ {0}]
        /\ numbers' \in [ProjectKeys -> SUBSET (Nat \ {0})]
    <2>1. /\ nextNumber \in [ProjectKeys -> Nat \ {0}]
          /\ numbers \in [ProjectKeys -> SUBSET (Nat \ {0})]
      BY DEF Numbering!TypeOK
    <2>2. /\ nextNumber[k] + 1 \in Nat \ {0}
          /\ numbers[k] \union {nextNumber[k]} \in SUBSET (Nat \ {0})
      BY <1>2, <1>3, <2>1
    <2>3. QED
      BY <1>2, <1>4, <2>1, <2>2
  <1>8. Numbering!TypeOK'
    BY <1>1, <1>5, <1>6, <1>7 DEF Numbering!TypeOK
  <1>9. CallsInProgress'
    BY <1>5, <1>6 DEF CallsInProgress, Numbering!SetsLead
  <1>10. ReadsUnderLock'
    <2> SUFFICES ASSUME NEW q \in Editors, projectPc'[q] = "insert"
                 PROVE  /\ holder'[call'[q].key] = q
                        /\ number'[q] = nextNumber'[call'[q].key]
                        /\ ~closed'[call'[q].key]
      BY DEF ReadsUnderLock
    <2>1. q # r /\ projectPc[q] = "insert" /\ call'[q] = call[q] /\ number'[q] = number[q]
      BY <1>5, <1>6
    <2>2. call[q].key \in ProjectKeys /\ call[q].key # k
      BY <1>1, <2>1, CallTypes, OneInserter DEF CallsInProgress
    <2>3. /\ holder[call[q].key] = q
          /\ number[q] = nextNumber[call[q].key]
          /\ ~closed[call[q].key]
      BY <2>1 DEF ReadsUnderLock
    <2>4. nextNumber'[call[q].key] = nextNumber[call[q].key]
      BY <1>4, <2>2 DEF Numbering!TypeOK
    <2>5. QED
      BY <1>1, <1>5, <2>1, <2>2, <2>3, <2>4
  <1>11. LocksAreHeld'
    <2> SUFFICES ASSUME NEW j \in ProjectKeys, holder'[j] # NoRequest
                 PROVE  projectPc'[holder'[j]] = "insert" /\ call'[holder'[j]].key = j
      BY DEF LocksAreHeld
    <2>1. holder'[j] = holder[j] /\ holder[j] # r
      BY <1>5
    <2>2. holder[j] \in Editors
      BY <2>1 DEF Numbering!TypeOK
    <2>3. QED
      BY <1>5, <1>6, <2>1, <2>2 DEF LocksAreHeld
  <1>12. Numbering!NumbersAreGapless'
    <2>1. (1..(nextNumber[k] - 1)) \union {nextNumber[k]} = 1..((nextNumber[k] + 1) - 1)
      BY <1>3
    <2>2. QED
      BY <1>2, <1>3, <1>4, <2>1 DEF Numbering!NumbersAreGapless, Numbering!TypeOK
  <1>13. QED
    BY <1>8, <1>9, <1>10, <1>11, <1>12

\* Removing a member only writes leads and memberships.
LEMMA RemoveInvariant ==
  ASSUME IInv, NEW u \in Staff, Numbering!RemoveMember(u)
  PROVE  IInv'
  BY DEF IInv, Numbering!TypeOK, Numbering!Leads, CallsInProgress, ReadsUnderLock,
         LocksAreHeld, Numbering!NumbersAreGapless, Numbering!SetsLead,
         Numbering!RemoveMember, Numbering!reqs

\* A step that changes no variable keeps the invariant.
LEMMA StutterInvariant ==
  ASSUME IInv, UNCHANGED Numbering!vars
  PROVE  IInv'
  BY DEF IInv, Numbering!TypeOK, CallsInProgress, ReadsUnderLock, LocksAreHeld,
         Numbering!NumbersAreGapless, Numbering!SetsLead, Numbering!vars, Numbering!rows,
         Numbering!reqs

\* Every step keeps the invariant, one lemma for each kind of step.
LEMMA StepInvariant == IInv /\ [Numbering!Next]_(Numbering!vars) => IInv'
  <1> SUFFICES ASSUME IInv, [Numbering!Next]_(Numbering!vars)
               PROVE  IInv'
    OBVIOUS
  <1>1. CASE UNCHANGED Numbering!vars
    BY <1>1, StutterInvariant
  <1>2. ASSUME NEW r \in Editors, Numbering!Submit(r) \/ Numbering!Serve(r)
        PROVE  IInv'
    BY <1>2, SubmitInvariant, AnswerInvariant, ValidateInvariant, LockInvariant,
       InsertInvariant DEF Numbering!Serve
  <1>3. ASSUME NEW u \in Staff, Numbering!RemoveMember(u)
        PROVE  IInv'
    BY <1>3, RemoveInvariant
  <1>4. QED
    BY <1>1, <1>2, <1>3 DEF Numbering!Next

-----------------------------------------------------------------------------
\* A behaviour of the platform is one of Projects.
LEMMA NumberingMoves == Spec => Numbering!Spec
  <1>1. Init => Numbering!Init
    BY DEF Init
  <1>2. [Next]_vars => [Numbering!Next]_(Numbering!vars)
    BY DEF Next, vars, projectVars, Numbering!vars, Numbering!rows, Numbering!reqs, Seed,
           Serve, Attempt, Look, Upload, Edit, Work
  <1>3. QED
    BY <1>1, <1>2, PTL DEF Spec, Numbering!Spec

\* The inductive invariant holds in every reachable state: what create_bug has
\* read of a project stays true as long as it holds the row.
THEOREM InvariantHolds == Spec => []IInv
  <1>1. QED
    BY InitInvariant, StepInvariant, NumberingMoves, PTL DEF Numbering!Spec

\* The variables keep their types: leads are users or nobody.
THEOREM TypeCorrect == Spec => []ProjectsAreTyped
  <1>1. IInv => ProjectsAreTyped
    BY DEF IInv, ProjectsAreTyped
  <1>2. QED
    BY <1>1, InvariantHolds, PTL

\* create_bug numbers the bugs of a project without holes or repetitions,
\* whatever other requests save on the row.
THEOREM NumbersCorrect == Spec => []NumbersAreGapless
  <1>1. IInv => NumbersAreGapless
    BY DEF IInv, NumbersAreGapless
  <1>2. QED
    BY <1>1, InvariantHolds, PTL

\* No step inserts a bug into an archived project: the only step that
\* changes the numbers belongs to the request that holds the row.
THEOREM NoneBornArchived == Spec => NoBugBornArchived
  <1>1. IInv /\ [Numbering!Next]_(Numbering!vars) =>
          [\A k \in ProjectKeys : numbers'[k] # numbers[k] => ~closed[k]]_(Numbering!vars)
    <2> SUFFICES ASSUME IInv, Numbering!Next, NEW k \in ProjectKeys, numbers'[k] # numbers[k]
                 PROVE  ~closed[k]
      OBVIOUS
    <2>1. PICK r \in Editors : Numbering!InsertBug(r)
      BY DEF Numbering!Next, Numbering!Submit, Numbering!Serve, Numbering!ValidateLead,
             Numbering!RefuseLead, Numbering!CreateProject, Numbering!RefuseKey,
             Numbering!UpdateProject, Numbering!ArchiveOrRestore, Numbering!LockProject,
             Numbering!RefuseArchived, Numbering!RollBack, Numbering!RemoveMember,
             Numbering!Raise, Numbering!rows
    <2>2. k = call[r].key
      BY <2>1 DEF Numbering!InsertBug, IInv, Numbering!TypeOK
    <2>3. QED
      BY <2>1, <2>2 DEF Numbering!InsertBug, IInv, ReadsUnderLock
  <1>2. QED
    BY <1>1, InvariantHolds, NumberingMoves, PTL
       DEF Numbering!Spec, Numbering!NoBugBornArchived, NoBugBornArchived
=============================================================================
