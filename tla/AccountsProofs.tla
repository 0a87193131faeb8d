--------------------------- MODULE AccountsProofs ---------------------------
(* Theorems about Accounts, for every set of users, requests and channels. *)
EXTENDS Accounts, TLAPS

-----------------------------------------------------------------------------
(* Lemmas about the data and about the helpers the actions are built from. *)

LEMMA Rows ==
    /\ Default \in SUBSET Channel
    /\ \A row \in SUBSET Channel : row # None
  BY AccountsAssumption

LEMMA ApplyType ==
    ASSUME NEW row, NEW change PROVE Apply(row, change) \in SUBSET Channel
  BY DEF Apply

LEMMA NoChangeType == NoChange \in Change
  <1>1. NoChange \in [{} -> BOOLEAN]
    BY DEF NoChange
  <1> QED BY <1>1 DEF Change

(* A request in flight and its fields. *)
LEMMA InFlight ==
    ASSUME TypeOK, NEW r \in Request, req[r] # None
    PROVE  /\ req[r] \in Handling
           /\ req[r].pc \in Pc /\ Who(r) \in User
           /\ req[r].obj \in {"active", "inactive"}
           /\ req[r].row \in SUBSET Channel
  <1>1. req[r] \in Handling
    BY DEF TypeOK
  <1> QED BY <1>1 DEF Handling, Who, State

LEMMA EnterType ==
    ASSUME TypeOK, NEW r \in Request, NEW u \in User, NEW pc \in Pc,
           NEW obj \in {"active", "inactive"}, Enter(r, u, pc, obj)
    PROVE  req' \in [Request -> Handling \cup {None}]
  <1>1. [pc |-> pc, who |-> u, obj |-> obj, row |-> {}, change |-> NoChange]
          \in Handling
    BY NoChangeType DEF Handling, State
  <1> QED BY <1>1 DEF Enter, TypeOK

LEMMA GoToType ==
    ASSUME TypeOK, NEW r \in Request, req[r] # None, NEW pc \in Pc, GoTo(r, pc)
    PROVE  req' \in [Request -> Handling \cup {None}]
  <1>1. [req[r] EXCEPT !.pc = pc] \in Handling
    BY InFlight DEF Handling
  <1> QED BY <1>1 DEF GoTo, TypeOK

LEMMA LeaveType ==
    ASSUME TypeOK, NEW r \in Request, Leave(r)
    PROVE  req' \in [Request -> Handling \cup {None}]
  BY DEF Leave, TypeOK

LEMMA ObtainedType ==
    ASSUME TypeOK, NEW u \in User PROVE Obtained(u) \in {"active", "inactive"}
  BY DEF TypeOK, State, Exists, Obtained

LEMMA SaveUserType ==
    ASSUME TypeOK, NEW r \in Request, req[r] # None, SaveUser(r)
    PROVE  user' \in [User -> State]
  <1>1. req[r].obj \in State
    BY InFlight DEF State
  <1> QED BY <1>1 DEF SaveUser, TypeOK

LEMMA CreateSettingsType ==
    ASSUME TypeOK, NEW u, CreateSettings(u)
    PROVE  settings' \in [User -> {None} \cup SUBSET Channel]
  BY Rows DEF CreateSettings, TypeOK

-----------------------------------------------------------------------------
(* The inductive invariant: a request knows an account that is there, unless  *)
(* it is the registration that is about to make it.  Profiles are only typed  *)
(* because of that: ProfileGet reads a row that exists.                       *)
KnownUsers ==
    \A r \in Request : req[r] # None /\ req[r].pc # "create" => Exists(req[r].who)

IInv == TypeOK /\ KnownUsers

-----------------------------------------------------------------------------
(* Type correctness *)

LEMMA InitType == Init => TypeOK
  BY AccountsAssumption DEF Init, TypeOK, State, Token

(* Requests that begin. *)
LEMMA BeginType ==
    ASSUME TypeOK, NEW r \in Request, NEW u \in User, Begin(r, u) PROVE TypeOK'
  <1>1. CASE RegisterBegin(r, u)
    <2>1. req' \in [Request -> Handling \cup {None}]
      BY <1>1, EnterType DEF RegisterBegin, Pc
    <2> QED BY <1>1, <2>1 DEF RegisterBegin, TypeOK
  <1>2. CASE GitHubUser(r, u)
    <2>1. AfterGetOrCreate(u) \in Pc
      BY DEF AfterGetOrCreate, Pc
    <2>2. req' \in [Request -> Handling \cup {None}]
      BY <1>2, <2>1, EnterType, ObtainedType DEF GitHubUser
    <2>3. user' \in [User -> State]
      BY <1>2, ObtainedType DEF GitHubUser, TypeOK, State
    <2> QED BY <1>2, <2>2, <2>3 DEF GitHubUser, TypeOK
  <1>3. CASE LoginBegin(r, u)
    <2>1. user[u] \in {"active", "inactive"}
      BY <1>3 DEF LoginBegin, Exists, TypeOK, State
    <2>2. req' \in [Request -> Handling \cup {None}]
      BY <1>3, <2>1, EnterType DEF LoginBegin, Pc
    <2> QED BY <1>3, <2>2 DEF LoginBegin, TypeOK
  <1>4. CASE ProfileBegin(r, u)
    <2>1. req' \in [Request -> Handling \cup {None}]
      BY <1>4, EnterType DEF ProfileBegin, Pc
    <2> QED BY <1>4, <2>1 DEF ProfileBegin, TypeOK
  <1>5. CASE DeactivateBegin(r, u)
    <2>1. req' \in [Request -> Handling \cup {None}]
      BY <1>5, EnterType DEF DeactivateBegin, Pc
    <2> QED BY <1>5, <2>1 DEF DeactivateBegin, TypeOK
  <1>6. CASE AskBegin(r, u)
    <2>1. user[u] \in {"active", "inactive"}
      BY <1>6 DEF AskBegin, Exists, TypeOK, State
    <2>2. req' \in [Request -> Handling \cup {None}]
      BY <1>6, <2>1, EnterType DEF AskBegin, Pc
    <2> QED BY <1>6, <2>2 DEF AskBegin, TypeOK
  <1> QED BY <1>1, <1>2, <1>3, <1>4, <1>5, <1>6 DEF Begin

(* Steps of the requests in flight. *)
LEMMA StepType ==
    ASSUME IInv, NEW r \in Request, Step(r) PROVE TypeOK'
  <1> USE DEF IInv
  <1> DEFINE ReqType == req' \in [Request -> Handling \cup {None}]
  <1>1. CASE RegisterUser(r)
    <2>1. Who(r) \in User
      BY <1>1, InFlight DEF RegisterUser, At
    <2>2. ReqType
      BY <1>1, GoToType, LeaveType DEF RegisterUser, At, Pc
    <2>3. user' \in [User -> State]
      BY <1>1, <2>1 DEF RegisterUser, TypeOK, State
    <2> QED BY <1>1, <2>2, <2>3 DEF RegisterUser, TypeOK
  <1>2. CASE RegisterSettings(r)
    <2>1. ReqType
      BY <1>2, LeaveType DEF RegisterSettings
    <2>2. settings' \in [User -> {None} \cup SUBSET Channel]
      BY <1>2, CreateSettingsType DEF RegisterSettings, TypeOK
    <2> QED BY <1>2, <2>1, <2>2 DEF RegisterSettings, TypeOK
  <1>3. CASE GitHubSave(r)
    <2>1. ReqType
      BY <1>3, GoToType DEF GitHubSave, At, Pc
    <2>2. user' \in [User -> State]
      BY <1>3, SaveUserType DEF GitHubSave, At
    <2> QED BY <1>3, <2>1, <2>2 DEF GitHubSave, TypeOK
  <1>4. CASE GitHubSettings(r)
    <2>1. ReqType
      BY <1>4, GoToType, LeaveType DEF GitHubSettings, At, Pc
    <2>2. settings' \in [User -> {None} \cup SUBSET Channel]
      BY <1>4, CreateSettingsType DEF GitHubSettings, TypeOK
    <2> QED BY <1>4, <2>1, <2>2 DEF GitHubSettings, TypeOK
  <1>5. CASE Issue(r)
    <2>1. ReqType
      BY <1>5, LeaveType DEF Issue
    <2>2. session' \in [User -> SUBSET Token]
      BY <1>5 DEF Issue, TypeOK, Token
    <2> QED BY <1>5, <2>1, <2>2 DEF Issue, TypeOK
  <1>6. CASE ProfileGet(r)
    <2>1. user[Who(r)] \in {"active", "inactive"}
      BY <1>6, InFlight DEF ProfileGet, At, Who, KnownUsers, Exists, TypeOK, State
    <2>2. [req[r] EXCEPT !.pc = "update", !.obj = user[Who(r)]] \in Handling
      BY <1>6, <2>1, InFlight DEF ProfileGet, At, Handling, Pc, State
    <2> QED BY <1>6, <2>2 DEF ProfileGet, TypeOK
  <1>7. CASE PatchUser(r)
    <2>1. ReqType
      BY <1>7, LeaveType DEF PatchUser
    <2>2. user' \in [User -> State]
      BY <1>7, SaveUserType DEF PatchUser, At
    <2> QED BY <1>7, <2>1, <2>2 DEF PatchUser, TypeOK
  <1>8. CASE PatchLock(r)
    <2>1. PICK change \in Change :
            req' = [req EXCEPT ![r].pc = "locked", ![r].change = change]
      BY <1>8 DEF PatchLock
    <2>2. [req[r] EXCEPT !.pc = "locked", !.change = change] \in Handling
      BY <1>8, InFlight DEF PatchLock, At, Handling, Pc
    <2>3. ReqType
      BY <2>1, <2>2 DEF TypeOK
    <2> QED BY <1>8, <2>3 DEF PatchLock, TypeOK
  <1>9. CASE PatchSettings(r)
    <2> DEFINE s == settings[Who(r)]
    <2>1. (IF s = None THEN Default ELSE s) \in SUBSET Channel
      BY <1>9, InFlight, Rows DEF PatchSettings, At, TypeOK
    <2>2. [req[r] EXCEPT !.pc = "commit", !.row = IF s = None THEN Default ELSE s]
            \in Handling
      BY <1>9, <2>1, InFlight DEF PatchSettings, At, Handling, Pc
    <2>3. ReqType
      BY <1>9, <2>2 DEF PatchSettings, TypeOK
    <2> QED BY <1>9, <2>3 DEF PatchSettings, TypeOK
  <1>10. CASE PatchCommit(r)
    <2>1. Who(r) \in User /\ req[r].obj \in State
      BY <1>10, InFlight DEF PatchCommit, At, State
    <2>2. ReqType
      BY <1>10, LeaveType DEF PatchCommit
    <2>3. /\ settings' \in [User -> {None} \cup SUBSET Channel]
          /\ chosen' \in [User -> SUBSET Channel]
      BY <1>10, <2>1, ApplyType DEF PatchCommit, TypeOK
    <2>4. user' \in [User -> State]
      BY <1>10, <2>1 DEF PatchCommit, TypeOK
    <2> QED BY <1>10, <2>2, <2>3, <2>4 DEF PatchCommit, TypeOK
  <1>11. CASE DeactivateSave(r)
    <2>1. ReqType
      BY <1>11, LeaveType DEF DeactivateSave
    <2>2. user' \in [User -> State]
      BY <1>11, SaveUserType DEF DeactivateSave, At
    <2> QED BY <1>11, <2>1, <2>2 DEF DeactivateSave, TypeOK
  <1>12. CASE AskSettings(r)
    <2>1. ReqType
      BY <1>12, LeaveType DEF AskSettings
    <2>2. settings' \in [User -> {None} \cup SUBSET Channel]
      BY <1>12, CreateSettingsType DEF AskSettings, TypeOK
    <2> QED BY <1>12, <2>1, <2>2 DEF AskSettings, TypeOK
  <1> QED BY <1>1, <1>2, <1>3, <1>4, <1>5, <1>6, <1>7, <1>8, <1>9, <1>10,
             <1>11, <1>12 DEF Step

LEMMA NextType == IInv /\ [Next]_vars => TypeOK'
  <1> SUFFICES ASSUME IInv, [Next]_vars PROVE TypeOK'
    OBVIOUS
  <1> USE DEF IInv
  <1>1. ASSUME NEW r \in Request, Die(r) PROVE TypeOK'
    <2>1. req' \in [Request -> Handling \cup {None}]
      BY <1>1, LeaveType DEF Die
    <2>2. deaths' \in 0 .. MaxDeaths
      BY <1>1, AccountsAssumption DEF Die, TypeOK
    <2> QED BY <1>1, <2>1, <2>2 DEF Die, TypeOK
  <1>2. ASSUME NEW u \in User, NEW t \in Token, Expire(u, t) PROVE TypeOK'
    BY <1>2 DEF Expire, TypeOK
  <1>3. CASE UNCHANGED vars
    BY <1>3 DEF vars, TypeOK
  <1> QED BY <1>1, <1>2, <1>3, BeginType, StepType DEF Next

-----------------------------------------------------------------------------
(* Accounts stay. *)

(* What a step does to a user row: nothing, or it writes a row that exists. *)
LEMMA RowsStay ==
    ASSUME IInv, [Next]_vars, NEW u \in User, Exists(u) PROVE user'[u] # "absent"
  <1> USE DEF IInv
  <1>1. ASSUME NEW r \in Request, req[r] # None, SaveUser(r) PROVE user'[u] # "absent"
    BY <1>1, InFlight DEF SaveUser, Exists, TypeOK
  <1>2. ASSUME NEW r \in Request, Step(r) PROVE user'[u] # "absent"
    <2>1. CASE UNCHANGED user
      BY <2>1 DEF Exists
    <2>2. CASE RegisterUser(r)
      BY <2>2 DEF RegisterUser, Exists, TypeOK
    <2>3. CASE GitHubSave(r) \/ PatchUser(r) \/ DeactivateSave(r)
      BY <2>3, <1>1 DEF GitHubSave, PatchUser, DeactivateSave, At
    <2>4. CASE PatchCommit(r)
      BY <2>4, InFlight DEF PatchCommit, At, Exists, TypeOK
    <2> QED BY <1>2, <2>1, <2>2, <2>3, <2>4
            DEF Step, RegisterSettings, GitHubSettings, Issue, ProfileGet,
                PatchLock, PatchSettings, AskSettings
  <1>3. ASSUME NEW r \in Request, NEW v \in User, Begin(r, v) PROVE user'[u] # "absent"
    <2>1. CASE UNCHANGED user
      BY <2>1 DEF Exists
    <2>2. CASE GitHubUser(r, v)
      BY <2>2, ObtainedType DEF GitHubUser, Exists, TypeOK
    <2> QED BY <1>3, <2>1, <2>2
            DEF Begin, RegisterBegin, LoginBegin, ProfileBegin, DeactivateBegin,
                AskBegin
  <1>4. CASE UNCHANGED user
    BY <1>4 DEF Exists
  <1> QED BY <1>2, <1>3, <1>4 DEF Next, Die, Expire, vars

LEMMA InitKnown == Init => KnownUsers
  BY DEF Init, KnownUsers

LEMMA NextKnown == IInv /\ [Next]_vars => KnownUsers'
  <1> SUFFICES ASSUME IInv, [Next]_vars,
                      NEW q \in Request, req'[q] # None, req'[q].pc # "create"
               PROVE  user'[req'[q].who] # "absent"
    BY DEF KnownUsers, Exists
  <1> USE DEF IInv
  <1> DEFINE Kept == req[q] # None /\ req[q].pc # "create" /\ req'[q].who = Who(q)
  <1>1. Kept => user'[req'[q].who] # "absent"
    <2>1. Kept => Who(q) \in User /\ Exists(Who(q))
      BY InFlight DEF KnownUsers, Who
    <2> QED BY <2>1, RowsStay
  <1>2. ASSUME NEW r \in Request, Step(r) PROVE user'[req'[q].who] # "absent"
    <2>1. CASE RegisterUser(r)
      <3>1. CASE q = r
        <4>1. Who(r) \in User
          BY <2>1, InFlight DEF RegisterUser, At
        <4>2. ~Leave(r)
          BY <3>1 DEF Leave, TypeOK
        <4>3. GoTo(r, "settings") /\ user' = [user EXCEPT ![Who(r)] = "active"]
          BY <2>1, <4>2 DEF RegisterUser
        <4>4. user'[Who(r)] = "active"
          BY <4>1, <4>3 DEF TypeOK
        <4>5. req'[r].who = Who(r)
          BY <2>1, <4>3 DEF RegisterUser, At, GoTo, Who, TypeOK
        <4> QED BY <3>1, <4>4, <4>5
      <3>2. CASE q # r
        BY <2>1, <3>2, <1>1 DEF RegisterUser, GoTo, Leave, Who, TypeOK
      <3> QED BY <3>1, <3>2
    <2>2. CASE req' = [req EXCEPT ![r] = None]
      BY <2>2, <1>1 DEF Who, TypeOK
    <2>3. CASE GitHubSave(r) \/ (GitHubSettings(r) /\ GoTo(r, "issue"))
      <3>1. \E pc \in Pc : GoTo(r, pc)
        BY <2>3 DEF GitHubSave, GitHubSettings, Pc
      <3>2. req[r] # None /\ req[r].pc \in {"save", "defaults"}
        BY <2>3 DEF GitHubSave, GitHubSettings, At
      <3>3. Kept
        BY <3>1, <3>2 DEF GoTo, Who, TypeOK
      <3> QED BY <3>3, <1>1
    <2>4. CASE ProfileGet(r)
      BY <2>4, <1>1 DEF ProfileGet, At, Who, TypeOK
    <2>5. CASE PatchLock(r)
      BY <2>5, <1>1 DEF PatchLock, At, Who, TypeOK
    <2>6. CASE PatchSettings(r)
      BY <2>6, <1>1 DEF PatchSettings, At, Who, TypeOK
    <2> QED BY <1>2, <2>1, <2>2, <2>3, <2>4, <2>5, <2>6
            DEF Step, Leave, RegisterSettings, GitHubSettings, Issue, PatchUser,
                PatchCommit, DeactivateSave, AskSettings
  <1>3. ASSUME NEW r \in Request, NEW u \in User, Begin(r, u)
        PROVE  user'[req'[q].who] # "absent"
    <2>1. CASE q # r
      BY <1>3, <2>1, <1>1
      DEF Begin, Enter, Who, TypeOK, RegisterBegin, GitHubUser, LoginBegin,
          ProfileBegin, DeactivateBegin, AskBegin
    <2>2. CASE q = r
      <3>1. req'[q].who = u
        BY <1>3, <2>2
        DEF Begin, Enter, TypeOK, RegisterBegin, GitHubUser, LoginBegin,
            ProfileBegin, DeactivateBegin, AskBegin
      <3>2. CASE RegisterBegin(r, u)
        BY <2>2, <3>2 DEF RegisterBegin, Enter, TypeOK
      <3>3. CASE GitHubUser(r, u)
        BY <3>1, <3>3, ObtainedType DEF GitHubUser, Exists, TypeOK
      <3>4. CASE LoginBegin(r, u) \/ AskBegin(r, u)
        BY <3>1, <3>4, RowsStay DEF LoginBegin, AskBegin
      <3>5. CASE ProfileBegin(r, u) \/ DeactivateBegin(r, u)
        <4>1. Exists(u)
          BY <3>5 DEF ProfileBegin, DeactivateBegin, Authenticated, Exists
        <4> QED BY <3>1, <4>1, RowsStay
      <3> QED BY <1>3, <3>2, <3>3, <3>4, <3>5 DEF Begin
    <2> QED BY <2>1, <2>2
  <1>4. ASSUME NEW r \in Request, Die(r) PROVE user'[req'[q].who] # "absent"
    BY <1>4, <1>1 DEF Die, Leave, Who, TypeOK
  <1>5. CASE UNCHANGED req
    BY <1>5, <1>1 DEF Who
  <1> QED BY <1>2, <1>3, <1>4, <1>5 DEF Next, Expire, vars

LEMMA Inductive == Spec => []IInv
  <1>1. Init => IInv
    BY InitType, InitKnown DEF IInv
  <1>2. IInv /\ [Next]_vars => IInv'
    BY NextType, NextKnown DEF IInv
  <1> QED BY <1>1, <1>2, PTL DEF Spec

(* Whatever requests overlap, every variable keeps its type: a request only   *)
(* ever holds an account that exists, as it was or as it will be written.     *)
THEOREM TypeCorrect == Spec => []TypeOK
  BY Inductive, PTL DEF IInv

-----------------------------------------------------------------------------
(* Accounts are complete. *)

LEMMA SettingsStay ==
    ASSUME IInv, [Next]_vars, NEW u \in User, settings[u] # None
    PROVE  settings'[u] # None
  <1> USE DEF IInv
  <1>1. ASSUME NEW v, CreateSettings(v) PROVE settings'[u] # None
    BY <1>1, Rows DEF CreateSettings, TypeOK
  <1>2. ASSUME NEW r \in Request, PatchCommit(r) PROVE settings'[u] # None
    BY <1>2, InFlight, ApplyType, Rows DEF PatchCommit, At, TypeOK
  <1>3. CASE UNCHANGED settings
    BY <1>3
  <1> QED BY <1>1, <1>2, <1>3
          DEF Next, Step, Begin, vars, RegisterBegin, RegisterUser,
              RegisterSettings, GitHubUser, GitHubSave, GitHubSettings,
              LoginBegin, Issue, Expire, ProfileBegin, ProfileGet, PatchUser,
              PatchLock, PatchSettings, DeactivateBegin, DeactivateSave,
              AskBegin, AskSettings, Die

(* Only the first steps of a registration and of a GitHub login make a row. *)
LEMMA WhoMakes ==
    ASSUME IInv, [Next]_vars, NEW u \in User, ~Exists(u), user'[u] # "absent"
    PROVE  \E r \in Request : /\ req'[r] # None /\ req'[r].who = u
                              /\ req'[r].pc \in {"settings", "save"}
  <1> USE DEF IInv
  <1>1. ASSUME NEW r \in Request, req[r] # None, req[r].pc # "create"
        PROVE  Who(r) \in User /\ Who(r) # u
    BY <1>1, InFlight DEF KnownUsers, Who
  <1>2. ASSUME NEW r \in Request, SaveUser(r), req[r] # None, req[r].pc # "create"
        PROVE  FALSE
    BY <1>1, <1>2 DEF SaveUser, Exists, TypeOK
  <1>3. ASSUME NEW r \in Request, Step(r), ~RegisterUser(r) PROVE FALSE
    <2>1. ~UNCHANGED user
      BY DEF Exists
    <2>2. ~PatchCommit(r)
      BY <1>1 DEF PatchCommit, At, Exists, TypeOK
    <2>3. ~GitHubSave(r) /\ ~PatchUser(r) /\ ~DeactivateSave(r)
      BY <1>2 DEF GitHubSave, PatchUser, DeactivateSave, At
    <2> QED BY <1>3, <2>1, <2>2, <2>3
            DEF Step, RegisterSettings, GitHubSettings, Issue, ProfileGet,
                PatchLock, PatchSettings, AskSettings
  <1>4. ASSUME NEW r \in Request, RegisterUser(r)
        PROVE  /\ req'[r] # None /\ req'[r].who = u
               /\ req'[r].pc = "settings"
    <2>1. req[r] \in Handling /\ Who(r) \in User
      BY <1>4, InFlight DEF RegisterUser, At
    <2>2. GoTo(r, "settings") /\ user' = [user EXCEPT ![Who(r)] = "active"]
      BY <1>4 DEF RegisterUser, Exists
    <2>3. Who(r) = u
      BY <2>1, <2>2 DEF Exists, TypeOK
    <2>4. [req[r] EXCEPT !.pc = "settings"] \in Handling
      BY <2>1 DEF Handling, Pc
    <2>5. [req[r] EXCEPT !.pc = "settings"].who = u
      BY <2>1, <2>3 DEF Handling, Who
    <2>6. [req[r] EXCEPT !.pc = "settings"].pc = "settings"
      BY <2>1 DEF Handling
    <2> QED BY <2>2, <2>4, <2>5, <2>6, NoRequestAssumption DEF GoTo, TypeOK
  <1>5. ASSUME NEW r \in Request, NEW v \in User, Begin(r, v)
        PROVE  /\ req'[r] # None /\ req'[r].who = u
               /\ req'[r].pc = "save"
    <2>1. GitHubUser(r, v)
      BY <1>5 DEF Exists, Begin, RegisterBegin, LoginBegin, ProfileBegin,
                  DeactivateBegin, AskBegin
    <2>2. v = u
      BY <2>1 DEF GitHubUser, Exists, TypeOK
    <2>3. Enter(r, u, "save", "active")
      BY <2>1, <2>2 DEF GitHubUser, AfterGetOrCreate, Obtained
    <2>4. [pc |-> "save", who |-> u, obj |-> "active", row |-> {},
           change |-> NoChange] \in Handling
      BY NoChangeType DEF Handling, Pc, State
    <2> QED BY <2>3, <2>4, NoRequestAssumption DEF Enter, TypeOK
  <1>6. ~UNCHANGED user
    BY DEF Exists
  <1> QED BY <1>3, <1>4, <1>5, <1>6 DEF Next, Die, Expire, vars

(* A request that is making an account goes on until the settings are there, *)
(* or is killed.                                                             *)
LEMMA MakingGoesOn ==
    ASSUME IInv, [Next]_vars, NEW q \in Request, req[q] # None,
           req[q].pc \in {"settings", "save", "defaults"},
           settings'[Who(q)] = None
    PROVE  \/ /\ req'[q] # None /\ req'[q].who = Who(q)
              /\ req'[q].pc \in {"settings", "save", "defaults"}
           \/ deaths' > 0
  <1> USE DEF IInv
  <1> DEFINE Goes == /\ req'[q] # None /\ req'[q].who = Who(q)
                     /\ req'[q].pc \in {"settings", "save", "defaults"}
  <1>1. req[q] \in Handling /\ Who(q) \in User
    BY InFlight
  <1>2. req'[q] = req[q] => Goes
    BY DEF Who
  <1>3. ASSUME NEW v, CreateSettings(v), v = Who(q) PROVE FALSE
    BY <1>1, <1>3, Rows DEF CreateSettings, TypeOK
  <1>4. settings[Who(q)] = None
    BY <1>1, SettingsStay
  <1>5. ~RegisterSettings(q) /\ ~GitHubSettings(q)
    BY <1>3, <1>4 DEF RegisterSettings, GitHubSettings
  <1>6. CASE GitHubSave(q)
    <2>1. /\ [req[q] EXCEPT !.pc = "defaults"] \in Handling
          /\ [req[q] EXCEPT !.pc = "defaults"].who = Who(q)
          /\ [req[q] EXCEPT !.pc = "defaults"].pc = "defaults"
      BY <1>1 DEF Handling, Pc, Who
    <2> QED BY <1>6, <2>1, NoRequestAssumption DEF GitHubSave, GoTo, TypeOK
  <1>7. ASSUME NEW r \in Request, Step(r), ~GitHubSave(q) PROVE Goes
    <2>1. r # q
      BY <1>5, <1>7
      DEF Step, At, RegisterUser, Issue, ProfileGet, PatchUser, PatchLock,
          PatchSettings, PatchCommit, DeactivateSave, AskSettings
    <2>2. req'[q] = req[q]
      BY <1>7, <2>1
      DEF Step, RegisterUser, RegisterSettings, GitHubSave, GitHubSettings, Issue,
          ProfileGet, PatchUser, PatchLock, PatchSettings, PatchCommit,
          DeactivateSave, AskSettings, GoTo, Leave, TypeOK
    <2> QED BY <1>2, <2>2
  <1>8. ASSUME NEW r \in Request, NEW v \in User, Begin(r, v) PROVE Goes
    <2>1. req'[q] = req[q]
      BY <1>8
      DEF Begin, Enter, RegisterBegin, GitHubUser, LoginBegin, ProfileBegin,
          DeactivateBegin, AskBegin, TypeOK
    <2> QED BY <1>2, <2>1
  <1>9. ASSUME NEW r \in Request, Die(r) PROVE deaths' > 0
    BY <1>9 DEF Die, TypeOK
  <1>10. CASE UNCHANGED req
    BY <1>2, <1>10
  <1> QED BY <1>6, <1>7, <1>8, <1>9, <1>10 DEF Next, Expire, vars

LEMMA HalfMadeStep ==
    IInv /\ HalfMadeOnlyByDeath /\ [Next]_vars => HalfMadeOnlyByDeath'
  <1> SUFFICES ASSUME IInv, HalfMadeOnlyByDeath, [Next]_vars, NEW u \in User,
                      user'[u] # "absent", settings'[u] = None, ~(deaths' > 0)
               PROVE  \E r \in Request :
                        /\ req'[r] # None /\ req'[r].who = u
                        /\ req'[r].pc \in {"settings", "save", "defaults"}
    BY DEF HalfMadeOnlyByDeath, BeingMade, Exists, At, Who
  <1>1. CASE ~Exists(u)
    BY <1>1, WhoMakes
  <1>2. CASE Exists(u)
    <2>1. settings[u] = None
      BY SettingsStay
    <2>2. ~(deaths > 0)
      <3>1. deaths' = deaths \/ deaths' = deaths + 1
        BY DEF Next, Step, Begin, vars, RegisterBegin, RegisterUser,
               RegisterSettings, GitHubUser, GitHubSave, GitHubSettings,
               LoginBegin, Issue, Expire, ProfileBegin, ProfileGet, PatchUser,
               PatchLock, PatchSettings, PatchCommit, DeactivateBegin,
               DeactivateSave, AskBegin, AskSettings, Die
      <3>2. deaths \in Nat
        BY AccountsAssumption DEF IInv, TypeOK
      <3> QED BY <3>1, <3>2
    <2>3. PICK q \in Request : /\ req[q] # None /\ Who(q) = u
                               /\ req[q].pc \in {"settings", "save", "defaults"}
      BY <1>2, <2>1, <2>2 DEF HalfMadeOnlyByDeath, BeingMade, At
    <2> QED BY <2>3, MakingGoesOn
  <1> QED BY <1>1, <1>2

(* An account without settings is being made by some request, unless a thread *)
(* was killed, for any number of requests.                                    *)
THEOREM AccountsAreComplete == Spec => []HalfMadeOnlyByDeath
  <1>1. Init => HalfMadeOnlyByDeath
    BY DEF Init, HalfMadeOnlyByDeath, Exists
  <1> QED BY <1>1, Inductive, HalfMadeStep, PTL DEF Spec

-----------------------------------------------------------------------------
(* Chosen settings are kept.  The strengthening: settings that are not made   *)
(* yet count as the defaults; of the PATCHes of one account at most one has   *)
(* saved the user and not committed, because that save locks the row; and the *)
(* settings it has read are the ones in the table until it commits, because   *)
(* nobody else can make or change them meanwhile.                             *)
InPatch(r) == req[r] # None /\ req[r].pc \in {"locked", "commit"}

Stored(u) == IF settings[u] = None THEN Default ELSE settings[u]

StoredIsChosen == \A u \in User : Stored(u) = chosen[u]

OnePatch ==
    \A q, r \in Request :
        InPatch(q) /\ InPatch(r) /\ req[q].who = req[r].who => q = r

ReadIsStored ==
    \A r \in Request :
        req[r] # None /\ req[r].pc = "commit" => req[r].row = Stored(req[r].who)

ChoiceInv == StoredIsChosen /\ OnePatch /\ ReadIsStored

(* A step changes what is stored only by committing a PATCH. *)
LEMMA StoredChanges ==
    ASSUME IInv, [Next]_vars, NEW u \in User,
           \A r \in Request : PatchCommit(r) => Who(r) # u
    PROVE  /\ (IF settings'[u] = None THEN Default ELSE settings'[u]) = Stored(u)
           /\ chosen'[u] = chosen[u]
  <1> USE DEF IInv
  <1>1. ASSUME NEW v, CreateSettings(v)
        PROVE  (IF settings'[u] = None THEN Default ELSE settings'[u]) = Stored(u)
    BY <1>1, Rows DEF CreateSettings, Stored, TypeOK
  <1>2. ASSUME NEW r \in Request, PatchCommit(r)
        PROVE  settings'[u] = settings[u] /\ chosen'[u] = chosen[u]
    BY <1>2 DEF PatchCommit, TypeOK
  <1>3. (\A r \in Request : ~PatchCommit(r)) =>
          /\ UNCHANGED chosen
          /\ UNCHANGED settings \/ \E v : CreateSettings(v)
    BY DEF Next, Step, Begin, vars, RegisterBegin, RegisterUser,
           RegisterSettings, GitHubUser, GitHubSave, GitHubSettings,
           LoginBegin, Issue, Expire, ProfileBegin, ProfileGet, PatchUser,
           PatchLock, PatchSettings, DeactivateBegin, DeactivateSave,
           AskBegin, AskSettings, Die
  <1> QED BY <1>1, <1>2, <1>3 DEF Stored

(* A request is in a PATCH after a step if it was before, or has just saved   *)
(* the user, and then nobody else had it locked.                              *)
LEMMA PatchBegins ==
    ASSUME IInv, [Next]_vars, NEW q \in Request,
           req'[q] # None, req'[q].pc \in {"locked", "commit"}
    PROVE  /\ req[q] # None /\ req'[q].who = req[q].who
           /\ \/ InPatch(q) /\ (req'[q] = req[q] \/ PatchSettings(q))
              \/ PatchLock(q)
  <1> USE DEF IInv
  <1>1. CASE req'[q] = req[q]
    BY <1>1 DEF InPatch
  <1>2. ASSUME NEW r \in Request, PatchLock(r), req'[q] # req[q]
        PROVE  r = q /\ req[q] # None /\ req'[q].who = req[q].who
    BY <1>2 DEF PatchLock, At, TypeOK
  <1>3. ASSUME NEW r \in Request, PatchSettings(r), req'[q] # req[q]
        PROVE  r = q /\ InPatch(q) /\ req'[q].who = req[q].who
    BY <1>3 DEF PatchSettings, At, InPatch, TypeOK
  <1>4. ASSUME NEW r \in Request, Leave(r) PROVE req'[q] = req[q]
    BY <1>4 DEF Leave, TypeOK
  <1>5. ASSUME NEW r \in Request, NEW pc \in {"settings", "defaults", "issue"},
               req[r] # None, GoTo(r, pc)
        PROVE  req'[q] = req[q]
    BY <1>5, InFlight DEF GoTo, TypeOK
  <1>6. ASSUME NEW r \in Request, ProfileGet(r) PROVE req'[q] = req[q]
    BY <1>6 DEF ProfileGet, At, TypeOK
  <1>7. ASSUME NEW r \in Request, NEW v \in User, Begin(r, v)
        PROVE  req'[q] = req[q]
    BY <1>7
    DEF Begin, Enter, RegisterBegin, GitHubUser, LoginBegin, ProfileBegin,
        DeactivateBegin, AskBegin, AfterGetOrCreate, TypeOK
  <1>8. ASSUME NEW r \in Request, Step(r), ~PatchLock(r), ~PatchSettings(r)
        PROVE  req'[q] = req[q]
    BY <1>4, <1>5, <1>6, <1>8
    DEF Step, RegisterUser, RegisterSettings, GitHubSave, GitHubSettings, Issue,
        PatchUser, PatchCommit, DeactivateSave, AskSettings, At
  <1>9. CASE UNCHANGED req
    BY <1>1, <1>9
  <1>10. ASSUME req'[q] # req[q]
         PROVE  \E r \in Request : PatchLock(r) \/ PatchSettings(r)
    BY <1>4, <1>7, <1>8, <1>9, <1>10 DEF Next, Die, Expire, vars
  <1>11. CASE req'[q] # req[q]
    <2>1. PICK r \in Request : PatchLock(r) \/ PatchSettings(r)
      BY <1>10, <1>11
    <2>2. CASE PatchLock(r)
      BY <1>2, <1>11, <2>2
    <2>3. CASE PatchSettings(r)
      BY <1>3, <1>11, <2>3 DEF InPatch
    <2> QED BY <2>1, <2>2, <2>3
  <1> QED BY <1>1, <1>11

LEMMA OnePatchStep == IInv /\ OnePatch /\ [Next]_vars => OnePatch'
  <1> SUFFICES ASSUME IInv, OnePatch, [Next]_vars,
                      NEW q \in Request, NEW r \in Request,
                      req'[q] # None, req'[q].pc \in {"locked", "commit"},
                      req'[r] # None, req'[r].pc \in {"locked", "commit"},
                      req'[q].who = req'[r].who
               PROVE  q = r
    BY DEF OnePatch, InPatch
  <1>1. req[q].who = req[r].who
    BY PatchBegins
  <1>2. CASE InPatch(q) /\ InPatch(r)
    BY <1>1, <1>2 DEF OnePatch
  <1>3. ASSUME NEW a \in Request, NEW b \in Request, PatchLock(a), InPatch(b),
               req[a].who = req[b].who
        PROVE  FALSE
    BY <1>3 DEF PatchLock, InPatch, Locked, At, Who
  <1>4. ASSUME PatchLock(q), PatchLock(r) PROVE q = r
    BY <1>4 DEF PatchLock, At, IInv, TypeOK
  <1> QED BY <1>1, <1>2, <1>3, <1>4, PatchBegins

(* A commit of a PATCH finds the settings it has read still in the table. *)
LEMMA OnlyCommit ==
    ASSUME IInv, OnePatch, NEW r \in Request, InPatch(r), req'[r] # None,
           NEW s \in Request, PatchCommit(s)
    PROVE  Who(s) # req[r].who
  <1> SUFFICES ASSUME Who(s) = req[r].who PROVE FALSE
    OBVIOUS
  <1>1. s = r
    BY DEF PatchCommit, At, OnePatch, InPatch, Who
  <1> QED BY <1>1 DEF PatchCommit, Leave, IInv, TypeOK

LEMMA ReadIsStoredStep ==
    IInv /\ OnePatch /\ ReadIsStored /\ [Next]_vars => ReadIsStored'
  <1> SUFFICES ASSUME IInv, OnePatch, ReadIsStored, [Next]_vars,
                      NEW r \in Request, req'[r] # None, req'[r].pc = "commit"
               PROVE  req'[r].row = IF settings'[req'[r].who] = None
                                    THEN Default ELSE settings'[req'[r].who]
    BY DEF ReadIsStored, Stored
  <1>1. req[r] # None /\ req'[r].who = req[r].who
    BY PatchBegins
  <1>2. req[r] \in Handling /\ req[r].who \in User
    BY <1>1, InFlight DEF IInv, Who
  <1>3. ~PatchLock(r)
    BY <1>2 DEF PatchLock, Handling, IInv, TypeOK
  <1>4. CASE InPatch(r) /\ req'[r] = req[r]
    <2>1. req[r].row = Stored(req[r].who)
      BY <1>4 DEF ReadIsStored
    <2>2. \A s \in Request : PatchCommit(s) => Who(s) # req[r].who
      BY <1>4, OnlyCommit
    <2> QED BY <1>2, <1>4, <2>1, <2>2, StoredChanges
  <1>5. CASE PatchSettings(r)
    <2>1. [req[r] EXCEPT !.pc = "commit", !.row = Stored(req[r].who)].row
             = Stored(req[r].who)
      BY <1>2 DEF Handling
    <2>2. req'[r] = [req[r] EXCEPT !.pc = "commit", !.row = Stored(req[r].who)]
      BY <1>5 DEF PatchSettings, Stored, Who, IInv, TypeOK
    <2> QED BY <1>1, <1>5, <2>1, <2>2 DEF PatchSettings, Stored
  <1> QED BY <1>3, <1>4, <1>5, PatchBegins

LEMMA StoredIsChosenStep ==
    IInv /\ ChoiceInv /\ [Next]_vars => StoredIsChosen'
  <1> SUFFICES ASSUME IInv, ChoiceInv, [Next]_vars, NEW u \in User
               PROVE  (IF settings'[u] = None THEN Default ELSE settings'[u])
                        = chosen'[u]
    BY DEF StoredIsChosen, Stored
  <1>1. CASE \A s \in Request : PatchCommit(s) => Who(s) # u
    BY <1>1, StoredChanges DEF ChoiceInv, StoredIsChosen
  <1>2. ASSUME NEW s \in Request, PatchCommit(s), Who(s) = u
        PROVE  settings'[u] = chosen'[u] /\ settings'[u] # None
    <2>1. req[s].row = chosen[u]
      BY <1>2 DEF PatchCommit, At, Who, ChoiceInv, ReadIsStored, StoredIsChosen
    <2>2. /\ settings'[u] = Apply(req[s].row, req[s].change)
          /\ chosen'[u] = Apply(chosen[u], req[s].change)
      BY <1>2 DEF PatchCommit, IInv, TypeOK
    <2>3. settings'[u] # None
      BY <2>2, ApplyType, Rows
    <2> QED BY <2>1, <2>2, <2>3
  <1> QED BY <1>1, <1>2

(* The settings of an account are the defaults changed by every PATCH that   *)
(* was committed, for any number of requests that overlap.                   *)
THEOREM ChoicesAreKept == Spec => []ChoicesKept
  <1>1. Init => ChoiceInv
    BY DEF Init, ChoiceInv, StoredIsChosen, Stored, OnePatch, InPatch, ReadIsStored
  <1>2. IInv /\ ChoiceInv /\ [Next]_vars => ChoiceInv'
    BY OnePatchStep, ReadIsStoredStep, StoredIsChosenStep DEF ChoiceInv
  <1>3. ChoiceInv => ChoicesKept
    BY DEF ChoiceInv, StoredIsChosen, Stored, ChoicesKept
  <1> QED BY <1>1, <1>2, <1>3, Inductive, PTL DEF Spec

-----------------------------------------------------------------------------
(* A deactivation that no request can undo is final. *)

LEMMA ClosedRow ==
    ASSUME IInv, [Next]_vars, NEW u \in User, Closed(u)
    PROVE  user'[u] = "inactive"
  <1> USE DEF IInv, Closed
  <1>1. ASSUME NEW r \in Request, req[r] # None, Who(r) = u
        PROVE  req[r].obj = "inactive"
    BY <1>1, InFlight
  <1>2. ASSUME NEW r \in Request, req[r] # None, SaveUser(r)
        PROVE  user'[u] = "inactive"
    BY <1>1, <1>2 DEF SaveUser, TypeOK
  <1>3. ASSUME NEW r \in Request, Step(r) PROVE user'[u] = "inactive"
    <2>1. CASE UNCHANGED user
      BY <2>1
    <2>2. CASE RegisterUser(r)
      BY <2>2 DEF RegisterUser, Exists, TypeOK
    <2>3. CASE GitHubSave(r) \/ PatchUser(r) \/ DeactivateSave(r)
      BY <2>3, <1>2 DEF GitHubSave, PatchUser, DeactivateSave, At
    <2>4. CASE PatchCommit(r)
      BY <2>4, <1>1 DEF PatchCommit, At, TypeOK
    <2> QED BY <1>3, <2>1, <2>2, <2>3, <2>4
            DEF Step, RegisterSettings, GitHubSettings, Issue, ProfileGet,
                PatchLock, PatchSettings, AskSettings
  <1>4. ASSUME NEW r \in Request, NEW v \in User, GitHubUser(r, v)
        PROVE  user'[u] = "inactive"
    BY <1>4 DEF GitHubUser, Obtained, Exists, TypeOK
  <1> QED BY <1>3, <1>4
          DEF Next, Die, Expire, vars, Begin, RegisterBegin, LoginBegin,
              ProfileBegin, DeactivateBegin, AskBegin

(* No request gets hold of an active copy of a closed account. *)
LEMMA ClosedCopies ==
    ASSUME IInv, [Next]_vars, NEW u \in User, Closed(u),
           NEW q \in Request, req'[q] # None, req'[q].who = u
    PROVE  req'[q].obj # "active"
  <1> USE DEF IInv, Closed
  <1> DEFINE Same == req[q] # None /\ req'[q].who = Who(q) /\ req'[q].obj = req[q].obj
  <1>1. Same \/ req'[q] = req[q] => req'[q].obj # "active"
    BY DEF Who
  <1>2. ASSUME NEW r \in Request, Step(r) PROVE req'[q].obj # "active"
    <2>1. ASSUME NEW pc, req[r] # None, GoTo(r, pc) PROVE Same \/ req'[q] = req[q]
      BY <2>1 DEF GoTo, Who, TypeOK
    <2>2. ASSUME Leave(r) PROVE req'[q] = req[q]
      BY <2>2 DEF Leave, TypeOK
    <2>3. CASE PatchLock(r) \/ PatchSettings(r)
      <3>1. q # r => req'[q] = req[q]
        BY <2>3 DEF PatchLock, PatchSettings, TypeOK
      <3>2. req[r] \in Handling
        BY <2>3, InFlight DEF PatchLock, PatchSettings, At
      <3>3. ASSUME PatchLock(r), q = r PROVE Same
        BY <3>2, <3>3 DEF PatchLock, At, Who, Handling, TypeOK
      <3>4. ASSUME PatchSettings(r), q = r PROVE Same
        BY <3>2, <3>4 DEF PatchSettings, At, Who, Handling, TypeOK
      <3> QED BY <1>1, <2>3, <3>1, <3>3, <3>4
    <2>4. CASE ProfileGet(r)
      <3>1. CASE q = r
        <4>1. req[r] \in Handling
          BY <2>4, InFlight DEF ProfileGet, At
        <4>2. req'[q] = [req[r] EXCEPT !.pc = "update", !.obj = user[Who(r)]]
          BY <2>4, <3>1 DEF ProfileGet, TypeOK
        <4>3. req'[q].who = Who(r) /\ req'[q].obj = user[Who(r)]
          BY <4>1, <4>2 DEF Handling, Who
        <4> QED BY <4>3
      <3>2. CASE q # r
        BY <2>4, <3>2, <1>1 DEF ProfileGet, TypeOK
      <3> QED BY <3>1, <3>2
    <2> QED BY <1>1, <1>2, <2>1, <2>2, <2>3, <2>4
            DEF Step, RegisterUser, RegisterSettings, GitHubSave, GitHubSettings,
                Issue, PatchUser, PatchCommit, DeactivateSave, AskSettings, At
  <1>3. ASSUME NEW r \in Request, NEW v \in User, Begin(r, v)
        PROVE  req'[q].obj # "active"
    <2>1. CASE q # r
      <3>1. req'[q] = req[q]
        BY <1>3, <2>1
        DEF Begin, Enter, RegisterBegin, GitHubUser, LoginBegin, ProfileBegin,
            DeactivateBegin, AskBegin, TypeOK
      <3> QED BY <1>1, <3>1
    <2>2. CASE q = r
      <3>1. v = u
        BY <1>3, <2>2
        DEF Begin, Enter, RegisterBegin, GitHubUser, LoginBegin, ProfileBegin,
            DeactivateBegin, AskBegin, TypeOK
      <3>2. ~RegisterBegin(r, v) /\ ~ProfileBegin(r, v)
        BY <3>1 DEF RegisterBegin, ProfileBegin, Authenticated, Exists
      <3>3. CASE GitHubUser(r, v)
        BY <2>2, <3>1, <3>3 DEF GitHubUser, Obtained, Exists, Enter, TypeOK
      <3>4. CASE LoginBegin(r, v) \/ AskBegin(r, v) \/ DeactivateBegin(r, v)
        BY <2>2, <3>1, <3>4 DEF LoginBegin, AskBegin, DeactivateBegin, Enter, TypeOK
      <3> QED BY <1>3, <3>2, <3>3, <3>4 DEF Begin
    <2> QED BY <2>1, <2>2
  <1>4. ASSUME NEW r \in Request, Die(r) PROVE req'[q].obj # "active"
    BY <1>1, <1>4 DEF Die, Leave, TypeOK
  <1>5. CASE UNCHANGED req
    BY <1>1, <1>5
  <1> QED BY <1>2, <1>3, <1>4, <1>5 DEF Next, Expire, vars

LEMMA ClosedTokens ==
    ASSUME IInv, [Next]_vars, NEW u \in User, Closed(u)
    PROVE  session'[u] \subseteq session[u]
  <1>1. ASSUME NEW r \in Request, Issue(r) PROVE session'[u] \subseteq session[u]
    <2>1. CASE Who(r) = u
      <3>1. ~MayLogin(req[r].obj)
        BY <1>1, <2>1 DEF Issue, At, Closed, MayLogin
      <3> QED BY <1>1, <2>1, <3>1 DEF Issue, IInv, TypeOK
    <2>2. CASE Who(r) # u
      BY <1>1, <2>2 DEF Issue, IInv, TypeOK
    <2> QED BY <2>1, <2>2
  <1>2. ASSUME NEW v \in User, NEW t \in Token, Expire(v, t)
        PROVE  session'[u] \subseteq session[u]
    BY <1>2 DEF Expire, IInv, TypeOK
  <1>3. CASE UNCHANGED session
    BY <1>3
  <1> QED BY <1>1, <1>2, <1>3
          DEF Next, Step, Begin, vars, RegisterBegin, RegisterUser,
              RegisterSettings, GitHubUser, GitHubSave, GitHubSettings,
              LoginBegin, ProfileBegin, ProfileGet, PatchUser, PatchLock,
              PatchSettings, PatchCommit, DeactivateBegin, DeactivateSave,
              AskBegin, AskSettings, Die

(* Once an account is deactivated and nobody holds an older copy of it, no    *)
(* step of any request makes it active again or gives it another token.       *)
THEOREM DeactivationIsFinal == Spec => ClosedForGood
  <1>1. IInv /\ [Next]_vars =>
          [\A u \in User :
             Closed(u) => Closed(u)' /\ session'[u] \subseteq session[u]]_vars
    <2> SUFFICES ASSUME IInv, [Next]_vars, NEW u \in User, Closed(u)
                 PROVE  Closed(u)' /\ session'[u] \subseteq session[u]
      OBVIOUS
    <2>1. user'[u] = "inactive"
      BY ClosedRow
    <2>2. \A q \in Request :
            req'[q] # None /\ req'[q].who = u => req'[q].obj # "active"
      BY ClosedCopies
    <2> QED BY <2>1, <2>2, ClosedTokens DEF Closed, Who
  <1> QED BY <1>1, Inductive, PTL DEF Spec, ClosedForGood
=============================================================================
