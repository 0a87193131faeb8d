------------------------------ MODULE Accounts ------------------------------
(***************************************************************************)
(* user_support: accounts, their notification settings, and the tokens     *)
(* they hold.  An account is made in two transactions (the user, then its  *)
(* settings) by registration or by the first GitHub login; the gRPC read   *)
(* of the incidents service makes missing settings too.  A profile PATCH   *)
(* is one transaction, but writes back a user it read before.              *)
(*                                                                         *)
(* Each request is handled by a thread of its own.  What two of them do to *)
(* one row follows PostgreSQL at READ COMMITTED: a row that a transaction  *)
(* has updated stays locked, and a key it has inserted stays reserved,     *)
(* until it commits; nobody sees its writes before.                        *)
(***************************************************************************)
EXTENDS Integers, FiniteSets

CONSTANTS
    User,       \* usernames (unique in the table; no row is ever deleted)
    Request,    \* the requests that can be in flight at once
    Channel,    \* channels a user may switch on or off
    Default,    \* the channels that new settings switch on
    MaxDeaths,  \* how many threads may be killed half way (bound)
    None        \* no row, no request

ASSUME AccountsAssumption ==
    /\ Default \subseteq Channel
    /\ MaxDeaths \in Nat
    /\ \A row \in SUBSET Channel : row # None

VARIABLES
    user,      \* the user table: is there a row, and is it active
    settings,  \* the settings table: the channels switched on, or None
    session,   \* the unexpired tokens a user holds
    req,       \* what each request is doing, with the objects it has read
    chosen,    \* auxiliary: the settings the committed PATCHes add up to
    deaths     \* threads killed so far

vars == <<user, settings, session, req, chosen, deaths>>

-----------------------------------------------------------------------------
(* Data *)

State == {"absent", "active", "inactive"}

Token == {"access", "refresh"}

(* A PATCH names some channels, each on or off. *)
Change == UNION {[D -> BOOLEAN] : D \in SUBSET Channel}
NoChange == [c \in {} |-> TRUE]

Apply(row, change) ==
    {c \in Channel : IF c \in DOMAIN change THEN change[c] ELSE c \in row}

Pc == {"create", "settings",                    \* register
       "save", "defaults", "issue",             \* GitHub, and any login
       "renew",                                 \* token refresh
       "get", "update", "locked", "commit",     \* profile PATCH
       "deactivate",
       "ask"}                                   \* gRPC

Handling == [pc : Pc, who : User, obj : State \ {"absent"}, row : SUBSET Channel,
             change : Change]

ASSUME NoRequestAssumption == None \notin Handling

At(r, pc) == req[r] # None /\ req[r].pc = pc
Who(r) == req[r].who

(* A free thread takes a request: of the web server, or of the pool that      *)
(* grpc_server.serve() starts.                                               *)
Enter(r, u, pc, obj) ==
    /\ req[r] = None
    /\ req' = [req EXCEPT ![r] = [pc |-> pc, who |-> u, obj |-> obj,
                                  row |-> {}, change |-> NoChange]]
GoTo(r, pc) == req' = [req EXCEPT ![r].pc = pc]
Leave(r) == req' = [req EXCEPT ![r] = None]

(* Mutant: the settings are saved before the user, so nothing waits. *)
Locked_never(u) == FALSE

(* A PATCH has updated the user row and not committed yet. *)
Locked(u) == \E r \in Request : (At(r, "locked") \/ At(r, "commit")) /\ Who(r) = u

(* A PATCH has inserted the user's settings and not committed yet. *)
Reserved(u) ==
    settings[u] = None /\ \E r \in Request : At(r, "commit") /\ Who(r) = u

(* Mutant: a name or id nobody looks up. *)
Exists_always(u) == u \in User

Exists(u) == user[u] # "absent"

(* Mutant: the account is updated or created, with the defaults of a new one. *)
Obtained_updated(u) == "active"

(* get_or_create(username): the account as it is, or a new one. *)
Obtained(u) == IF Exists(u) THEN user[u] ELSE "active"

(* Mutant: a new account is treated like one that was found. *)
AfterGetOrCreate_found(u) == "issue"

(* A new account is saved again and gets settings before tokens. *)
AfterGetOrCreate(u) == IF Exists(u) THEN "issue" ELSE "save"

(* Mutant: is_active is not looked at. *)
MayLogin_always(obj) == TRUE

(* What every login asks of the account it has read. *)
MayLogin(obj) == obj = "active"

(* User.save() writes every column, is_active among them. *)
SaveUser(r) ==
    /\ ~Locked(Who(r))
    /\ user' = [user EXCEPT ![Who(r)] = req[r].obj]

(* UserSettings.objects.create: the key is unique. *)
CreateSettings(u) ==
    /\ settings[u] = None
    /\ ~Reserved(u)
    /\ settings' = [settings EXCEPT ![u] = Default]

-----------------------------------------------------------------------------
Init ==
    /\ user = [u \in User |-> "absent"]
    /\ settings = [u \in User |-> None]
    /\ session = [u \in User |-> {}]
    /\ req = [r \in Request |-> None]
    /\ chosen = [u \in User |-> Default]
    /\ deaths = 0

(* RegisterUserView: the serializer finds the name free. *)
RegisterBegin(r, u) ==
    /\ ~Exists(u)
    /\ Enter(r, u, "create", "active")
    /\ UNCHANGED <<user, settings, session, chosen, deaths>>

(* create_user: a name that was taken meanwhile is an error 500. *)
RegisterUser(r) ==
    /\ At(r, "create")
    /\ IF Exists(Who(r))
       THEN UNCHANGED user /\ Leave(r)
       ELSE user' = [user EXCEPT ![Who(r)] = "active"] /\ GoTo(r, "settings")
    /\ UNCHANGED <<settings, session, chosen, deaths>>

(* The second transaction; settings somebody else made are an error 500. *)
RegisterSettings(r) ==
    /\ At(r, "settings")
    /\ \/ CreateSettings(Who(r))
       \/ settings[Who(r)] # None /\ UNCHANGED settings
    /\ Leave(r)
    /\ UNCHANGED <<user, session, chosen, deaths>>

(* GitHubLoginView up to get_or_create.  A code or a profile that GitHub     *)
(* refuses ends the request before it changes anything.                      *)
GitHubUser(r, u) ==
    /\ user' = [user EXCEPT ![u] = Obtained(u)]
    /\ Enter(r, u, AfterGetOrCreate(u), Obtained(u))
    /\ UNCHANGED <<settings, session, chosen, deaths>>

(* set_unusable_password and save, of the object that was created. *)
GitHubSave(r) ==
    /\ At(r, "save")
    /\ SaveUser(r)
    /\ GoTo(r, "defaults")
    /\ UNCHANGED <<settings, session, chosen, deaths>>

GitHubSettings(r) ==
    /\ At(r, "defaults")
    /\ \/ CreateSettings(Who(r)) /\ GoTo(r, "issue")
       \/ settings[Who(r)] # None /\ UNCHANGED settings /\ Leave(r)
    /\ UNCHANGED <<user, session, chosen, deaths>>

(* TokenObtainPairView and TokenRefreshView read the account ... *)
LoginBegin(r, u) ==
    /\ Exists(u)
    /\ \/ Enter(r, u, "issue", user[u])
       \/ "refresh" \in session[u] /\ Enter(r, u, "renew", user[u])
    /\ UNCHANGED <<user, settings, session, chosen, deaths>>

(* ... and every login issues tokens for the object it has read, if active. *)
Issue(r) ==
    /\ At(r, "issue") \/ At(r, "renew")
    /\ session' = [session EXCEPT ![Who(r)] =
          IF ~MayLogin(req[r].obj) THEN @
          ELSE @ \cup (IF req[r].pc = "renew" THEN {"access"} ELSE Token)]
    /\ Leave(r)
    /\ UNCHANGED <<user, settings, chosen, deaths>>

(* ACCESS_TOKEN_LIFETIME and REFRESH_TOKEN_LIFETIME; nothing is blacklisted. *)
Expire(u, t) ==
    /\ t \in session[u]
    /\ session' = [session EXCEPT ![u] = @ \ {t}]
    /\ UNCHANGED <<user, settings, req, chosen, deaths>>

(* JWTAuthentication: here a token only counts while the account is active. *)
Authenticated(u) == "access" \in session[u] /\ user[u] = "active"

ProfileBegin(r, u) ==
    /\ Authenticated(u)
    /\ Enter(r, u, "get", "active")
    /\ UNCHANGED <<user, settings, session, chosen, deaths>>

(* ProfileView.get_object *)
ProfileGet(r) ==
    /\ At(r, "get")
    /\ req' = [req EXCEPT ![r].pc = "update", ![r].obj = user[Who(r)]]
    /\ UNCHANGED <<user, settings, session, chosen, deaths>>

(* A PATCH without settings is one save of the whole user. *)
PatchUser(r) ==
    /\ At(r, "update")
    /\ SaveUser(r)
    /\ Leave(r)
    /\ UNCHANGED <<settings, session, chosen, deaths>>

(* A PATCH with settings saves the user, and keeps its row locked. *)
PatchLock(r) ==
    /\ At(r, "update")
    /\ ~Locked(Who(r))
    /\ \E change \in Change :
          req' = [req EXCEPT ![r].pc = "locked", ![r].change = change]
    /\ UNCHANGED <<user, settings, session, chosen, deaths>>

(* get_or_create of the settings, in the same transaction. *)
PatchSettings(r) ==
    LET s == settings[Who(r)] IN
    /\ At(r, "locked")
    /\ req' = [req EXCEPT ![r].pc = "commit",
                          ![r].row = IF s = None THEN Default ELSE s]
    /\ UNCHANGED <<user, settings, session, chosen, deaths>>

(* setattr for each channel the PATCH names, save, commit. *)
PatchCommit(r) ==
    LET u == Who(r) IN
    /\ At(r, "commit")
    /\ user' = [user EXCEPT ![u] = req[r].obj]
    /\ settings' = [settings EXCEPT ![u] = Apply(req[r].row, req[r].change)]
    /\ chosen' = [chosen EXCEPT ![u] = Apply(@, req[r].change)]
    /\ Leave(r)
    /\ UNCHANGED <<session, deaths>>

DeactivateBegin(r, u) ==
    /\ Authenticated(u)
    /\ Enter(r, u, "deactivate", "inactive")
    /\ UNCHANGED <<user, settings, session, chosen, deaths>>

DeactivateSave(r) ==
    /\ At(r, "deactivate")
    /\ SaveUser(r)
    /\ Leave(r)
    /\ UNCHANGED <<settings, session, chosen, deaths>>

(* GetUserNotificationSettings: an account that does not exist gets an empty *)
(* reply and changes nothing.                                                *)
AskBegin(r, u) ==
    /\ Exists(u)
    /\ Enter(r, u, "ask", user[u])
    /\ UNCHANGED <<user, settings, session, chosen, deaths>>

AskSettings(r) ==
    /\ At(r, "ask")
    /\ \/ CreateSettings(Who(r))
       \/ settings[Who(r)] # None /\ UNCHANGED settings
    /\ Leave(r)
    /\ UNCHANGED <<user, session, chosen, deaths>>

(* A killed thread; PostgreSQL rolls back what it had not committed. *)
Die(r) ==
    /\ req[r] # None
    /\ deaths < MaxDeaths
    /\ deaths' = deaths + 1
    /\ Leave(r)
    /\ UNCHANGED <<user, settings, session, chosen>>

-----------------------------------------------------------------------------
Begin(r, u) ==
    \/ RegisterBegin(r, u) \/ GitHubUser(r, u) \/ LoginBegin(r, u)
    \/ ProfileBegin(r, u) \/ DeactivateBegin(r, u) \/ AskBegin(r, u)

Step(r) ==
    \/ RegisterUser(r) \/ RegisterSettings(r)
    \/ GitHubSave(r) \/ GitHubSettings(r) \/ Issue(r)
    \/ ProfileGet(r) \/ PatchUser(r)
    \/ PatchLock(r) \/ PatchSettings(r) \/ PatchCommit(r)
    \/ DeactivateSave(r)
    \/ AskSettings(r)

Next ==
    \/ \E r \in Request : Step(r) \/ Die(r) \/ \E u \in User : Begin(r, u)
    \/ \E u \in User, t \in Token : Expire(u, t)

Spec == Init /\ [][Next]_vars

(* Tokens do expire. *)
LiveSpec == Spec /\ \A u \in User, t \in Token : WF_vars(Expire(u, t))

-----------------------------------------------------------------------------
(* The other services (JWTStatelessUserAuthentication): a token that has not *)
(* expired is enough, they never ask user_support.                           *)
MonitorsAccept(u) == "access" \in session[u]
IncidentsAccept(u) == "access" \in session[u]
NotificationsAccept(u) == "access" \in session[u]

-----------------------------------------------------------------------------
(* Properties *)

(* Every variable has its type. *)
TypeOK ==
    /\ user \in [User -> State]
    /\ settings \in [User -> {None} \cup SUBSET Channel]
    /\ session \in [User -> SUBSET Token]
    /\ req \in [Request -> Handling \cup {None}]
    /\ chosen \in [User -> SUBSET Channel]
    /\ deaths \in 0 .. MaxDeaths

(* Somebody has made the account and is about to make its settings. *)
BeingMade(u) ==
    \E r \in Request :
        /\ At(r, "settings") \/ At(r, "save") \/ At(r, "defaults")
        /\ Who(r) = u

(* An account without settings is one that a request is still making: the    *)
(* two transactions of a registration or a GitHub login, and the logins,     *)
(* PATCHes and gRPC reads between them, never leave one behind.  Only a      *)
(* thread killed half way does.                                              *)
HalfMadeOnlyByDeath ==
    \A u \in User :
        (Exists(u) /\ settings[u] = None) => (BeingMade(u) \/ deaths > 0)

(* What users choose is kept.  The settings are the defaults changed by every *)
(* PATCH that was committed: two PATCHes that overlap do not lose a choice,   *)
(* although each saves all the columns, because each saves the user first and *)
(* so waits for the other; and nobody who makes default settings overwrites   *)
(* chosen ones.                                                               *)
ChoicesKept ==
    \A u \in User : settings[u] # None => settings[u] = chosen[u]

(* The account is deactivated, and no request holds a copy read before. *)
Closed(u) ==
    /\ user[u] = "inactive"
    /\ \A r \in Request : req[r] # None /\ Who(r) = u => req[r].obj # "active"

(* A PATCH or a first GitHub login that read the account while it was active  *)
(* writes that back and undoes a deactivation.  Once none is left, nothing    *)
(* does, and no login gets tokens: the deactivation is final.                 *)
ClosedForGood ==
    [][\A u \in User :
         Closed(u) => Closed(u)' /\ session'[u] \subseteq session[u]]_vars

(* A closed account ends up being refused for good by every service: the      *)
(* three that never look at it accept its token until that expires, and no    *)
(* refresh or login gives it another.                                         *)
ClosedIsRefused ==
    \A u \in User :
        Closed(u) ~> [](~MonitorsAccept(u) /\ ~IncidentsAccept(u)
                        /\ ~NotificationsAccept(u) /\ ~Authenticated(u))
=============================================================================
