------------------------------ MODULE Accounts ------------------------------
(***************************************************************************)
(* Users and their tokens: UsersService.create and update, AuthService's   *)
(* login and refresh, and the guards in front of the user endpoints.       *)
(*                                                                         *)
(* create looks for the email, inserts the user and, for a DRIVER, inserts *)
(* the driver row; update loads the user, looks for the new email and      *)
(* saves the columns that the body names and that differ: no two of these  *)
(* statements are one transaction.                                         *)
(* A token carries the role its user had at login.  Nobody looks at the    *)
(* user again, neither the guards nor refresh: the role and the access     *)
(* last as long as the tokens do, and a socket, whose token is looked at   *)
(* when it connects and never again, as long as its connection.            *)
(***************************************************************************)
EXTENDS FleetTypes, Naturals

CONSTANTS
    Account,        \* identifiers the users table can hand out
    Seed,           \* the account of the seed script
    Email,
    SeedEmail,
    NewRoles,       \* roles the office creates users with
    Patches,        \* bodies of PATCH /users/:id the office sends
    AdminCall,      \* requests to the user endpoints being handled at once
    Session         \* logins whose tokens can be about at once

UserRole == {"SUPER_ADMIN", "FLEET_MANAGER", "DRIVER"}

\* The body of an update: Null where it says nothing.
Patch == [email: Email \union {Null}, role: UserRole \union {Null},
          active: {"on", "off", Null}]

ASSUME AccountsAssumption ==
    /\ Seed \in Account /\ SeedEmail \in Email
    /\ NewRoles \subseteq UserRole /\ Patches \subseteq Patch
    /\ Null \notin Account \union Email \union UserRole \union {"on", "off"}

VARIABLES
    users,      \* users[u]: the row of account u
    profiles,   \* accounts with a row in drivers
    call,       \* call[r]: a request to the user endpoints
    session,    \* session[k]: the tokens of a login, and its socket
    unprofiled  \* history: DRIVER accounts whose driver row was lost or never asked for

accountVars == <<users, profiles, call, session, unprofiled>>

-----------------------------------------------------------------------------
(* Rows, requests, tokens *)

UserRow == [email: Email, role: UserRole, active: BOOLEAN]

NoUser == [email |-> Null, role |-> Null, active |-> FALSE]

UserColumn == {"email", "role", "active"}

\* user is the account a request is about, entity the row it will insert, patch what
\* it was asked to change, columns what save() will write.
AdminJob == [pc: {"idle", "insertUser", "insertDriver", "checkEmail", "selectUser", "updateUser"},
             user: Account \union {Null}, entity: UserRow \union {NoUser},
             patch: Patch, columns: SUBSET UserColumn]

NoPatch == [email |-> Null, role |-> Null, active |-> Null]

NoAdminJob == [pc |-> "idle", user |-> Null, entity |-> NoUser, patch |-> NoPatch, columns |-> {}]

\* A login being handled, and then its two tokens: access and renew say whether the
\* access token and the refresh token are still accepted.  socket is a connection to
\* the gateway, opened with an access token of that login.
Tokens == [user: Account \union {Null}, role: UserRole \union {Null}, signing: BOOLEAN,
           access: BOOLEAN, renew: BOOLEAN, socket: BOOLEAN]

NoTokens == [user |-> Null, role |-> Null, signing |-> FALSE, access |-> FALSE, renew |-> FALSE,
             socket |-> FALSE]

\* A login leaves nothing when its tokens have expired and its socket is closed.
Left(tokens) ==
    IF tokens.access \/ tokens.renew \/ tokens.socket THEN tokens ELSE NoTokens

Exist == {u \in Account : users[u] # NoUser}

Taken(email) == \E u \in Exist : users[u].email = email

AccountsTypeOK ==
    /\ users \in [Account -> UserRow \union {NoUser}]
    /\ profiles \subseteq Account
    /\ call \in [AdminCall -> AdminJob]
    /\ session \in [Session -> Tokens]
    /\ unprofiled \subseteq Account

AccountsInit ==
    /\ users = [u \in Account |-> IF u = Seed
            THEN [email |-> SeedEmail, role |-> "SUPER_ADMIN", active |-> TRUE] ELSE NoUser]
    /\ profiles = {}
    /\ call = [r \in AdminCall |-> NoAdminJob]
    /\ session = [k \in Session |-> NoTokens]
    /\ unprofiled = {}

-----------------------------------------------------------------------------
(* AuthService *)

\* The account is found by its email, is active, and the password is right.  The hash
\* is compared, the login audited and a driver looked up before the tokens are signed.
Login(k, u) ==
    /\ session[k] = NoTokens
    /\ u \in Exist /\ users[u].active
    /\ session' = [session EXCEPT ![k] = [user |-> u, role |-> users[u].role, signing |-> TRUE,
                            access |-> FALSE, renew |-> FALSE, socket |-> FALSE]]
    /\ UNCHANGED <<users, profiles, call, unprofiled>>

SignTokenPair(k) ==
    /\ session[k].signing
    /\ session' = [session EXCEPT ![k].signing = FALSE, ![k].access = TRUE, ![k].renew = TRUE]
    /\ UNCHANGED <<users, profiles, call, unprofiled>>

\* The audit row cannot be saved.
LoginDies(k) ==
    /\ session[k].signing
    /\ session' = [session EXCEPT ![k] = NoTokens]
    /\ UNCHANGED <<users, profiles, call, unprofiled>>

\* Mutant: a refresh signs a new pair of tokens.
RefreshReissues(k) ==
    /\ session[k].renew
    /\ session' = [session EXCEPT ![k] = [@ EXCEPT !.signing = TRUE, !.access = FALSE, !.renew = FALSE]]
    /\ UNCHANGED <<users, profiles, call, unprofiled>>

\* POST /auth/refresh: a new access token, with the role of the old one.
RefreshToken(k) ==
    /\ session[k].renew
    /\ session' = [session EXCEPT ![k].access = TRUE]
    /\ UNCHANGED <<users, profiles, call, unprofiled>>

AccessExpires(k) ==
    /\ session[k].access
    /\ session' = [session EXCEPT ![k] = Left([@ EXCEPT !.access = FALSE])]
    /\ UNCHANGED <<users, profiles, call, unprofiled>>

RefreshExpires(k) ==
    /\ session[k].renew
    /\ session' = [session EXCEPT ![k] = Left([@ EXCEPT !.renew = FALSE])]
    /\ UNCHANGED <<users, profiles, call, unprofiled>>

\* The gateway verifies the access token of a connection; it looks up no user, and
\* verifies nothing later.
OpenSocket(k) ==
    /\ session[k].access
    /\ session' = [session EXCEPT ![k].socket = TRUE]
    /\ UNCHANGED <<users, profiles, call, unprofiled>>

CloseSocket(k) ==
    /\ session[k].socket
    /\ session' = [session EXCEPT ![k] = Left([@ EXCEPT !.socket = FALSE])]
    /\ UNCHANGED <<users, profiles, call, unprofiled>>

-----------------------------------------------------------------------------
(* The user endpoints: RolesGuard lets either office role in *)

Admitted(k) == session[k].access /\ session[k].role \in {"SUPER_ADMIN", "FLEET_MANAGER"}

Ends(r) == call' = [call EXCEPT ![r] = NoAdminJob]

\* POST /users: the email is looked for, then the password is hashed.
CreateUser(r, k, email, role) ==
    /\ call[r] = NoAdminJob
    /\ Admitted(k)
    /\ ~Taken(email)
    /\ call' = [call EXCEPT ![r].pc = "insertUser",
                            ![r].entity = [email |-> email, role |-> role, active |-> TRUE]]
    /\ UNCHANGED <<users, profiles, session, unprofiled>>

\* Mutant: only the office's own roles get a second row.
InsertUserOnly(r, u) ==
    /\ call[r].pc = "insertUser"
    /\ ~Taken(call[r].entity.email)
    /\ u \notin Exist
    /\ users' = [users EXCEPT ![u] = call[r].entity]
    /\ IF call[r].entity.role = "DRIVER"
       THEN Ends(r)
       ELSE call' = [call EXCEPT ![r].pc = "insertDriver", ![r].user = u]
    /\ UNCHANGED <<profiles, session, unprofiled>>

InsertUser(r, u) ==
    /\ call[r].pc = "insertUser"
    /\ ~Taken(call[r].entity.email)
    /\ u \notin Exist
    /\ users' = [users EXCEPT ![u] = call[r].entity]
    /\ IF call[r].entity.role = "DRIVER"
       THEN call' = [call EXCEPT ![r].pc = "insertDriver", ![r].user = u]
       ELSE Ends(r)
    /\ UNCHANGED <<profiles, session, unprofiled>>

InsertProfile(r) ==
    /\ call[r].pc = "insertDriver"
    /\ profiles' = profiles \union {call[r].user}
    /\ Ends(r)
    /\ UNCHANGED <<users, session, unprofiled>>

\* Mutant: an update that does not say so sets the account active.
PatchedActive(row, patch) ==
    [email |-> IF patch.email = Null THEN row.email ELSE patch.email,
     role |-> IF patch.role = Null THEN row.role ELSE patch.role,
     active |-> patch.active # "off"]

\* Mutant: what the update does not say is assigned as well.
PatchedWhole(row, patch) ==
    [email |-> patch.email, role |-> patch.role, active |-> patch.active = "on"]

\* Object.assign(user, updateUserDto), as save() sees it: what the body does not name is
\* undefined in the DTO, and an undefined column is left alone.
Patched(row, patch) ==
    [email |-> IF patch.email = Null THEN row.email ELSE patch.email,
     role |-> IF patch.role = Null THEN row.role ELSE patch.role,
     active |-> IF patch.active = Null THEN row.active ELSE patch.active = "on"]

\* PATCH /users/:id: the user is loaded.  A new email is looked for next.
UpdateUser(r, k, u, patch) ==
    /\ call[r] = NoAdminJob
    /\ Admitted(k)
    /\ u \in Exist
    /\ call' = [call EXCEPT ![r] =
            [pc |-> IF patch.email \in {Null, users[u].email} THEN "selectUser" ELSE "checkEmail",
             user |-> u, entity |-> NoUser, patch |-> patch, columns |-> {}]]
    /\ UNCHANGED <<users, profiles, session, unprofiled>>

\* The email is looked for; if it is found the request ends in 409.
CheckEmail(r) ==
    /\ call[r].pc = "checkEmail"
    /\ IF Taken(call[r].patch.email) THEN Ends(r)
       ELSE call' = [call EXCEPT ![r].pc = "selectUser"]
    /\ UNCHANGED <<users, profiles, session, unprofiled>>

\* save() selects the row and keeps the columns that differ ...
SelectUser(r) ==
    /\ call[r].pc = "selectUser"
    /\ LET row == users[call[r].user]
       IN  call' = [call EXCEPT ![r].pc = "updateUser",
                ![r].columns = {c \in UserColumn : Patched(row, call[r].patch)[c] # row[c]}]
    /\ UNCHANGED <<users, profiles, session, unprofiled>>

Saved(row, entity, columns) ==
    [email |-> IF "email" \in columns THEN entity.email ELSE row.email,
     role |-> IF "role" \in columns THEN entity.role ELSE row.role,
     active |-> IF "active" \in columns THEN entity.active ELSE row.active]

\* Mutant: the column has no unique constraint.
NoClash(r) == TRUE

\* The unique constraint of the column lets the email through.
EmailFree(r) ==
    "email" \in call[r].columns =>
        \A u \in Exist \ {call[r].user} : users[u].email # call[r].patch.email

\* ... and updates those.
UpdateRow(r) ==
    /\ call[r].pc = "updateUser"
    /\ EmailFree(r)
    /\ LET u == call[r].user
           row == Saved(users[u], Patched(users[u], call[r].patch), call[r].columns)
       IN  /\ users' = [users EXCEPT ![u] = row]
           /\ unprofiled' = IF row.role = "DRIVER" /\ users[u].role # "DRIVER" /\ u \notin profiles
                            THEN unprofiled \union {u} ELSE unprofiled
    /\ Ends(r)
    /\ UNCHANGED <<profiles, session>>

\* A statement fails (a violated constraint among the reasons), or the process stops.
CallDies(r) ==
    /\ call[r] # NoAdminJob
    /\ Ends(r)
    /\ unprofiled' = IF call[r].pc = "insertDriver" THEN unprofiled \union {call[r].user}
                     ELSE unprofiled
    /\ UNCHANGED <<users, profiles, session>>

-----------------------------------------------------------------------------

AdminStep(r) ==
    \/ \E u \in Account : InsertUser(r, u)
    \/ InsertProfile(r) \/ CheckEmail(r) \/ SelectUser(r) \/ UpdateRow(r)

AdminReceive(r, k) ==
    \/ \E email \in Email, role \in NewRoles : CreateUser(r, k, email, role)
    \/ \E u \in Account, patch \in Patches : UpdateUser(r, k, u, patch)

AccountsNext ==
    \/ \E k \in Session :
        \/ \E u \in Account : Login(k, u)
        \/ SignTokenPair(k) \/ LoginDies(k)
        \/ RefreshToken(k) \/ AccessExpires(k) \/ RefreshExpires(k)
        \/ OpenSocket(k) \/ CloseSocket(k)
    \/ \E r \in AdminCall : AdminStep(r) \/ CallDies(r) \/ \E k \in Session : AdminReceive(r, k)

AccountsSpec == AccountsInit /\ [][AccountsNext]_accountVars

\* No two accounts share an email: create and update look for it long before they
\* write (a bcrypt hash lies between), so it is the column's constraint that decides
\* between two requests for one email.
EmailUnique ==
    \A u, v \in Exist : users[u].email = users[v].email => u = v

\* An account with role DRIVER has its driver row, without which it can do nothing but
\* log in, unless its creation is at work on it, was cut off between the two inserts,
\* or the role was given by an update, which inserts no driver.
ProfileComplete ==
    \A u \in Exist \ (profiles \union unprofiled) :
        users[u].role = "DRIVER" =>
            \E r \in AdminCall : call[r].pc = "insertDriver" /\ call[r].user = u

\* An account the office has deactivated becomes active again only by an update that
\* asks for it.  An update that began while the account was still active, and is after
\* another column, saves the entity it loaded back then: it must not bring the old
\* value along, whatever other updates go on at once.
DeactivationSticks ==
    [][\A u \in Exist :
        ~users[u].active /\ users'[u].active =>
            \E r \in AdminCall : call[r].pc = "updateUser" /\ call[r].user = u
                                    /\ call[r].patch.active = "on"]_accountVars

\* The login of k can still call the API, or will be able to.
Accepted(k) == session[k].signing \/ session[k].access \/ session[k].renew

\* The API locks an account out in the end if it stays deactivated: tokens signed before,
\* or by a login under way at that moment, expire, and refresh, which does not look at
\* the user, gives out nothing that can be refreshed in its turn.  A socket opened before
\* may go on for as long as its connection does.
LockOut ==
    \A u \in Account :
        <>[](users[u] # NoUser /\ ~users[u].active) =>
            <>[](\A k \in Session : session[k].user = u => ~Accepted(k))

\* Tokens expire, and a login under way is answered or fails.
AccountsFairness ==
    \A k \in Session :
        /\ WF_accountVars(AccessExpires(k))
        /\ WF_accountVars(RefreshExpires(k))
        /\ WF_accountVars(SignTokenPair(k) \/ LoginDies(k))

=============================================================================
