---------------------------- MODULE OfficeProofs ----------------------------
(***************************************************************************)
(* What holds of the accounts, the live map and the fuel log for any       *)
(* number of accounts, trucks, requests, entries and pages; and that the   *)
(* office as a whole keeps every promise its parts make.                   *)
(***************************************************************************)
EXTENDS MCOffice, FleetReportsProofs

-----------------------------------------------------------------------------
(* Accounts: shapes *)

\* A request that creates an account has a row to insert; one on an account was given
\* one that exists.
JobOK(r) ==
    /\ call[r].pc = "insertUser" => call[r].entity \in UserRow
    /\ call[r].pc \in {"insertDriver", "checkEmail", "selectUser", "updateUser"} =>
            call[r].user \in Exist

AccountsOK == AccountsTypeOK /\ \A r \in AdminCall : JobOK(r)

LEMMA NoUserIsNoRow == NoUser \notin UserRow
  BY AccountsAssumption DEF NoUser, UserRow

LEMMA ExistingRow ==
    ASSUME AccountsTypeOK, NEW u \in Exist
    PROVE  u \in Account /\ users[u] \in UserRow
  BY DEF AccountsTypeOK, Exist

LEMMA PatchedRow ==
    ASSUME NEW row \in UserRow, NEW patch \in Patch
    PROVE  /\ Patched(row, patch) \in UserRow
           /\ ~row.active /\ Patched(row, patch).active => patch.active = "on"
  <1>2. /\ patch.email \in Email \union {Null}
        /\ patch.role \in UserRole \union {Null}
        /\ row.email \in Email /\ row.role \in UserRole /\ row.active \in BOOLEAN
    BY DEF Patch, UserRow
  <1>3. /\ (IF patch.email = Null THEN row.email ELSE patch.email) \in Email
        /\ (IF patch.role = Null THEN row.role ELSE patch.role) \in UserRole
        /\ (IF patch.active = Null THEN row.active ELSE patch.active = "on") \in BOOLEAN
    BY <1>2
  <1>4. Patched(row, patch) \in UserRow
    BY <1>3 DEF Patched, UserRow
  <1>5. Patched(row, patch).active =
            (IF patch.active = Null THEN row.active ELSE patch.active = "on")
    BY DEF Patched
  <1>6. ~row.active /\ Patched(row, patch).active => patch.active = "on"
    BY <1>2, <1>5
  <1>7. QED
    BY <1>4, <1>6

LEMMA SavedRow ==
    ASSUME NEW row \in UserRow, NEW entity \in UserRow, NEW columns
    PROVE  Saved(row, entity, columns) \in UserRow
  <1>1. /\ (IF "email" \in columns THEN entity.email ELSE row.email) \in Email
        /\ (IF "role" \in columns THEN entity.role ELSE row.role) \in UserRole
        /\ (IF "active" \in columns THEN entity.active ELSE row.active) \in BOOLEAN
    BY DEF UserRow
  <1>2. QED
    BY <1>1 DEF Saved, UserRow

\* A step that gives one request another job and takes no account away.
LEMMA JobStep ==
    ASSUME AccountsOK, NEW r \in AdminCall, NEW new \in AdminJob,
           call' = [call EXCEPT ![r] = new],
           new.pc = "insertUser" => new.entity \in UserRow,
           new.pc \in {"insertDriver", "checkEmail", "selectUser", "updateUser"} =>
                new.user \in Exist',
           Exist \subseteq Exist'
    PROVE  call' \in [AdminCall -> AdminJob] /\ \A s \in AdminCall : JobOK(s)'
  <1>1. call' \in [AdminCall -> AdminJob]
    BY DEF AccountsOK, AccountsTypeOK
  <1>2. \A s \in AdminCall : call'[s] = IF s = r THEN new ELSE call[s]
    BY DEF AccountsOK, AccountsTypeOK
  <1>3. ASSUME NEW s \in AdminCall, s # r
        PROVE  JobOK(s)'
    BY <1>2, <1>3 DEF AccountsOK, JobOK
  <1>4. JobOK(r)'
    BY <1>2 DEF JobOK
  <1>5. QED
    BY <1>1, <1>3, <1>4

LEMMA NoJobIsJob == NoAdminJob \in AdminJob /\ NoAdminJob.pc = "idle"
  <1>1. NoPatch \in Patch
    BY DEF NoPatch, Patch
  <1>2. QED
    BY <1>1 DEF NoAdminJob, AdminJob

LEMMA InitAccountsOK == AccountsInit => AccountsOK
  <1> SUFFICES ASSUME AccountsInit
               PROVE  AccountsOK
    OBVIOUS
  <1>1. users \in [Account -> UserRow \union {NoUser}]
    <2>1. [email |-> SeedEmail, role |-> "SUPER_ADMIN", active |-> TRUE] \in UserRow
      BY AccountsAssumption DEF UserRow, UserRole
    <2>2. QED
      BY <2>1 DEF AccountsInit
  <1>2. call \in [AdminCall -> AdminJob] /\ \A r \in AdminCall : call[r] = NoAdminJob
    BY NoJobIsJob DEF AccountsInit
  <1>3. session \in [Session -> Tokens]
    BY DEF AccountsInit, NoTokens, Tokens
  <1>4. \A r \in AdminCall : JobOK(r)
    BY <1>2, NoJobIsJob DEF JobOK
  <1>5. QED
    BY <1>1, <1>2, <1>3, <1>4 DEF AccountsOK, AccountsTypeOK, AccountsInit

LEMMA SessionStepOK ==
    ASSUME AccountsOK, NEW k \in Session,
           \/ \E u \in Account : Login(k, u)
           \/ SignTokenPair(k) \/ LoginDies(k)
           \/ RefreshToken(k) \/ AccessExpires(k) \/ RefreshExpires(k)
           \/ OpenSocket(k) \/ CloseSocket(k)
    PROVE  AccountsOK'
  <1>1. UNCHANGED <<users, profiles, call, unprofiled>>
    BY DEF Login, SignTokenPair, LoginDies, RefreshToken, AccessExpires, RefreshExpires,
           OpenSocket, CloseSocket
  <1>2. session' \in [Session -> Tokens]
    <2>1. session[k] \in Tokens /\ NoTokens \in Tokens
      BY DEF AccountsOK, AccountsTypeOK, NoTokens, Tokens
    <2>2. CASE \E u \in Account : Login(k, u)
      <3>1. PICK u \in Account : Login(k, u)
        BY <2>2
      <3>2. users[u] \in UserRow
        BY <3>1, ExistingRow DEF AccountsOK, Login
      <3>3. [user |-> u, role |-> users[u].role, signing |-> TRUE,
             access |-> FALSE, renew |-> FALSE, socket |-> FALSE] \in Tokens
        BY <3>2 DEF UserRow, Tokens
      <3>4. QED
        BY <3>1, <3>3 DEF Login, AccountsOK, AccountsTypeOK
    <2>3. CASE SignTokenPair(k)
      BY <2>1, <2>3 DEF SignTokenPair, AccountsOK, AccountsTypeOK, Tokens
    <2>4. CASE LoginDies(k)
      BY <2>1, <2>4 DEF LoginDies, AccountsOK, AccountsTypeOK
    <2>5. CASE RefreshToken(k)
      BY <2>1, <2>5 DEF RefreshToken, AccountsOK, AccountsTypeOK, Tokens
    <2>6. ASSUME NEW tokens \in Tokens, session' = [session EXCEPT ![k] = Left(tokens)]
          PROVE  session' \in [Session -> Tokens]
      BY <2>1, <2>6 DEF Left, AccountsOK, AccountsTypeOK
    <2>7. /\ [session[k] EXCEPT !.access = FALSE] \in Tokens
          /\ [session[k] EXCEPT !.renew = FALSE] \in Tokens
          /\ [session[k] EXCEPT !.socket = FALSE] \in Tokens
      BY <2>1 DEF Tokens
    <2>8. CASE AccessExpires(k) \/ RefreshExpires(k) \/ CloseSocket(k)
      <3>1. PICK tokens \in Tokens : session' = [session EXCEPT ![k] = Left(tokens)]
        BY <2>7, <2>8 DEF AccessExpires, RefreshExpires, CloseSocket
      <3>2. QED
        BY <2>6, <3>1
    <2>9. CASE OpenSocket(k)
      BY <2>1, <2>9 DEF OpenSocket, AccountsOK, AccountsTypeOK, Tokens
    <2>10. QED
      BY <2>2, <2>3, <2>4, <2>5, <2>8, <2>9
  <1>3. QED
    BY <1>1, <1>2 DEF AccountsOK, AccountsTypeOK, JobOK, Exist

\* What each step of a request makes of its job.
LEMMA EndsOK ==
    ASSUME AccountsOK, NEW r \in AdminCall, Ends(r), Exist \subseteq Exist'
    PROVE  call' \in [AdminCall -> AdminJob] /\ \A s \in AdminCall : JobOK(s)'
  <1> DEFINE new == NoAdminJob
  <1>1. new \in AdminJob /\ new.pc = "idle" /\ call' = [call EXCEPT ![r] = new]
    BY NoJobIsJob DEF Ends
  <1> HIDE DEF new
  <1>2. QED
    BY <1>1, JobStep

LEMMA CreateUserOK ==
    ASSUME AccountsOK, NEW r \in AdminCall, NEW k \in Session, NEW email \in Email,
           NEW role \in NewRoles, CreateUser(r, k, email, role)
    PROVE  AccountsOK'
  <1> DEFINE row == [email |-> email, role |-> role, active |-> TRUE]
             new == [call[r] EXCEPT !.pc = "insertUser", !.entity = row]
  <1>1. row \in UserRow
    BY AccountsAssumption DEF UserRow
  <1>2. call[r] \in AdminJob
    BY DEF AccountsOK, AccountsTypeOK
  <1>3. new \in AdminJob /\ new.pc = "insertUser" /\ new.entity \in UserRow
    BY <1>1, <1>2 DEF AdminJob
  <1>4. call' = [call EXCEPT ![r] = new]
    BY DEF CreateUser, AccountsOK, AccountsTypeOK
  <1>5. UNCHANGED <<users, profiles, session, unprofiled>> /\ Exist \subseteq Exist'
    BY DEF CreateUser, Exist
  <1> HIDE DEF new
  <1>6. call' \in [AdminCall -> AdminJob] /\ \A s \in AdminCall : JobOK(s)'
    BY <1>3, <1>4, <1>5, JobStep
  <1>7. QED
    BY <1>5, <1>6 DEF AccountsOK, AccountsTypeOK

LEMMA InsertUserOK ==
    ASSUME AccountsOK, NEW r \in AdminCall, NEW u \in Account, InsertUser(r, u)
    PROVE  AccountsOK' /\ u \in Exist' /\ Exist' = Exist \union {u}
  <1>1. call[r] \in AdminJob /\ call[r].entity \in UserRow
    BY DEF AccountsOK, AccountsTypeOK, InsertUser, JobOK
  <1>2. users' \in [Account -> UserRow \union {NoUser}]
    BY <1>1 DEF InsertUser, AccountsOK, AccountsTypeOK
  <1>3. Exist' = Exist \union {u}
    BY <1>1, NoUserIsNoRow DEF InsertUser, Exist, AccountsOK, AccountsTypeOK
  <1>4. call' \in [AdminCall -> AdminJob] /\ \A s \in AdminCall : JobOK(s)'
    <2>1. CASE call[r].entity.role = "DRIVER"
      <3> DEFINE new == [call[r] EXCEPT !.pc = "insertDriver", !.user = u]
      <3>1. new \in AdminJob /\ new.pc = "insertDriver" /\ new.user = u
        BY <1>1 DEF AdminJob
      <3>2. call' = [call EXCEPT ![r] = new]
        BY <2>1 DEF InsertUser, AccountsOK, AccountsTypeOK
      <3> HIDE DEF new
      <3>3. QED
        BY <1>3, <3>1, <3>2, JobStep
    <2>2. CASE call[r].entity.role # "DRIVER"
      BY <1>3, <2>2, EndsOK DEF InsertUser
    <2>3. QED
      BY <2>1, <2>2
  <1>5. QED
    BY <1>2, <1>3, <1>4 DEF AccountsOK, AccountsTypeOK, InsertUser

LEMMA InsertProfileOK ==
    ASSUME AccountsOK, NEW r \in AdminCall, InsertProfile(r)
    PROVE  AccountsOK'
  <1>1. Exist' = Exist /\ UNCHANGED <<users, session, unprofiled>>
    BY DEF InsertProfile, Exist
  <1>2. profiles' \subseteq Account
    BY DEF InsertProfile, AccountsOK, AccountsTypeOK, JobOK, Exist
  <1>3. call' \in [AdminCall -> AdminJob] /\ \A s \in AdminCall : JobOK(s)'
    BY <1>1, EndsOK DEF InsertProfile
  <1>4. QED
    BY <1>1, <1>2, <1>3 DEF AccountsOK, AccountsTypeOK

LEMMA UpdateUserOK ==
    ASSUME AccountsOK, NEW r \in AdminCall, NEW k \in Session, NEW u \in Account,
           NEW patch \in Patches, UpdateUser(r, k, u, patch)
    PROVE  AccountsOK'
  <1> DEFINE pc == IF patch.email \in {Null, users[u].email} THEN "selectUser" ELSE "checkEmail"
             new == [pc |-> pc, user |-> u, entity |-> NoUser, patch |-> patch, columns |-> {}]
  <1>1. u \in Exist /\ patch \in Patch
    BY AccountsAssumption DEF UpdateUser
  <1>3. pc \in {"selectUser", "checkEmail"}
    OBVIOUS
  <1>5. call' = [call EXCEPT ![r] = new]
    BY DEF UpdateUser
  <1> HIDE DEF pc
  <1>4. /\ new \in AdminJob
        /\ new.user = u
        /\ new.pc # "insertUser"
    BY <1>1, <1>3 DEF AdminJob
  <1>6. Exist' = Exist /\ UNCHANGED <<users, profiles, session, unprofiled>>
    BY DEF UpdateUser, Exist
  <1> HIDE DEF new
  <1>7. call' \in [AdminCall -> AdminJob] /\ \A s \in AdminCall : JobOK(s)'
    BY <1>1, <1>4, <1>5, <1>6, JobStep
  <1>8. QED
    BY <1>6, <1>7 DEF AccountsOK, AccountsTypeOK

LEMMA CheckEmailOK ==
    ASSUME AccountsOK, NEW r \in AdminCall, CheckEmail(r)
    PROVE  AccountsOK'
  <1>1. Exist' = Exist /\ UNCHANGED <<users, profiles, session, unprofiled>>
    BY DEF CheckEmail, Exist
  <1>2. call' \in [AdminCall -> AdminJob] /\ \A s \in AdminCall : JobOK(s)'
    <2>1. CASE Taken(call[r].patch.email)
      BY <1>1, <2>1, EndsOK DEF CheckEmail
    <2>2. CASE ~Taken(call[r].patch.email)
      <3> DEFINE new == [call[r] EXCEPT !.pc = "selectUser"]
      <3>1. call[r] \in AdminJob /\ call[r].user \in Exist
        BY DEF AccountsOK, AccountsTypeOK, CheckEmail, JobOK
      <3>2. /\ new \in AdminJob
            /\ new.user \in Exist'
            /\ new.pc # "insertUser"
        BY <1>1, <3>1 DEF AdminJob
      <3>3. call' = [call EXCEPT ![r] = new]
        BY <2>2 DEF CheckEmail, AccountsOK, AccountsTypeOK
      <3> HIDE DEF new
      <3>4. QED
        BY <1>1, <3>2, <3>3, JobStep
    <2>3. QED
      BY <2>1, <2>2
  <1>3. QED
    BY <1>1, <1>2 DEF AccountsOK, AccountsTypeOK

LEMMA SelectUserOK ==
    ASSUME AccountsOK, NEW r \in AdminCall, SelectUser(r)
    PROVE  AccountsOK'
  <1> DEFINE row == users[call[r].user]
             columns == {c \in UserColumn : Patched(row, call[r].patch)[c] # row[c]}
             new == [call[r] EXCEPT !.pc = "updateUser", !.columns = columns]
  <1>1. call[r] \in AdminJob /\ call[r].user \in Exist
    BY DEF AccountsOK, AccountsTypeOK, SelectUser, JobOK
  <1>2. columns \subseteq UserColumn
    OBVIOUS
  <1>3. Exist' = Exist /\ UNCHANGED <<users, profiles, session, unprofiled>>
    BY DEF SelectUser, Exist
  <1>4. call' = [call EXCEPT ![r] = new]
    BY DEF SelectUser, AccountsOK, AccountsTypeOK
  <1> HIDE DEF columns
  <1>5. /\ new \in AdminJob
        /\ new.user \in Exist'
        /\ new.pc # "insertUser"
    BY <1>1, <1>2, <1>3 DEF AdminJob
  <1> HIDE DEF new
  <1>6. call' \in [AdminCall -> AdminJob] /\ \A s \in AdminCall : JobOK(s)'
    BY <1>3, <1>4, <1>5, JobStep
  <1>7. QED
    BY <1>3, <1>6 DEF AccountsOK, AccountsTypeOK

LEMMA UpdateRowOK ==
    ASSUME AccountsOK, NEW r \in AdminCall, UpdateRow(r)
    PROVE  AccountsOK' /\ Exist' = Exist
  <1> DEFINE u == call[r].user
             entity == Patched(users[u], call[r].patch)
             row == Saved(users[u], entity, call[r].columns)
  <1>1. u \in Exist /\ call[r].patch \in Patch
    BY DEF AccountsOK, AccountsTypeOK, AdminJob, UpdateRow, JobOK
  <1>2. u \in Account /\ users[u] \in UserRow
    BY <1>1, ExistingRow DEF AccountsOK
  <1>3. row \in UserRow
    BY <1>1, <1>2, PatchedRow, SavedRow
  <1>4. users' = [users EXCEPT ![u] = row]
    BY DEF UpdateRow
  <1> HIDE DEF u, entity, row
  <1>5. users' \in [Account -> UserRow \union {NoUser}] /\ Exist' = Exist
    BY <1>1, <1>2, <1>3, <1>4, NoUserIsNoRow DEF AccountsOK, AccountsTypeOK, Exist
  <1>6. call' \in [AdminCall -> AdminJob] /\ \A s \in AdminCall : JobOK(s)'
    BY <1>5, EndsOK DEF UpdateRow
  <1>7. unprofiled' \subseteq Account
    BY <1>2 DEF UpdateRow, u, AccountsOK, AccountsTypeOK
  <1>8. QED
    BY <1>5, <1>6, <1>7 DEF AccountsOK, AccountsTypeOK, UpdateRow

LEMMA CallDiesOK ==
    ASSUME AccountsOK, NEW r \in AdminCall, CallDies(r)
    PROVE  AccountsOK'
  <1>1. Exist' = Exist /\ UNCHANGED <<users, profiles, session>>
    BY DEF CallDies, Exist
  <1>2. call' \in [AdminCall -> AdminJob] /\ \A s \in AdminCall : JobOK(s)'
    BY <1>1, EndsOK DEF CallDies
  <1>3. unprofiled' \subseteq Account
    BY DEF CallDies, AccountsOK, AccountsTypeOK, JobOK, Exist
  <1>4. QED
    BY <1>1, <1>2, <1>3 DEF AccountsOK, AccountsTypeOK

LEMMA AccountsStepOK == AccountsOK /\ [AccountsNext]_accountVars => AccountsOK'
  <1> SUFFICES ASSUME AccountsOK, [AccountsNext]_accountVars
               PROVE  AccountsOK'
    OBVIOUS
  <1>1. CASE UNCHANGED accountVars
    BY <1>1 DEF accountVars, AccountsOK, AccountsTypeOK, JobOK, Exist
  <1>2. ASSUME NEW k \in Session,
               \/ \E u \in Account : Login(k, u)
               \/ SignTokenPair(k) \/ LoginDies(k)
               \/ RefreshToken(k) \/ AccessExpires(k) \/ RefreshExpires(k)
               \/ OpenSocket(k) \/ CloseSocket(k)
        PROVE  AccountsOK'
    BY <1>2, SessionStepOK
  <1>3. ASSUME NEW r \in AdminCall, AdminStep(r) \/ CallDies(r)
        PROVE  AccountsOK'
    BY <1>3, InsertUserOK, InsertProfileOK, CheckEmailOK, SelectUserOK, UpdateRowOK, CallDiesOK
    DEF AdminStep
  <1>4. ASSUME NEW r \in AdminCall, NEW k \in Session, AdminReceive(r, k)
        PROVE  AccountsOK'
    BY <1>4, CreateUserOK, UpdateUserOK DEF AdminReceive
  <1>5. QED
    BY <1>1, <1>2, <1>3, <1>4 DEF AccountsNext

LEMMA AccountsOKAlways == AccountsSpec => []AccountsOK
  BY InitAccountsOK, AccountsStepOK, PTL DEF AccountsSpec

\* Rows, requests and tokens keep their shape: a request never saves an account that
\* does not exist, nor a row with a column missing.
THEOREM AccountsTypeCorrect == AccountsSpec => []AccountsTypeOK
  <1>1. AccountsOK => AccountsTypeOK
    BY DEF AccountsOK
  <1>2. QED
    BY AccountsOKAlways, <1>1, PTL

-----------------------------------------------------------------------------

(* Accounts: what holds of them *)

\* Only the two statements that write users matter to the emails.
LEMMA EmailStep ==
    ASSUME AccountsOK, EmailUnique, [AccountsNext]_accountVars
    PROVE  EmailUnique'
  <1>1. ASSUME users' = users
        PROVE  EmailUnique'
    BY <1>1 DEF EmailUnique, Exist
  <1>2. ASSUME NEW r \in AdminCall, NEW u \in Account, InsertUser(r, u)
        PROVE  EmailUnique'
    <2>1. Exist' = Exist \union {u} /\ u \notin Exist
      BY <1>2, InsertUserOK DEF InsertUser
    <2>2. /\ users'[u].email = call[r].entity.email
          /\ \A v \in Exist : users'[v] = users[v]
      BY <1>2, <2>1 DEF InsertUser, AccountsOK, AccountsTypeOK, Exist
    <2>3. \A v \in Exist : users[v].email # call[r].entity.email
      BY <1>2 DEF InsertUser, Taken
    <2>4. QED
      BY <2>1, <2>2, <2>3 DEF EmailUnique
  <1>3. ASSUME NEW r \in AdminCall, UpdateRow(r)
        PROVE  EmailUnique'
    <2> DEFINE u == call[r].user
    <2>1. u \in Exist /\ u \in Account
      BY <1>3, ExistingRow DEF AccountsOK, UpdateRow, JobOK
    <2>2. Exist' = Exist
      BY <1>3, UpdateRowOK
    <2>3. \A v \in Exist \ {u} : users'[v] = users[v]
      BY <1>3 DEF UpdateRow, AccountsOK, AccountsTypeOK, Exist
    <2>4. \/ users'[u].email = users[u].email
          \/ "email" \in call[r].columns /\ users'[u].email = call[r].patch.email
      BY <1>3, <2>1 DEF UpdateRow, Saved, Patched, AccountsOK, AccountsTypeOK
    <2>5. "email" \in call[r].columns =>
                \A v \in Exist \ {u} : users[v].email # call[r].patch.email
      BY <1>3 DEF UpdateRow, EmailFree
    <2>6. \A v \in Exist \ {u} : users'[u].email # users'[v].email
      BY <2>1, <2>3, <2>4, <2>5 DEF EmailUnique
    <2>7. QED
      BY <2>2, <2>3, <2>6 DEF EmailUnique
  <1>4. QED
    BY <1>1, <1>2, <1>3
    DEF AccountsNext, accountVars, AdminStep, AdminReceive, Login, SignTokenPair, LoginDies,
        RefreshToken, AccessExpires, RefreshExpires, OpenSocket, CloseSocket, CreateUser,
        UpdateUser, InsertProfile, CheckEmail, SelectUser, CallDies

\* Two accounts never share an email, with any number of requests between their look
\* for it and their write (the column's constraint decides).
THEOREM EmailUniqueHolds == AccountsSpec => []EmailUnique
  <1>1. AccountsInit => EmailUnique
    BY DEF AccountsInit, EmailUnique, Exist
  <1>2. AccountsOK /\ EmailUnique /\ [AccountsNext]_accountVars => EmailUnique'
    BY EmailStep
  <1>3. QED
    BY <1>1, <1>2, AccountsOKAlways, PTL DEF AccountsSpec

\* A request about to insert the driver row of u.
AboutToProfile(r, u) == call[r].pc = "insertDriver" /\ call[r].user = u

LEMMA ProfileStep ==
    ASSUME AccountsOK, ProfileComplete, [AccountsNext]_accountVars
    PROVE  ProfileComplete'
  <1> SUFFICES ASSUME NEW u \in Exist', u \notin profiles', u \notin unprofiled',
                      users'[u].role = "DRIVER"
               PROVE  \E r \in AdminCall : AboutToProfile(r, u)'
    BY DEF ProfileComplete, AboutToProfile
  <1>0. call \in [AdminCall -> AdminJob] /\ users \in [Account -> UserRow \union {NoUser}]
    BY DEF AccountsOK, AccountsTypeOK
  \* An account that was a driver's before has its request.
  <1>1. ASSUME u \in Exist, u \notin profiles, u \notin unprofiled, users[u].role = "DRIVER"
        PROVE  \E r \in AdminCall : AboutToProfile(r, u)
    BY <1>1 DEF ProfileComplete, AboutToProfile
  <1>2. ASSUME NEW r \in AdminCall, NEW v \in Account, InsertUser(r, v)
        PROVE  \E s \in AdminCall : AboutToProfile(s, u)'
    <2>1. Exist' = Exist \union {v}
      BY <1>2, InsertUserOK
    <2>2. CASE u = v
      <3>1. call[r].entity.role = "DRIVER"
        BY <1>0, <1>2, <2>2 DEF InsertUser
      <3>2. AboutToProfile(r, u)'
        <4>1. call[r] \in AdminJob
          BY <1>0
        <4>2. call'[r] = [call[r] EXCEPT !.pc = "insertDriver", !.user = v]
          BY <1>0, <1>2, <3>1 DEF InsertUser
        <4>3. QED
          BY <2>2, <4>1, <4>2 DEF AboutToProfile, AdminJob
      <3>3. QED
        BY <3>2
    <2>3. CASE u # v
      <3>1. u \in Exist /\ users[u].role = "DRIVER"
        BY <1>0, <1>2, <2>1, <2>3 DEF InsertUser, Exist
      <3>2. PICK s \in AdminCall : AboutToProfile(s, u)
        BY <1>1, <1>2, <3>1 DEF InsertUser
      <3>3. s # r /\ call'[s] = call[s]
        BY <1>0, <1>2, <3>2 DEF InsertUser, AboutToProfile, Ends
      <3>4. AboutToProfile(s, u)'
        BY <3>2, <3>3 DEF AboutToProfile
      <3>5. QED
        BY <3>4
    <2>4. QED
      BY <2>2, <2>3
  <1>3. ASSUME NEW r \in AdminCall, InsertProfile(r)
        PROVE  \E s \in AdminCall : AboutToProfile(s, u)'
    <2>1. PICK s \in AdminCall : AboutToProfile(s, u)
      BY <1>1, <1>3 DEF InsertProfile, Exist
    <2>2. s # r /\ call'[s] = call[s]
      BY <1>0, <1>3, <2>1 DEF InsertProfile, AboutToProfile, Ends
    <2>3. AboutToProfile(s, u)'
      BY <2>1, <2>2 DEF AboutToProfile
    <2>4. QED
      BY <2>3
  <1>4. ASSUME NEW r \in AdminCall, UpdateRow(r)
        PROVE  \E s \in AdminCall : AboutToProfile(s, u)'
    <2>1. Exist' = Exist
      BY <1>4, UpdateRowOK
    <2>2. users[u].role = "DRIVER"
      <3>1. CASE u # call[r].user
        BY <1>0, <1>4, <3>1 DEF UpdateRow, Exist
      <3>2. CASE u = call[r].user
        BY <1>0, <1>4, <3>2, <2>1 DEF UpdateRow, Exist
      <3>3. QED
        BY <3>1, <3>2
    <2>3. u \notin unprofiled /\ u \notin profiles
      BY <1>4 DEF UpdateRow
    <2>4. PICK s \in AdminCall : AboutToProfile(s, u)
      BY <1>1, <2>1, <2>2, <2>3
    <2>5. s # r /\ call'[s] = call[s]
      BY <1>0, <1>4, <2>4 DEF UpdateRow, AboutToProfile, Ends
    <2>6. AboutToProfile(s, u)'
      BY <2>4, <2>5 DEF AboutToProfile
    <2>7. QED
      BY <2>6
  <1>5. ASSUME NEW r \in AdminCall, CallDies(r)
        PROVE  \E s \in AdminCall : AboutToProfile(s, u)'
    <2>1. u \notin unprofiled
      BY <1>5 DEF CallDies
    <2>2. PICK s \in AdminCall : AboutToProfile(s, u)
      BY <1>1, <1>5, <2>1 DEF CallDies, Exist
    <2>3. s # r /\ call'[s] = call[s]
      BY <1>0, <1>5, <2>2 DEF CallDies, AboutToProfile, Ends
    <2>4. AboutToProfile(s, u)'
      BY <2>2, <2>3 DEF AboutToProfile
    <2>5. QED
      BY <2>4
  <1>6. ASSUME NEW r \in AdminCall, UNCHANGED <<users, profiles, unprofiled>>,
               call[r].pc # "insertDriver", \A s \in AdminCall \ {r} : call'[s] = call[s]
        PROVE  \E s \in AdminCall : AboutToProfile(s, u)'
    <2>1. PICK s \in AdminCall : AboutToProfile(s, u)
      BY <1>1, <1>6 DEF Exist
    <2>2. AboutToProfile(s, u)'
      BY <1>6, <2>1 DEF AboutToProfile
    <2>3. QED
      BY <2>2
  <1>7. ASSUME UNCHANGED <<users, profiles, call, unprofiled>>
        PROVE  \E s \in AdminCall : AboutToProfile(s, u)'
    BY <1>1, <1>7 DEF AboutToProfile, Exist
  <1>8. CASE \E r \in AdminCall : AdminStep(r) \/ CallDies(r)
    <2>1. PICK r \in AdminCall : AdminStep(r) \/ CallDies(r)
      BY <1>8
    <2>2. CASE CheckEmail(r) \/ SelectUser(r)
      BY <1>0, <1>6, <2>2 DEF CheckEmail, SelectUser, Ends
    <2>3. QED
      BY <1>2, <1>3, <1>4, <1>5, <2>1, <2>2 DEF AdminStep
  <1>9. CASE \E r \in AdminCall, k \in Session : AdminReceive(r, k)
    <2>1. PICK r \in AdminCall, k \in Session : AdminReceive(r, k)
      BY <1>9
    <2>2. call[r].pc # "insertDriver"
      BY <2>1 DEF AdminReceive, CreateUser, UpdateUser, NoAdminJob
    <2>3. /\ UNCHANGED <<users, profiles, unprofiled>>
          /\ \A s \in AdminCall \ {r} : call'[s] = call[s]
      BY <1>0, <2>1 DEF AdminReceive, CreateUser, UpdateUser
    <2>4. QED
      BY <1>6, <2>2, <2>3
  <1>10. QED
    BY <1>7, <1>8, <1>9
    DEF AccountsNext, accountVars, Login, SignTokenPair, LoginDies, RefreshToken,
        AccessExpires, RefreshExpires, OpenSocket, CloseSocket

\* An account with role DRIVER has a driver row, but for the excuses the property
\* names, whatever becomes of the requests that create and edit accounts.
THEOREM ProfileCompleteHolds == AccountsSpec => []ProfileComplete
  <1>1. AccountsInit => ProfileComplete
    BY DEF AccountsInit, ProfileComplete, Exist
  <1>2. AccountsOK /\ ProfileComplete /\ [AccountsNext]_accountVars => ProfileComplete'
    BY ProfileStep
  <1>3. QED
    BY <1>1, <1>2, AccountsOKAlways, PTL DEF AccountsSpec

-----------------------------------------------------------------------------

(* Accounts: deactivation *)

\* A step that makes u active was an update that asked for it.
LEMMA ReactivatedOnDemand ==
    ASSUME AccountsOK, [AccountsNext]_accountVars,
           NEW u \in Exist, ~users[u].active, users'[u].active
    PROVE  \E r \in AdminCall : call[r].pc = "updateUser" /\ call[r].user = u
                                    /\ call[r].patch.active = "on"
  <1>1. u \in Account /\ users[u] \in UserRow
    BY ExistingRow DEF AccountsOK
  <1>2. users' # users
    OBVIOUS
  <1>3. ASSUME NEW r \in AdminCall, NEW v \in Account, InsertUser(r, v)
        PROVE  FALSE
    BY <1>1, <1>3 DEF InsertUser, AccountsOK, AccountsTypeOK
  <1>4. PICK r \in AdminCall : UpdateRow(r)
    BY <1>2, <1>3
    DEF AccountsNext, accountVars, AdminStep, AdminReceive, Login, SignTokenPair, LoginDies,
        RefreshToken, AccessExpires, RefreshExpires, OpenSocket, CloseSocket, CreateUser,
        UpdateUser, InsertProfile, CheckEmail, SelectUser, CallDies
  <1>5. u = call[r].user
    BY <1>1, <1>4 DEF UpdateRow, AccountsOK, AccountsTypeOK
  <1>6. users'[u] = Saved(users[u], Patched(users[u], call[r].patch), call[r].columns)
    BY <1>1, <1>4, <1>5 DEF UpdateRow, AccountsOK, AccountsTypeOK
  <1>7. Patched(users[u], call[r].patch).active
    BY <1>6 DEF Saved
  <1>8. call[r].pc = "updateUser" /\ call[r].patch \in Patch
    BY <1>4 DEF UpdateRow, AccountsOK, AccountsTypeOK, AdminJob
  <1>9. call[r].patch.active = "on"
    BY <1>1, <1>7, <1>8, PatchedRow
  <1>10. QED
    BY <1>5, <1>8, <1>9

\* A deactivated account stays so until an update asks for the contrary: an update of
\* anything else leaves the column alone, whatever it loaded and whatever goes on at once.
THEOREM DeactivationSticksHolds == AccountsSpec => DeactivationSticks
  <1> DEFINE Step ==
        \A u \in Exist :
            ~users[u].active /\ users'[u].active =>
                \E r \in AdminCall : call[r].pc = "updateUser" /\ call[r].user = u
                                        /\ call[r].patch.active = "on"
  <1>1. AccountsOK /\ [AccountsNext]_accountVars => Step
    BY ReactivatedOnDemand
  <1> HIDE DEF Step
  <1>2. AccountsSpec => [][Step]_accountVars
    BY <1>1, AccountsOKAlways, PTL DEF AccountsSpec
  <1>3. QED
    BY <1>2 DEF Step, DeactivationSticks

\* How long a login can go on: while its tokens are being signed, as long as the refresh
\* token lives, or as long as the last access token does.
Standing(k) ==
    IF session[k].signing THEN 3 ELSE IF session[k].renew THEN 2
    ELSE IF session[k].access THEN 1 ELSE 0

\* No step prolongs a login of an account that is deactivated, and none begins one; a
\* socket is opened only while an access token is left.
OnlyRunsOut ==
    \A u \in Exist, k \in Session :
        ~users[u].active /\ session'[k].user = u =>
            /\ session[k].user = u /\ Standing(k)' <= Standing(k)
            /\ session'[k].socket => session[k].socket \/ session[k].access

LEMMA LoginsRunOut ==
    ASSUME AccountsOK, [AccountsNext]_accountVars
    PROVE  OnlyRunsOut
  <1> SUFFICES ASSUME NEW u \in Exist, NEW k \in Session, ~users[u].active, session'[k].user = u
               PROVE  /\ session[k].user = u /\ Standing(k)' <= Standing(k)
                      /\ session'[k].socket => session[k].socket \/ session[k].access
    BY DEF OnlyRunsOut
  <1>1. u # Null /\ session[k] \in Tokens
    BY AccountsAssumption DEF AccountsOK, AccountsTypeOK, Exist
  <1>2. CASE session'[k] = session[k]
    BY <1>2 DEF Standing
  <1>3. ASSUME NEW l \in Session,
               \/ \E v \in Account : Login(l, v)
               \/ SignTokenPair(l) \/ LoginDies(l)
               \/ RefreshToken(l) \/ AccessExpires(l) \/ RefreshExpires(l)
               \/ OpenSocket(l) \/ CloseSocket(l),
               session'[k] # session[k]
        PROVE  /\ session[k].user = u /\ Standing(k)' <= Standing(k)
               /\ session'[k].socket => session[k].socket \/ session[k].access
    <2>1. l = k
      BY <1>3 DEF Login, SignTokenPair, LoginDies, RefreshToken, AccessExpires, RefreshExpires,
                  OpenSocket, CloseSocket, AccountsOK, AccountsTypeOK
    <2>2. session'[k] # NoTokens
      BY <1>1 DEF NoTokens
    <2>3. CASE \E v \in Account : Login(k, v)
      BY <1>1, <2>3 DEF Login, AccountsOK, AccountsTypeOK
    <2>4. CASE SignTokenPair(k)
      BY <1>1, <2>4 DEF SignTokenPair, Standing, AccountsOK, AccountsTypeOK, Tokens
    <2>5. CASE LoginDies(k)
      BY <2>2, <2>5 DEF LoginDies, AccountsOK, AccountsTypeOK
    <2>6. CASE RefreshToken(k)
      BY <1>1, <2>6 DEF RefreshToken, Standing, AccountsOK, AccountsTypeOK, Tokens
    <2>7. CASE AccessExpires(k) \/ RefreshExpires(k) \/ CloseSocket(k)
      <3>1. \/ session'[k] = [session[k] EXCEPT !.access = FALSE]
            \/ session'[k] = [session[k] EXCEPT !.renew = FALSE]
            \/ session'[k] = [session[k] EXCEPT !.socket = FALSE]
        BY <2>2, <2>7 DEF AccessExpires, RefreshExpires, CloseSocket, Left, AccountsOK,
                          AccountsTypeOK
      <3>2. QED
        BY <1>1, <3>1 DEF Standing, Tokens
    <2>8. CASE OpenSocket(k)
      BY <1>1, <2>8 DEF OpenSocket, Standing, AccountsOK, AccountsTypeOK, Tokens
    <2>9. QED
      BY <1>3, <2>1, <2>3, <2>4, <2>5, <2>6, <2>7, <2>8
  <1>4. ASSUME NEW r \in AdminCall,
               AdminStep(r) \/ CallDies(r) \/ \E l \in Session : AdminReceive(r, l)
        PROVE  UNCHANGED session
    BY <1>4 DEF AdminStep, AdminReceive, InsertUser, InsertProfile, CheckEmail, SelectUser,
                UpdateRow, CallDies, CreateUser, UpdateUser
  <1>5. QED
    BY <1>2, <1>3, <1>4 DEF AccountsNext, accountVars

\* The half of LockOut that needs no fairness: from the moment an account is deactivated its
\* logins only run out, those under way among them; a refresh prolongs none, though it
\* never looks at the user (AuthService.login, refresh), and its sockets are those opened
\* while an access token was left.
THEOREM NoWayBackIn == AccountsSpec => [][OnlyRunsOut]_accountVars
  <1> DEFINE Step == OnlyRunsOut
  <1>1. AccountsOK /\ [AccountsNext]_accountVars => Step
    BY LoginsRunOut
  <1> HIDE DEF Step
  <1>2. AccountsSpec => [][Step]_accountVars
    BY <1>1, AccountsOKAlways, PTL DEF AccountsSpec
  <1>3. QED
    BY <1>2 DEF Step

-----------------------------------------------------------------------------

(* The live map: shapes *)

\* A call under way has a truck.
GpsOK(g) == gps[g] = NoCall \/ (gps[g].pc # "idle" /\ gps[g].truck \in MapTruck)

MapOK == MapTypeOK /\ \A g \in GpsCall : GpsOK(g)

LEMMA NullIsNoTime == Null \notin Time /\ Null \notin MapTruck /\ \A p \in Time : p \in Nat
  BY MapAssumption

LEMMA GpsStepOK ==
    ASSUME MapOK, NEW g \in GpsCall, NEW new \in Call,
           new = NoCall \/ (new.pc # "idle" /\ new.truck \in MapTruck),
           gps' = [gps EXCEPT ![g] = new]
    PROVE  gps' \in [GpsCall -> Call] /\ \A h \in GpsCall : GpsOK(h)'
  <1>1. gps' \in [GpsCall -> Call]
    BY DEF MapOK, MapTypeOK
  <1>2. \A h \in GpsCall : gps'[h] = IF h = g THEN new ELSE gps[h]
    BY DEF MapOK, MapTypeOK
  <1>3. QED
    BY <1>1, <1>2 DEF MapOK, GpsOK

LEMMA InitMapOK == MapInit => MapOK
  <1> SUFFICES ASSUME MapInit
               PROVE  MapOK
    OBVIOUS
  <1>1. NoCall \in Call /\ NoRequest \in Request
    BY DEF NoCall, Call, NoRequest, Request
  <1>2. gps \in [GpsCall -> Call] /\ \A g \in GpsCall : GpsOK(g)
    BY <1>1 DEF MapInit, GpsOK
  <1>3. live \in [Round -> [MapTruck -> Request]]
    BY <1>1 DEF MapInit, NothingUnderWay
  <1>4. /\ positions \in [MapTruck -> SUBSET Time]
        /\ written \in [MapTruck -> Time \union {Null}]
        /\ fetched \in [MapTruck -> Time \union {Null}]
        /\ pushed \in [MapTruck -> Time \union {Null}]
    BY DEF MapInit, NoPositions
  <1>5. QED
    BY <1>2, <1>3, <1>4 DEF MapOK, MapTypeOK, MapInit

LEMMA ReceiveOK ==
    ASSUME MapOK, NEW g \in GpsCall, NEW t \in MapTruck, NEW points \in SUBSET Time,
           Receive(g, t, points)
    PROVE  MapOK'
  <1> DEFINE new == [pc |-> "saveRow", truck |-> t, points |-> points]
  <1>1. new \in Call /\ new.pc # "idle" /\ new.truck \in MapTruck
    BY DEF Call
  <1>2. gps' = [gps EXCEPT ![g] = new]
    BY DEF Receive
  <1> HIDE DEF new
  <1>3. gps' \in [GpsCall -> Call] /\ \A h \in GpsCall : GpsOK(h)'
    BY <1>1, <1>2, GpsStepOK
  <1>4. late' \subseteq MapTruck /\ overlapped' \subseteq MapTruck
    BY DEF Receive, MapOK, MapTypeOK
  <1>5. QED
    BY <1>3, <1>4 DEF Receive, browser, MapOK, MapTypeOK

\* Any step of a call leaves it at another label or ends it.
LEMMA GpsMoves ==
    ASSUME MapOK, NEW g \in GpsCall, gps[g].pc # "idle",
           \/ \E label \in {"setKey", "push"} : GpsGoto(g, label)
           \/ gps' = [gps EXCEPT ![g] = NoCall]
    PROVE  gps' \in [GpsCall -> Call] /\ \A h \in GpsCall : GpsOK(h)'
  <1>1. gps[g] \in Call /\ gps[g].truck \in MapTruck /\ NoCall \in Call
    BY DEF MapOK, MapTypeOK, GpsOK, NoCall, Call
  <1>2. ASSUME NEW label \in {"setKey", "push"}, GpsGoto(g, label)
        PROVE  gps' \in [GpsCall -> Call] /\ \A h \in GpsCall : GpsOK(h)'
    <2> DEFINE new == [gps[g] EXCEPT !.pc = label]
    <2>1. new \in Call /\ new.pc # "idle" /\ new.truck \in MapTruck
      BY <1>1 DEF Call
    <2>2. gps' = [gps EXCEPT ![g] = new]
      BY <1>2 DEF GpsGoto
    <2> HIDE DEF new
    <2>3. QED
      BY <2>1, <2>2, GpsStepOK
  <1>3. CASE gps' = [gps EXCEPT ![g] = NoCall]
    <2> DEFINE new == NoCall
    <2>1. new \in Call /\ new = NoCall /\ gps' = [gps EXCEPT ![g] = new]
      BY <1>1, <1>3
    <2> HIDE DEF new
    <2>2. QED
      BY <2>1, GpsStepOK
  <1>4. QED
    BY <1>2, <1>3

LEMMA GpsActionsOK ==
    ASSUME MapOK, NEW g \in GpsCall, GpsStep(g) \/ GpsDies(g)
    PROVE  MapOK'
  <1>1. gps[g].pc # "idle" /\ gps[g].truck \in MapTruck /\ gps[g] \in Call
    BY DEF GpsStep, GpsDies, SaveRows, SetKey, Push, MapOK, MapTypeOK, GpsOK, NoCall
  <1>2. gps' \in [GpsCall -> Call] /\ \A h \in GpsCall : GpsOK(h)'
    BY <1>1, GpsMoves DEF GpsStep, GpsDies, SaveRows, SetKey, Push
  <1>3. CASE SaveRows(g)
    <2>1. positions' \in [MapTruck -> SUBSET Time]
      BY <1>1, <1>3 DEF SaveRows, MapOK, MapTypeOK, Call
    <2>2. QED
      BY <1>2, <1>3, <2>1 DEF SaveRows, browser, MapOK, MapTypeOK
  <1>4. ASSUME NEW p \in Time, SetKey(g, p)
        PROVE  MapOK'
    <2>1. written' \in [MapTruck -> Time \union {Null}]
      BY <1>1, <1>4 DEF SetKey, MapOK, MapTypeOK
    <2>2. keyed' \subseteq MapTruck /\ overlapped' \subseteq MapTruck
      BY <1>1, <1>4 DEF SetKey, MapOK, MapTypeOK
    <2>3. QED
      BY <1>2, <1>4, <2>1, <2>2 DEF SetKey, browser, MapOK, MapTypeOK
  <1>5. ASSUME NEW p \in Time, Push(g, p)
        PROVE  MapOK'
    <2>1. pushed' \in [MapTruck -> Time \union {Null}] /\ untold' \subseteq MapTruck
      BY <1>1, <1>5 DEF Push, MapOK, MapTypeOK
    <2>2. QED
      BY <1>2, <1>5, <2>1 DEF Push, MapOK, MapTypeOK
  <1>6. CASE GpsDies(g)
    <2>1. late' \subseteq MapTruck /\ untold' \subseteq MapTruck
      BY <1>1, <1>6 DEF GpsDies, MapOK, MapTypeOK
    <2>2. QED
      BY <1>2, <1>6, <2>1 DEF GpsDies, browser, MapOK, MapTypeOK
  <1>7. QED
    BY <1>3, <1>4, <1>5, <1>6 DEF GpsStep

\* What the page does leaves the server alone.
PageStep ==
    \/ ClosePage \/ OpenMap \/ SocketChanges
    \/ \E n \in Round : ListTrucks(n)
    \/ \E n \in Round, t \in MapTruck : LiveStep(n, t) \/ LiveLost(n, t)

LEMMA PageLeavesServer ==
    ASSUME PageStep
    PROVE  UNCHANGED <<server, late, overlapped>>
  BY DEF PageStep, ClosePage, OpenMap, SocketChanges, ListTrucks, LiveStep, GetLivePosition,
         ShowLive, LiveLost

LEMMA RequestStepOK ==
    ASSUME MapOK, NEW n \in Round, NEW t \in MapTruck, NEW new \in Request,
           live' = [live EXCEPT ![n][t] = new]
    PROVE  /\ live' \in [Round -> [MapTruck -> Request]]
           /\ \A m \in Round, s \in MapTruck :
                live'[m][s] = IF m = n /\ s = t THEN new ELSE live[m][s]
  <1>1. live \in [Round -> [MapTruck -> Request]]
    BY DEF MapOK, MapTypeOK
  <1>2. [live[n] EXCEPT ![t] = new] \in [MapTruck -> Request]
    BY <1>1
  <1>3. live' = [live EXCEPT ![n] = [live[n] EXCEPT ![t] = new]]
    OBVIOUS
  <1>4. QED
    BY <1>1, <1>2, <1>3

LEMMA PageStepOK ==
    ASSUME MapOK, PageStep
    PROVE  MapOK'
  <1>0. NoRequest \in Request /\ NoPositions \in [MapTruck -> Time \union {Null}]
    BY DEF NoRequest, Request, NoPositions
  <1>1. UNCHANGED <<positions, written, keyed, gps, late, overlapped>>
    BY PageLeavesServer DEF server
  <1>2. CASE ClosePage
    <2>1. live' \in [Round -> [MapTruck -> Request]]
      BY <1>0, <1>2 DEF ClosePage, NothingUnderWay
    <2>2. QED
      BY <1>0, <1>1, <1>2, <2>1 DEF ClosePage, MapOK, MapTypeOK, GpsOK
  <1>3. CASE OpenMap
    BY <1>1, <1>3 DEF OpenMap, MapOK, MapTypeOK, GpsOK
  <1>4. CASE SocketChanges
    BY <1>1, <1>4 DEF SocketChanges, MapOK, MapTypeOK, GpsOK
  <1>5. ASSUME NEW n \in Round, ListTrucks(n)
        PROVE  MapOK'
    <2>1. [pc |-> "asked", value |-> Null] \in Request
      BY DEF Request
    <2>2. live' \in [Round -> [MapTruck -> Request]]
      BY <1>5, <2>1 DEF ListTrucks, MapOK, MapTypeOK
    <2>3. QED
      BY <1>1, <1>5, <2>2 DEF ListTrucks, MapOK, MapTypeOK, GpsOK
  <1>6. ASSUME NEW n \in Round, NEW t \in MapTruck, LiveStep(n, t) \/ LiveLost(n, t)
        PROVE  MapOK'
    <2>1. live[n][t] \in Request /\ written[t] \in Time \union {Null}
      BY DEF MapOK, MapTypeOK
    <2>2. CASE GetLivePosition(n, t)
      <3> DEFINE value == IF t \in keyed THEN written[t] ELSE Null
                 new == [pc |-> "answered", value |-> value]
      <3>1. value \in Time \union {Null}
        BY <2>1
      <3>2. live' = [live EXCEPT ![n][t] = new]
        BY <2>2 DEF GetLivePosition
      <3> HIDE DEF value
      <3>3. new \in Request
        BY <3>1 DEF Request
      <3> HIDE DEF new
      <3>4. live' \in [Round -> [MapTruck -> Request]]
        BY <3>2, <3>3, RequestStepOK
      <3>5. QED
        BY <1>1, <2>2, <3>4 DEF GetLivePosition, MapOK, MapTypeOK, GpsOK
    <2>3. CASE ShowLive(n, t)
      <3>1. live[n][t].value \in Time \union {Null}
        BY <2>1 DEF Request
      <3>2. fetched' \in [MapTruck -> Time \union {Null}]
        BY <2>3, <3>1 DEF ShowLive, MapOK, MapTypeOK
      <3>3. live' \in [Round -> [MapTruck -> Request]]
        BY <1>0, <2>3, RequestStepOK DEF ShowLive
      <3>4. QED
        BY <1>1, <2>3, <3>2, <3>3 DEF ShowLive, MapOK, MapTypeOK, GpsOK
    <2>4. CASE LiveLost(n, t)
      <3>1. live' \in [Round -> [MapTruck -> Request]]
        BY <1>0, <2>4, RequestStepOK DEF LiveLost
      <3>2. QED
        BY <1>1, <2>4, <3>1 DEF LiveLost, MapOK, MapTypeOK, GpsOK
    <2>5. QED
      BY <1>6, <2>2, <2>3, <2>4 DEF LiveStep
  <1>7. QED
    BY <1>2, <1>3, <1>4, <1>5, <1>6 DEF PageStep

\* The steps of the live map by who takes them.
LEMMA MapSteps ==
    ASSUME [MapNext]_mapVars
    PROVE  \/ \E g \in GpsCall, t \in MapTruck, points \in SUBSET Time : Receive(g, t, points)
           \/ \E g \in GpsCall : GpsStep(g) \/ GpsDies(g)
           \/ \E t \in MapTruck : KeyExpires(t)
           \/ PageStep
           \/ UNCHANGED mapVars
  <1>1. ASSUME NEW g \in GpsCall, NEW t \in MapTruck, NEW p \in Time, ProcessGpsUpdate(g, t, p)
        PROVE  \E points \in SUBSET Time : Receive(g, t, points)
    BY <1>1 DEF ProcessGpsUpdate
  <1>2. QED
    BY <1>1 DEF MapNext, PageStep, ProcessBatchUpdate

LEMMA MapStepOK == MapOK /\ [MapNext]_mapVars => MapOK'
  <1> SUFFICES ASSUME MapOK, [MapNext]_mapVars
               PROVE  MapOK'
    OBVIOUS
  <1>1. ASSUME NEW t \in MapTruck, KeyExpires(t)
        PROVE  MapOK'
    BY <1>1 DEF KeyExpires, browser, MapOK, MapTypeOK, GpsOK
  <1>2. CASE UNCHANGED mapVars
    BY <1>2 DEF mapVars, MapOK, MapTypeOK, GpsOK
  <1>3. QED
    BY <1>1, <1>2, MapSteps, ReceiveOK, GpsActionsOK, PageStepOK

LEMMA MapOKAlways == MapSpec => []MapOK
  BY InitMapOK, MapStepOK, PTL DEF MapSpec

\* Rows, calls, keys and the state of the page keep their shape.
THEOREM MapTypeCorrect == MapSpec => []MapTypeOK
  <1>1. MapOK => MapTypeOK
    BY DEF MapOK
  <1>2. QED
    BY MapOKAlways, <1>1, PTL

-----------------------------------------------------------------------------

(* The live map: positions shown are stored *)

\* A call past its insert has stored its positions.
StoredFirst(g) == gps[g].pc \in {"setKey", "push"} => gps[g].points \subseteq positions[gps[g].truck]

StoredInv == NothingUnstored /\ \A g \in GpsCall : StoredFirst(g)

LEMMA StoredStep ==
    ASSUME MapOK, StoredInv, [MapNext]_mapVars
    PROVE  StoredInv'
  <1>0. /\ gps \in [GpsCall -> Call]
        /\ positions \in [MapTruck -> SUBSET Time]
        /\ written \in [MapTruck -> Time \union {Null}]
        /\ fetched \in [MapTruck -> Time \union {Null}]
        /\ pushed \in [MapTruck -> Time \union {Null}]
        /\ live \in [Round -> [MapTruck -> Request]]
    BY DEF MapOK, MapTypeOK
  <1>1. ASSUME NEW g \in GpsCall, NEW t \in MapTruck, NEW points \in SUBSET Time,
               Receive(g, t, points)
        PROVE  StoredInv'
    <2>1. StoredFirst(g)'
      BY <1>0, <1>1 DEF Receive, StoredFirst
    <2>2. \A h \in GpsCall \ {g} : StoredFirst(h)'
      BY <1>0, <1>1 DEF Receive, StoredInv, StoredFirst
    <2>3. NothingUnstored'
      BY <1>1 DEF Receive, browser, StoredInv, NothingUnstored
    <2>4. QED
      BY <2>1, <2>2, <2>3 DEF StoredInv
  <1>2. ASSUME NEW g \in GpsCall, GpsStep(g) \/ GpsDies(g)
        PROVE  StoredInv'
    <2>0. gps[g].truck \in MapTruck /\ gps[g] \in Call
      BY <1>2 DEF GpsStep, GpsDies, SaveRows, SetKey, Push, MapOK, MapTypeOK, GpsOK, NoCall
    <2>1. CASE SaveRows(g)
      <3>1. \A t \in MapTruck : positions[t] \subseteq positions'[t]
        BY <1>0, <2>1 DEF SaveRows
      <3>2. NothingUnstored'
        BY <2>1, <3>1 DEF SaveRows, browser, StoredInv, NothingUnstored
      <3>3. gps'[g] = [gps[g] EXCEPT !.pc = "setKey"]
        BY <1>0, <2>1 DEF SaveRows, GpsGoto
      <3>4. gps'[g].points = gps[g].points /\ gps'[g].truck = gps[g].truck
        BY <2>0, <3>3 DEF Call
      <3>5. gps[g].points \subseteq positions'[gps[g].truck]
        BY <1>0, <2>0, <2>1 DEF SaveRows
      <3>6. StoredFirst(g)'
        BY <3>4, <3>5 DEF StoredFirst
      <3>7. ASSUME NEW h \in GpsCall \ {g}
            PROVE  StoredFirst(h)'
        <4>1. gps'[h] = gps[h]
          BY <1>0, <2>1 DEF SaveRows, GpsGoto
        <4>2. gps[h].pc \in {"setKey", "push"} => gps[h].truck \in MapTruck
          BY DEF MapOK, GpsOK, NoCall
        <4>3. QED
          BY <3>1, <4>1, <4>2 DEF StoredInv, StoredFirst
      <3>8. QED
        BY <3>2, <3>6, <3>7 DEF StoredInv
    <2>2. ASSUME NEW p \in Time, SetKey(g, p)
          PROVE  StoredInv'
      <3>1. p \in positions[gps[g].truck]
        BY <2>2 DEF SetKey, IsLatest, StoredInv, StoredFirst
      <3>2. \A t \in MapTruck : written'[t] = IF t = gps[g].truck THEN p ELSE written[t]
        BY <1>0, <2>2 DEF SetKey
      <3>3. NothingUnstored'
        BY <2>2, <3>1, <3>2 DEF SetKey, browser, StoredInv, NothingUnstored
      <3>4. gps'[g] = [gps[g] EXCEPT !.pc = "push"]
        BY <1>0, <2>2 DEF SetKey, GpsGoto
      <3>5. gps'[g].points = gps[g].points /\ gps'[g].truck = gps[g].truck
        BY <2>0, <3>4 DEF Call
      <3>6. StoredFirst(g)'
        BY <2>2, <3>5 DEF SetKey, StoredInv, StoredFirst
      <3>7. \A h \in GpsCall \ {g} : StoredFirst(h)'
        BY <1>0, <2>2 DEF SetKey, GpsGoto, StoredInv, StoredFirst
      <3>8. QED
        BY <3>3, <3>6, <3>7 DEF StoredInv
    <2>3. ASSUME NEW p \in Time, Push(g, p)
          PROVE  StoredInv'
      <3>1. p \in positions[gps[g].truck]
        BY <2>3 DEF Push, IsLatest, StoredInv, StoredFirst
      <3>2. \A t \in MapTruck : pushed'[t] = pushed[t] \/ (pushed'[t] = p /\ t = gps[g].truck)
        BY <1>0, <2>3 DEF Push
      <3>3. NothingUnstored'
        BY <2>3, <3>1, <3>2 DEF Push, StoredInv, NothingUnstored
      <3>4. \A h \in GpsCall : StoredFirst(h)'
        BY <1>0, <2>3 DEF Push, StoredInv, StoredFirst, NoCall
      <3>5. QED
        BY <3>3, <3>4 DEF StoredInv
    <2>4. CASE GpsDies(g)
      <3>1. NothingUnstored'
        BY <2>4 DEF GpsDies, browser, StoredInv, NothingUnstored
      <3>2. \A h \in GpsCall : StoredFirst(h)'
        BY <1>0, <2>4 DEF GpsDies, StoredInv, StoredFirst, NoCall
      <3>3. QED
        BY <3>1, <3>2 DEF StoredInv
    <2>5. QED
      BY <1>2, <2>1, <2>2, <2>3, <2>4 DEF GpsStep
  <1>3. ASSUME NEW t \in MapTruck, KeyExpires(t)
        PROVE  StoredInv'
    BY <1>3 DEF KeyExpires, browser, StoredInv, StoredFirst, NothingUnstored
  <1>4. CASE PageStep
    <2>1. UNCHANGED <<positions, written, gps>> /\ \A g \in GpsCall : StoredFirst(g)'
      BY <1>4, PageLeavesServer DEF server, StoredInv, StoredFirst
    <2> SUFFICES ASSUME NEW t \in MapTruck
                 PROVE  /\ {fetched'[t], pushed'[t]} \subseteq positions[t] \union {Null}
                        /\ \A n \in Round : live'[n][t].value \in positions[t] \union {Null}
      BY <2>1 DEF StoredInv, NothingUnstored
    <2>2. /\ {written[t], fetched[t], pushed[t]} \subseteq positions[t] \union {Null}
          /\ \A n \in Round : live[n][t].value \in positions[t] \union {Null}
      BY DEF StoredInv, NothingUnstored
    <2>3. CASE ClosePage
      BY <2>3 DEF ClosePage, NoPositions, NothingUnderWay, NoRequest
    <2>4. CASE OpenMap \/ SocketChanges
      BY <2>2, <2>4 DEF OpenMap, SocketChanges
    <2>5. ASSUME NEW n \in Round, ListTrucks(n)
          PROVE  /\ {fetched'[t], pushed'[t]} \subseteq positions[t] \union {Null}
                 /\ \A m \in Round : live'[m][t].value \in positions[t] \union {Null}
      BY <1>0, <2>2, <2>5 DEF ListTrucks
    <2>6. ASSUME NEW n \in Round, NEW s \in MapTruck, LiveStep(n, s) \/ LiveLost(n, s)
          PROVE  /\ {fetched'[t], pushed'[t]} \subseteq positions[t] \union {Null}
                 /\ \A m \in Round : live'[m][t].value \in positions[t] \union {Null}
      <3>1. CASE GetLivePosition(n, s)
        BY <1>0, <2>2, <3>1 DEF GetLivePosition
      <3>2. CASE ShowLive(n, s)
        BY <1>0, <2>2, <3>2 DEF ShowLive, NoRequest
      <3>3. CASE LiveLost(n, s)
        BY <1>0, <2>2, <3>3 DEF LiveLost, NoRequest
      <3>4. QED
        BY <2>6, <3>1, <3>2, <3>3 DEF LiveStep
    <2>7. QED
      BY <1>4, <2>3, <2>4, <2>5, <2>6 DEF PageStep
  <1>5. CASE UNCHANGED mapVars
    BY <1>5 DEF mapVars, StoredInv, StoredFirst, NothingUnstored
  <1>6. QED
    BY <1>1, <1>2, <1>3, <1>4, <1>5, MapSteps

\* What a key, an answer or the page holds is a stored row, for any number of calls,
\* failures and requests at once.
THEOREM NothingUnstoredHolds == MapSpec => []NothingUnstored
  <1>1. MapInit => StoredInv
    BY DEF MapInit, StoredInv, StoredFirst, NothingUnstored, NoPositions, NoCall,
           NothingUnderWay, NoRequest
  <1>2. MapOK /\ StoredInv /\ [MapNext]_mapVars => StoredInv'
    BY StoredStep
  <1>3. StoredInv => NothingUnstored
    BY DEF StoredInv
  <1>4. QED
    BY <1>1, <1>2, <1>3, MapOKAlways, PTL DEF MapSpec

-----------------------------------------------------------------------------

(* The live map: the key is the newest position *)

\* How far the only call of a truck has come, and what the key is worth meanwhile.
Newest(t) ==
    /\ \A g, h \in GpsCall : gps[g].truck = t /\ gps[h].truck = t => g = h
    /\ \A g \in GpsCall : gps[g].truck = t =>
        /\ gps[g].pc = "saveRow" => \E p \in gps[g].points : \A q \in positions[t] : q < p
        /\ gps[g].pc = "setKey" => \A q \in positions[t] : \E p \in gps[g].points : q <= p
        /\ gps[g].pc = "push" => IsLatest(written[t], positions[t])
    /\ ~AtWork(t) => \/ positions[t] = {} /\ written[t] = Null
                     \/ IsLatest(written[t], positions[t])

NewestInv == \A t \in MapTruck \ late : Newest(t)

\* A step of another truck's call.
LEMMA NewestElsewhere ==
    ASSUME MapOK, NEW t \in MapTruck, Newest(t),
           NEW g \in GpsCall, gps[g].truck # t, gps'[g].truck # t,
           \A h \in GpsCall \ {g} : gps'[h] = gps[h],
           positions'[t] = positions[t], written'[t] = written[t]
    PROVE  Newest(t)'
  <1>1. \A h \in GpsCall : gps'[h].truck = t => h # g /\ gps'[h] = gps[h]
    OBVIOUS
  <1>2. AtWork(t)' <=> AtWork(t)
    BY DEF AtWork
  <1>3. QED
    BY <1>1, <1>2 DEF Newest

LEMMA NewestStep ==
    ASSUME MapOK, StoredInv, NewestInv, [MapNext]_mapVars
    PROVE  NewestInv'
  <1> SUFFICES ASSUME NEW t \in MapTruck, t \notin late'
               PROVE  Newest(t)'
    BY DEF NewestInv
  <1>0. /\ gps \in [GpsCall -> Call]
        /\ positions \in [MapTruck -> SUBSET Time]
        /\ written \in [MapTruck -> Time \union {Null}]
        /\ \A q \in positions[t] : q \in Nat
    BY NullIsNoTime DEF MapOK, MapTypeOK
  <1>1. ASSUME t \notin late
        PROVE  Newest(t)
    BY <1>1 DEF NewestInv
  <1>2. ASSUME NEW g \in GpsCall, NEW s \in MapTruck, NEW points \in SUBSET Time,
               Receive(g, s, points)
        PROVE  Newest(t)'
    <2>1. /\ gps'[g] = [pc |-> "saveRow", truck |-> s, points |-> points]
          /\ \A h \in GpsCall \ {g} : gps'[h] = gps[h]
          /\ positions' = positions /\ written' = written
          /\ gps[g].truck = Null
      BY <1>0, <1>2 DEF Receive, NoCall
    <2>2. CASE s = t
      <3>1. ~AtWork(t) /\ \E p \in points : \A q \in positions[t] : q < p
        BY <1>2, <2>2 DEF Receive
      <3>2. \A h \in GpsCall : gps'[h].truck = t => h = g
        BY <2>1, <3>1 DEF AtWork
      <3>3. AtWork(t)'
        BY <2>1, <2>2 DEF AtWork
      <3>4. QED
        BY <2>1, <3>1, <3>2, <3>3 DEF Newest
    <2>3. CASE s # t
      <3>1. Newest(t)
        BY <1>1, <1>2, <2>3 DEF Receive
      <3>2. gps[g].truck # t /\ gps'[g].truck # t
        BY <2>1, <2>3, NullIsNoTime
      <3>3. QED
        BY <2>1, <3>1, <3>2, NewestElsewhere
    <2>4. QED
      BY <2>2, <2>3
  <1>3. ASSUME NEW g \in GpsCall, GpsStep(g)
        PROVE  Newest(t)'
    <2>0. /\ gps[g].truck \in MapTruck /\ gps[g] \in Call
          /\ Newest(t)
          /\ \A p \in gps[g].points : p \in Nat
      BY <1>1, <1>3, NullIsNoTime
      DEF GpsStep, SaveRows, SetKey, Push, MapOK, MapTypeOK, GpsOK, NoCall, Call
    <2>1. CASE SaveRows(g)
      <3>1. gps'[g] = [gps[g] EXCEPT !.pc = "setKey"] /\ \A h \in GpsCall \ {g} : gps'[h] = gps[h]
        BY <1>0, <2>1 DEF SaveRows, GpsGoto
      <3>2. /\ gps'[g].pc = "setKey" /\ gps'[g].truck = gps[g].truck
            /\ gps'[g].points = gps[g].points
        BY <2>0, <3>1 DEF Call
      <3>3. /\ written' = written
            /\ positions'[t] = IF t = gps[g].truck THEN positions[t] \union gps[g].points
                               ELSE positions[t]
        BY <1>0, <2>1 DEF SaveRows
      <3>4. CASE gps[g].truck = t
        <4>1. PICK p \in gps[g].points : \A q \in positions[t] : q < p
          BY <2>0, <2>1, <3>4 DEF SaveRows, Newest
        <4>2. \A q \in positions[t] : q <= p
          BY <1>0, <2>0, <4>1
        <4>3. \A q \in gps[g].points : q <= q
          BY <2>0
        <4>4. \A q \in positions'[t] : \E r \in gps'[g].points : q <= r
          BY <3>2, <3>3, <3>4, <4>1, <4>2, <4>3
        <4>5. \A h \in GpsCall : gps'[h].truck = t => h = g
          BY <2>0, <3>1, <3>4 DEF Newest
        <4>6. AtWork(t)'
          BY <3>2, <3>4 DEF AtWork
        <4>7. QED
          BY <3>2, <4>4, <4>5, <4>6 DEF Newest
      <3>5. CASE gps[g].truck # t
        BY <2>0, <3>1, <3>2, <3>3, <3>5, NewestElsewhere
      <3>6. QED
        BY <3>4, <3>5
    <2>2. ASSUME NEW p \in Time, SetKey(g, p)
          PROVE  Newest(t)'
      <3>1. gps'[g] = [gps[g] EXCEPT !.pc = "push"] /\ \A h \in GpsCall \ {g} : gps'[h] = gps[h]
        BY <1>0, <2>2 DEF SetKey, GpsGoto
      <3>2. gps'[g].pc = "push" /\ gps'[g].truck = gps[g].truck
        BY <2>0, <3>1 DEF Call
      <3>3. /\ positions' = positions
            /\ written'[t] = IF t = gps[g].truck THEN p ELSE written[t]
        BY <1>0, <2>2 DEF SetKey
      <3>4. CASE gps[g].truck = t
        <4>1. p \in positions[t] /\ \A q \in gps[g].points : q <= p
          BY <2>2, <3>4 DEF SetKey, IsLatest, StoredInv, StoredFirst
        <4>2. \A q \in positions[t] : \E r \in gps[g].points : q <= r
          BY <2>0, <2>2, <3>4 DEF SetKey, Newest
        <4>3. ASSUME NEW q \in positions[t]
              PROVE  q <= p
          <5>1. PICK r \in gps[g].points : q <= r
            BY <4>2
          <5>2. r <= p /\ r \in Nat /\ q \in Nat /\ p \in Nat
            BY <1>0, <2>0, <4>1, NullIsNoTime
          <5>3. QED
            BY <5>1, <5>2
        <4>4. IsLatest(written'[t], positions'[t])
          BY <3>3, <3>4, <4>1, <4>3 DEF IsLatest
        <4>5. \A h \in GpsCall : gps'[h].truck = t => h = g
          BY <2>0, <3>1, <3>4 DEF Newest
        <4>6. AtWork(t)'
          BY <3>2, <3>4 DEF AtWork
        <4>7. QED
          BY <3>2, <4>4, <4>5, <4>6 DEF Newest
      <3>5. CASE gps[g].truck # t
        BY <2>0, <3>1, <3>2, <3>3, <3>5, NewestElsewhere
      <3>6. QED
        BY <3>4, <3>5
    <2>3. ASSUME NEW p \in Time, Push(g, p)
          PROVE  Newest(t)'
      <3>1. gps'[g] = NoCall /\ \A h \in GpsCall \ {g} : gps'[h] = gps[h]
        BY <1>0, <2>3 DEF Push
      <3>2. positions' = positions /\ written' = written
        BY <2>3 DEF Push
      <3>3. gps'[g].truck = Null /\ gps'[g].pc = "idle"
        BY <3>1 DEF NoCall
      <3>4. CASE gps[g].truck = t
        <4>1. IsLatest(written[t], positions[t])
          BY <2>0, <2>3, <3>4 DEF Push, Newest
        <4>2. \A h \in GpsCall : gps'[h].truck = t => h = g
          BY <2>0, <3>1, <3>4 DEF Newest
        <4>3. IsLatest(written[t], positions[t])'
          BY <3>2, <4>1
        <4>4. QED
          BY <3>3, <4>2, <4>3 DEF Newest
      <3>5. CASE gps[g].truck # t
        BY <2>0, <3>1, <3>2, <3>3, <3>5, NewestElsewhere, NullIsNoTime
      <3>6. QED
        BY <3>4, <3>5
    <2>4. QED
      BY <1>3, <2>1, <2>2, <2>3 DEF GpsStep
  <1>4. ASSUME NEW g \in GpsCall, GpsDies(g)
        PROVE  Newest(t)'
    <2>1. /\ gps'[g] = NoCall /\ \A h \in GpsCall \ {g} : gps'[h] = gps[h]
          /\ positions' = positions /\ written' = written
          /\ gps[g].truck # t /\ Newest(t)
      BY <1>0, <1>1, <1>4 DEF GpsDies
    <2>2. QED
      BY <2>1, NewestElsewhere, NullIsNoTime DEF NoCall
  <1>5. ASSUME UNCHANGED <<gps, positions, written, late>>
        PROVE  Newest(t)'
    BY <1>1, <1>5 DEF Newest, AtWork
  <1>6. QED
    BY <1>2, <1>3, <1>4, <1>5, MapSteps, PageLeavesServer
    DEF KeyExpires, server, mapVars

-----------------------------------------------------------------------------

\* With no call at work the key holds the newest stored position, unless the last call
\* was not alone, brought nothing new, or failed: nothing compares two timestamps.
THEOREM KeyNewestHolds == MapSpec => []KeyNewest
  <1>1. MapInit => NewestInv
    BY NullIsNoTime DEF MapInit, NewestInv, Newest, NoPositions, NoCall
  <1>2. MapInit => StoredInv
    BY DEF MapInit, StoredInv, StoredFirst, NothingUnstored, NoPositions, NoCall,
           NothingUnderWay, NoRequest
  <1>3. MapOK /\ StoredInv /\ [MapNext]_mapVars => StoredInv'
    BY StoredStep
  <1>4. MapOK /\ StoredInv /\ NewestInv /\ [MapNext]_mapVars => NewestInv'
    BY NewestStep
  <1>5. NewestInv => KeyNewest
    BY DEF NewestInv, Newest, KeyNewest
  <1>6. QED
    BY <1>1, <1>2, <1>3, <1>4, <1>5, MapOKAlways, PTL DEF MapSpec

-----------------------------------------------------------------------------
(* The live map: the page and the key agree *)

Sole(t) ==
    t \notin overlapped =>
        \A g, h \in GpsCall : gps[g].truck = t /\ gps[h].truck = t => g = h

\* A call about to broadcast has the position it has set the key to.
Broadcasts(t) ==
    t \notin overlapped =>
        \A g \in GpsCall :
            gps[g].truck = t /\ gps[g].pc = "push" => IsLatest(written[t], gps[g].points)

\* A page that is closed holds nothing, one without the trucks has asked for nothing.
PageShape(t) ==
    /\ page # "listed" => fetched[t] = Null /\ \A n \in Round : live[n][t] = NoRequest
    /\ page = "closed" => pushed[t] = Null

\* What the page holds, or is about to be answered, between two broadcasts.
UpToDate(t) ==
    t \notin untold \union overlapped
        /\ (\A g \in GpsCall : gps[g].truck = t => gps[g].pc # "push") =>
    /\ pushed[t] \in {written[t], Null}
    /\ pushed[t] = Null =>
        /\ fetched[t] \in {written[t], Null}
        /\ \A n \in Round : live[n][t].pc = "answered" =>
                live[n][t].value = written[t] \/ (live[n][t].value = Null /\ t \notin keyed)
        /\ page = "listed" =>
                \/ fetched[t] = written[t] \/ t \notin keyed
                \/ \E n \in Round : live[n][t] # NoRequest

Agrees(t) ==
    /\ Sole(t) /\ Broadcasts(t) /\ PageShape(t) /\ UpToDate(t)
    /\ t \in keyed => written[t] # Null

AgreesInv == \A t \in MapTruck : Agrees(t)

\* A step that touches nothing of truck t.
LEMMA AgreesElsewhere ==
    ASSUME NEW t \in MapTruck, Agrees(t),
           \A g \in GpsCall : gps'[g].truck = t \/ gps[g].truck = t => gps'[g] = gps[g],
           page' = page, written'[t] = written[t], fetched'[t] = fetched[t],
           pushed'[t] = pushed[t], \A n \in Round : live'[n][t] = live[n][t],
           t \in keyed' => t \in keyed,
           t \in overlapped <=> t \in overlapped', t \in untold <=> t \in untold'
    PROVE  Agrees(t)'
  <1>1. Sole(t)' /\ Broadcasts(t)' /\ PageShape(t)'
    BY DEF Agrees, Sole, Broadcasts, PageShape
  <1>2. UpToDate(t)'
    BY DEF Agrees, UpToDate
  <1>3. QED
    BY <1>1, <1>2 DEF Agrees

LEMMA AgreesGpsStep ==
    ASSUME MapOK, AgreesInv, NEW t \in MapTruck, NEW g \in GpsCall, GpsStep(g) \/ GpsDies(g)
    PROVE  Agrees(t)'
  <1>0. /\ gps \in [GpsCall -> Call]
        /\ written \in [MapTruck -> Time \union {Null}]
        /\ pushed \in [MapTruck -> Time \union {Null}]
        /\ gps[g].truck \in MapTruck /\ gps[g] \in Call
        /\ Agrees(t)
    BY DEF GpsStep, GpsDies, SaveRows, SetKey, Push, MapOK, MapTypeOK, GpsOK, NoCall, AgreesInv
  <1>1. CASE SaveRows(g)
    <2>1. gps'[g] = [gps[g] EXCEPT !.pc = "setKey"] /\ \A h \in GpsCall \ {g} : gps'[h] = gps[h]
      BY <1>0, <1>1 DEF SaveRows, GpsGoto
    <2>2. gps'[g].pc = "setKey" /\ gps'[g].truck = gps[g].truck /\ gps[g].pc # "push"
      BY <1>0, <1>1, <2>1 DEF Call, SaveRows
    <2>3. UNCHANGED <<written, keyed, page, fetched, pushed, live, overlapped, untold>>
      BY <1>1 DEF SaveRows, browser
    <2>4. Sole(t)' /\ Broadcasts(t)' /\ PageShape(t)'
      BY <1>0, <2>1, <2>2, <2>3 DEF Agrees, Sole, Broadcasts, PageShape
    <2>5. (\A h \in GpsCall : gps'[h].truck = t => gps'[h].pc # "push")
            => (\A h \in GpsCall : gps[h].truck = t => gps[h].pc # "push")
      BY <2>1, <2>2
    <2>6. UpToDate(t)'
      BY <1>0, <2>3, <2>5 DEF Agrees, UpToDate
    <2>7. QED
      BY <1>0, <2>3, <2>4, <2>6 DEF Agrees
  <1>2. ASSUME NEW p \in Time, SetKey(g, p)
        PROVE  Agrees(t)'
    <2>1. gps'[g] = [gps[g] EXCEPT !.pc = "push"] /\ \A h \in GpsCall \ {g} : gps'[h] = gps[h]
      BY <1>0, <1>2 DEF SetKey, GpsGoto
    <2>2. /\ gps'[g].pc = "push" /\ gps'[g].truck = gps[g].truck
          /\ gps'[g].points = gps[g].points
      BY <1>0, <2>1 DEF Call
    <2>3. UNCHANGED <<page, fetched, pushed, live, untold>>
      BY <1>2 DEF SetKey, browser
    <2>4. CASE gps[g].truck = t
      <3>1. written'[t] = p /\ p # Null /\ IsLatest(p, gps[g].points)
        BY <1>0, <1>2, <2>4, NullIsNoTime DEF SetKey
      <3>2. ASSUME t \notin overlapped', NEW h \in GpsCall, h # g, gps[h].truck = t
            PROVE  FALSE
        BY <1>0, <1>2, <2>4, <3>2 DEF SetKey, Agrees, Sole
      <3>3. Sole(t)' /\ Broadcasts(t)'
        BY <2>1, <2>2, <2>4, <3>1, <3>2 DEF Sole, Broadcasts
      <3>4. PageShape(t)'
        BY <1>0, <2>3 DEF Agrees, PageShape
      <3>5. UpToDate(t)'
        BY <2>2, <2>4 DEF UpToDate
      <3>6. QED
        BY <3>1, <3>3, <3>4, <3>5 DEF Agrees
    <2>5. CASE gps[g].truck # t
      <3>1. /\ written'[t] = written[t] /\ (t \in keyed' <=> t \in keyed)
            /\ (t \in overlapped <=> t \in overlapped')
        BY <1>0, <1>2, <2>5 DEF SetKey
      <3>2. QED
        BY <1>0, <2>1, <2>2, <2>3, <2>5, <3>1, AgreesElsewhere
    <2>6. QED
      BY <2>4, <2>5
  <1>3. ASSUME NEW p \in Time, Push(g, p)
        PROVE  Agrees(t)'
    <2>1. gps'[g] = NoCall /\ \A h \in GpsCall \ {g} : gps'[h] = gps[h]
      BY <1>0, <1>3 DEF Push
    <2>2. gps'[g].truck = Null
      BY <2>1 DEF NoCall
    <2>3. UNCHANGED <<written, keyed, page, fetched, live, overlapped>>
      BY <1>3 DEF Push
    <2>4. CASE gps[g].truck = t
      <3>1. Sole(t)' /\ Broadcasts(t)'
        BY <1>0, <2>1, <2>2, <2>3, NullIsNoTime DEF Agrees, Sole, Broadcasts
      <3>2. CASE Hears
        <4>1. pushed'[t] = p /\ p # Null
          BY <1>0, <1>3, <2>4, <3>2, NullIsNoTime DEF Push
        <4>2. PageShape(t)'
          BY <1>0, <2>3, <3>2 DEF Agrees, PageShape, Hears
        <4>3. ASSUME t \notin overlapped
              PROVE  p = written[t]
          <5>1. IsLatest(written[t], gps[g].points) /\ IsLatest(p, gps[g].points)
            BY <1>0, <1>3, <2>4, <4>3 DEF Push, Agrees, Broadcasts
          <5>2. p <= written[t] /\ written[t] <= p /\ p \in Nat
            BY <5>1, NullIsNoTime DEF IsLatest
          <5>3. written[t] \in Nat
            BY <1>0, <5>1, NullIsNoTime DEF IsLatest, Call
          <5>4. QED
            BY <5>2, <5>3
        <4>4. UpToDate(t)'
          BY <2>3, <4>1, <4>3 DEF UpToDate
        <4>5. QED
          BY <1>0, <2>3, <3>1, <4>2, <4>4 DEF Agrees
      <3>3. CASE ~Hears
        <4>1. t \in untold' /\ pushed' = pushed
          BY <1>0, <1>3, <2>4, <3>3 DEF Push
        <4>2. PageShape(t)' /\ UpToDate(t)'
          BY <1>0, <2>3, <4>1 DEF Agrees, PageShape, UpToDate
        <4>3. QED
          BY <1>0, <2>3, <3>1, <4>2 DEF Agrees
      <3>4. QED
        BY <3>2, <3>3
    <2>5. CASE gps[g].truck # t
      <3>1. pushed'[t] = pushed[t] /\ (t \in untold <=> t \in untold')
        BY <1>0, <1>3, <2>5 DEF Push
      <3>2. QED
        BY <1>0, <2>1, <2>2, <2>3, <2>5, <3>1, AgreesElsewhere, NullIsNoTime
    <2>6. QED
      BY <2>4, <2>5
  <1>4. CASE GpsDies(g)
    <2>1. gps'[g] = NoCall /\ \A h \in GpsCall \ {g} : gps'[h] = gps[h]
      BY <1>0, <1>4 DEF GpsDies
    <2>2. gps'[g].truck = Null
      BY <2>1 DEF NoCall
    <2>3. UNCHANGED <<written, keyed, page, fetched, pushed, live, overlapped>>
      BY <1>4 DEF GpsDies, browser
    <2>4. CASE gps[g].truck = t
      <3>1. Sole(t)' /\ Broadcasts(t)' /\ PageShape(t)'
        BY <1>0, <2>1, <2>2, <2>3, NullIsNoTime DEF Agrees, Sole, Broadcasts, PageShape
      <3>2. CASE gps[g].pc = "push"
        <4>1. t \in untold'
          BY <1>4, <2>4, <3>2 DEF GpsDies
        <4>2. UpToDate(t)'
          BY <4>1 DEF UpToDate
        <4>3. QED
          BY <1>0, <2>3, <3>1, <4>2 DEF Agrees
      <3>3. CASE gps[g].pc # "push"
        <4>1. (\A h \in GpsCall : gps'[h].truck = t => gps'[h].pc # "push")
                => (\A h \in GpsCall : gps[h].truck = t => gps[h].pc # "push")
          BY <2>1, <3>3
        <4>2. untold' = untold
          BY <1>4, <3>3 DEF GpsDies
        <4>3. UpToDate(t)'
          BY <1>0, <2>3, <4>1, <4>2 DEF Agrees, UpToDate
        <4>4. QED
          BY <1>0, <2>3, <3>1, <4>3 DEF Agrees
      <3>4. QED
        BY <3>2, <3>3
    <2>5. CASE gps[g].truck # t
      <3>1. t \in untold <=> t \in untold'
        BY <1>4, <2>5 DEF GpsDies
      <3>2. QED
        BY <1>0, <2>1, <2>2, <2>3, <2>5, <3>1, AgreesElsewhere, NullIsNoTime
    <2>6. QED
      BY <2>4, <2>5
  <1>5. QED
    BY <1>1, <1>2, <1>3, <1>4 DEF GpsStep

LEMMA AgreesPageStep ==
    ASSUME MapOK, AgreesInv, NEW t \in MapTruck, PageStep
    PROVE  Agrees(t)'
  <1>0. /\ live \in [Round -> [MapTruck -> Request]]
        /\ written \in [MapTruck -> Time \union {Null}]
        /\ fetched \in [MapTruck -> Time \union {Null}]
        /\ Agrees(t) /\ PageShape(t)
    BY DEF MapOK, MapTypeOK, AgreesInv, Agrees
  <1>1. UNCHANGED <<gps, written, keyed, overlapped>>
    BY PageLeavesServer DEF server
  <1>2. Sole(t)' /\ Broadcasts(t)'
    BY <1>0, <1>1 DEF Agrees, Sole, Broadcasts
  <1>3. CASE ClosePage
    <2>1. /\ page' = "closed" /\ fetched'[t] = Null /\ pushed'[t] = Null
          /\ \A n \in Round : live'[n][t] = NoRequest
      BY <1>3 DEF ClosePage, NoPositions, NothingUnderWay
    <2>2. PageShape(t)' /\ UpToDate(t)'
      BY <2>1 DEF PageShape, UpToDate, NoRequest
    <2>3. QED
      BY <1>0, <1>1, <1>2, <2>2 DEF Agrees
  <1>4. CASE OpenMap
    <2>1. /\ page' = "opened" /\ fetched'[t] = Null /\ pushed'[t] = Null
          /\ \A n \in Round : live'[n][t] = NoRequest
      BY <1>0, <1>4 DEF OpenMap, PageShape
    <2>2. PageShape(t)' /\ UpToDate(t)'
      BY <2>1 DEF PageShape, UpToDate, NoRequest
    <2>3. QED
      BY <1>0, <1>1, <1>2, <2>2 DEF Agrees
  <1>5. CASE SocketChanges
    <2>1. UNCHANGED <<page, fetched, pushed, live, untold>>
      BY <1>5 DEF SocketChanges
    <2>2. PageShape(t)' /\ UpToDate(t)'
      BY <1>0, <1>1, <2>1 DEF Agrees, PageShape, UpToDate
    <2>3. QED
      BY <1>0, <1>1, <1>2, <2>2 DEF Agrees
  <1>6. ASSUME NEW n \in Round, ListTrucks(n)
        PROVE  Agrees(t)'
    <2>1. /\ page' = "listed" /\ UNCHANGED <<fetched, pushed, untold>>
          /\ live'[n][t] = [pc |-> "asked", value |-> Null]
          /\ \A m \in Round \ {n} : live'[m][t] = live[m][t]
      BY <1>0, <1>6 DEF ListTrucks
    <2>2. live'[n][t] # NoRequest /\ live'[n][t].pc # "answered"
      BY <2>1 DEF NoRequest
    <2>3. UpToDate(t)'
      BY <1>0, <1>1, <2>1, <2>2 DEF Agrees, UpToDate
    <2>4. PageShape(t)'
      BY <2>1 DEF PageShape
    <2>5. QED
      BY <1>0, <1>1, <1>2, <2>3, <2>4 DEF Agrees
  <1>7. ASSUME NEW n \in Round, NEW s \in MapTruck, LiveStep(n, s) \/ LiveLost(n, s)
        PROVE  Agrees(t)'
    <2>0. NoRequest \in Request /\ live[n][s] \in Request
      BY <1>0 DEF NoRequest, Request
    <2>1. page' = page /\ pushed' = pushed
      BY <1>7 DEF LiveStep, GetLivePosition, ShowLive, LiveLost
    <2>2. CASE s # t
      <3>1. /\ fetched'[t] = fetched[t] /\ (t \in untold <=> t \in untold')
            /\ \A m \in Round : live'[m][t] = live[m][t]
        BY <1>0, <1>7, <2>2 DEF LiveStep, GetLivePosition, ShowLive, LiveLost
      <3>2. QED
        BY <1>0, <1>1, <2>1, <3>1, AgreesElsewhere
    <2>3. CASE s = t
      <3>1. live[n][t] # NoRequest /\ page = "listed"
        BY <1>0, <1>7, <2>3
        DEF LiveStep, GetLivePosition, ShowLive, LiveLost, NoRequest, MapOK, MapTypeOK, PageShape
      <3>2. PageShape(t)'
        BY <2>1, <3>1 DEF PageShape
      <3>3. CASE GetLivePosition(n, t)
        <4> DEFINE value == IF t \in keyed THEN written[t] ELSE Null
        <4>1. /\ live'[n][t] = [pc |-> "answered", value |-> value]
              /\ \A m \in Round \ {n} : live'[m][t] = live[m][t]
              /\ UNCHANGED <<fetched, untold>>
          BY <1>0, <3>3 DEF GetLivePosition
        <4>2. value = written[t] \/ (value = Null /\ t \notin keyed)
          OBVIOUS
        <4> HIDE DEF value
        <4>3. live'[n][t] # NoRequest /\ live'[n][t].value = value
          BY <4>1 DEF NoRequest
        <4>4. UpToDate(t)'
          BY <1>0, <1>1, <2>1, <4>1, <4>2, <4>3 DEF Agrees, UpToDate
        <4>5. QED
          BY <1>0, <1>1, <1>2, <3>2, <4>4 DEF Agrees
      <3>4. CASE ShowLive(n, t)
        <4>1. /\ live'[n][t] = NoRequest
              /\ \A m \in Round \ {n} : live'[m][t] = live[m][t]
              /\ untold' = untold
              /\ fetched'[t] = IF live[n][t].value = Null THEN fetched[t] ELSE live[n][t].value
              /\ live[n][t].pc = "answered"
          BY <1>0, <3>4 DEF ShowLive
        <4>2. live'[n][t].pc # "answered"
          BY <4>1 DEF NoRequest
        <4>3. ASSUME t \notin untold \union overlapped, pushed[t] = Null,
                     \A g \in GpsCall : gps[g].truck = t => gps[g].pc # "push"
              PROVE  /\ fetched'[t] \in {written[t], Null}
                     /\ fetched'[t] = written[t] \/ t \notin keyed
          BY <1>0, <4>1, <4>3 DEF Agrees, UpToDate
        <4>4. UpToDate(t)'
          BY <1>0, <1>1, <2>1, <4>1, <4>2, <4>3 DEF Agrees, UpToDate
        <4>5. QED
          BY <1>0, <1>1, <1>2, <3>2, <4>4 DEF Agrees
      <3>5. CASE LiveLost(n, t)
        <4>1. t \in untold'
          BY <3>5 DEF LiveLost
        <4>2. UpToDate(t)'
          BY <4>1 DEF UpToDate
        <4>3. QED
          BY <1>0, <1>1, <1>2, <3>2, <4>2 DEF Agrees
      <3>6. QED
        BY <1>7, <2>3, <3>3, <3>4, <3>5 DEF LiveStep
    <2>4. QED
      BY <2>2, <2>3
  <1>8. QED
    BY <1>3, <1>4, <1>5, <1>6, <1>7 DEF PageStep

LEMMA AgreesStep ==
    ASSUME MapOK, AgreesInv, [MapNext]_mapVars
    PROVE  AgreesInv'
  <1> SUFFICES ASSUME NEW t \in MapTruck
               PROVE  Agrees(t)'
    BY DEF AgreesInv
  <1>0. gps \in [GpsCall -> Call] /\ Agrees(t)
    BY DEF MapOK, MapTypeOK, AgreesInv
  <1>1. ASSUME NEW g \in GpsCall, NEW s \in MapTruck, NEW points \in SUBSET Time,
               Receive(g, s, points)
        PROVE  Agrees(t)'
    <2>1. /\ gps'[g] = [pc |-> "saveRow", truck |-> s, points |-> points]
          /\ \A h \in GpsCall \ {g} : gps'[h] = gps[h]
          /\ gps[g].truck = Null
      BY <1>0, <1>1 DEF Receive, NoCall
    <2>2. UNCHANGED <<written, keyed, page, fetched, pushed, live, untold>>
      BY <1>1 DEF Receive, browser
    <2>3. CASE s # t
      <3>1. t \in overlapped <=> t \in overlapped'
        BY <1>1, <2>3 DEF Receive
      <3>2. QED
        BY <1>0, <2>1, <2>2, <2>3, <3>1, AgreesElsewhere, NullIsNoTime
    <2>4. CASE s = t
      <3>1. t \notin overlapped' => t \notin overlapped /\ ~AtWork(t)
        BY <1>1, <2>4 DEF Receive
      <3>2. Sole(t)'
        BY <2>1, <3>1 DEF Sole, AtWork
      <3>3. Broadcasts(t)' /\ PageShape(t)'
        BY <1>0, <2>1, <2>2, <3>1 DEF Agrees, Broadcasts, PageShape
      <3>4. t \notin overlapped' => \A h \in GpsCall : gps[h].truck = t => gps[h].pc # "push"
        BY <3>1 DEF AtWork
      <3>5. UpToDate(t)'
        BY <1>0, <2>2, <3>1, <3>4 DEF Agrees, UpToDate
      <3>6. QED
        BY <1>0, <2>2, <3>2, <3>3, <3>5 DEF Agrees
    <2>5. QED
      BY <2>3, <2>4
  <1>2. ASSUME NEW s \in MapTruck, KeyExpires(s)
        PROVE  Agrees(t)'
    <2>1. /\ UNCHANGED <<gps, written, page, fetched, pushed, live, overlapped, untold>>
          /\ keyed' \subseteq keyed
      BY <1>2 DEF KeyExpires, browser
    <2>2. Sole(t)' /\ Broadcasts(t)' /\ PageShape(t)'
      BY <1>0, <2>1 DEF Agrees, Sole, Broadcasts, PageShape
    <2>3. UpToDate(t)'
      BY <1>0, <2>1 DEF Agrees, UpToDate
    <2>4. QED
      BY <1>0, <2>1, <2>2, <2>3 DEF Agrees
  <1>3. CASE UNCHANGED mapVars
    BY <1>0, <1>3, AgreesElsewhere DEF mapVars
  <1>4. QED
    BY <1>1, <1>2, <1>3, MapSteps, AgreesGpsStep, AgreesPageStep

\* Once nothing of a truck is under way, the page shows what its key was last set to,
\* whichever way fetched and pushed positions came in (fetched ones never lie over pushed
\* ones), unless the page was not told or calls of the truck overlapped.
THEOREM MapAgreesHolds == MapSpec => []MapAgrees
  <1>1. MapInit => AgreesInv
    <2> SUFFICES ASSUME MapInit, NEW t \in MapTruck
                 PROVE  Agrees(t)
      BY DEF AgreesInv
    <2>1. /\ written[t] = Null /\ pushed[t] = Null /\ fetched[t] = Null
          /\ \A n \in Round : live[n][t] = NoRequest
          /\ \A g \in GpsCall : gps[g].truck = Null
          /\ page = "closed" /\ keyed = {}
      BY DEF MapInit, NoPositions, NothingUnderWay, NoCall
    <2>2. Sole(t) /\ Broadcasts(t) /\ PageShape(t)
      BY <2>1, NullIsNoTime DEF Sole, Broadcasts, PageShape
    <2>3. UpToDate(t)
      BY <2>1 DEF UpToDate, NoRequest
    <2>4. QED
      BY <2>1, <2>2, <2>3 DEF Agrees
  <1>2. MapOK /\ AgreesInv /\ [MapNext]_mapVars => AgreesInv'
    BY AgreesStep
  <1>3. MapOK /\ AgreesInv => MapAgrees
    <2> SUFFICES ASSUME MapOK, AgreesInv, page = "listed",
                        NEW t \in MapTruck \ (untold \union overlapped), ~AtWork(t),
                        \A n \in Round : live[n][t] = NoRequest
                 PROVE  Shown(t) = written[t] \/ (Shown(t) = Null /\ t \notin keyed)
      BY DEF MapAgrees
    <2>1. UpToDate(t) /\ \A g \in GpsCall : gps[g].truck # t
      BY DEF AgreesInv, Agrees, AtWork
    <2>2. /\ pushed[t] \in {written[t], Null}
          /\ pushed[t] = Null => /\ fetched[t] \in {written[t], Null}
                                 /\ fetched[t] = written[t] \/ t \notin keyed
      BY <2>1 DEF UpToDate
    <2>3. QED
      BY <2>2 DEF Shown
  <1>4. QED
    BY <1>1, <1>2, <1>3, MapOKAlways, PTL DEF MapSpec

-----------------------------------------------------------------------------

(* The fuel log: counting *)

\* What the first k places of a list hold.
Places(s, k) == {s[j] : j \in 1 .. k}

\* In a list without repetitions they hold k entries.
LEMMA FirstPlaces ==
    ASSUME NEW n \in Nat, NEW s, \A i, j \in 1 .. n : s[i] = s[j] => i = j, NEW k \in 0 .. n
    PROVE  IsFiniteSet(Places(s, k)) /\ Cardinality(Places(s, k)) = k
  <1> DEFINE f == [j \in 1 .. k |-> s[j]]
  <1>1. k \in Nat /\ 1 .. k \subseteq 1 .. n
    OBVIOUS
  <1>2. f \in Bijection(1 .. k, Places(s, k))
    <2>1. f \in [1 .. k -> Places(s, k)] /\ \A i, j \in 1 .. k : f[i] = f[j] => i = j
      BY <1>1 DEF Places
    <2>2. \A x \in Places(s, k) : \E j \in 1 .. k : f[j] = x
      BY DEF Places
    <2> HIDE DEF f
    <2>3. QED
      BY <2>1, <2>2 DEF Bijection, Injection, Surjection, IsInjective
  <1>3. ExistsBijection(1 .. k, Places(s, k))
    BY <1>2 DEF ExistsBijection
  <1>4. IsFiniteSet(1 .. k) /\ Cardinality(1 .. k) = k
    BY <1>1, FS_Interval
  <1>5. QED
    BY <1>3, <1>4, FS_Bijection

\* A list of as many places as there are entries, without repetitions, has them all.
LEMMA AllPlaces ==
    ASSUME NEW S, IsFiniteSet(S), NEW n, n = Cardinality(S), NEW s \in [1 .. n -> S],
           \A i, j \in 1 .. n : s[i] = s[j] => i = j
    PROVE  S = Places(s, n)
  <1>1. n \in Nat /\ n \in 0 .. n
    BY FS_CardinalityType
  <1>2. Cardinality(Places(s, n)) = n
    BY <1>1, FirstPlaces
  <1>3. Places(s, n) \subseteq S
    BY DEF Places
  <1>4. QED
    BY <1>2, <1>3, FS_Subset

LEMMA SmallerSet ==
    ASSUME NEW S \in SUBSET FuelEntry, NEW T \in SUBSET S
    PROVE  /\ IsFiniteSet(S) /\ IsFiniteSet(T)
           /\ Cardinality(S) \in Nat /\ Cardinality(T) \in Nat
           /\ Cardinality(T) <= Cardinality(S)
  <1>1. IsFiniteSet(S)
    BY FuelAssumption, FS_Subset
  <1>2. IsFiniteSet(T) /\ Cardinality(T) <= Cardinality(S)
    BY <1>1, FS_Subset
  <1>3. QED
    BY <1>1, <1>2, FS_CardinalityType

-----------------------------------------------------------------------------
(* The fuel log: shapes *)

LEMMA FoundAreEntries == \A f, type : Found(f, type) \subseteq FuelEntry
  BY DEF Found, Entered

LEMMA FuelStepOK == FuelTypeOK /\ [FuelNext]_fuelVars => FuelTypeOK'
  <1> SUFFICES ASSUME FuelTypeOK, [FuelNext]_fuelVars
               PROVE  FuelTypeOK'
    OBVIOUS
  <1>0. /\ fuelRows \in [FuelEntry -> FuelRow \union {NoRow}]
        /\ walk \in Walk
    BY DEF FuelTypeOK
  <1>1. ASSUME NEW e \in FuelEntry, NEW h \in Haul, NEW type \in FuelEntryType,
               NEW at \in Moment, NEW driver, CreateEntry(e, driver, h, type, at)
        PROVE  FuelTypeOK'
    <2>1. [type |-> type, truck |-> HaulTruck[h], at |-> at] \in FuelRow
      BY DEF FuelRow, DieselRow, AdblueRow, HaulTrucks, FuelEntryType
    <2>2. fuelRows' \in [FuelEntry -> FuelRow \union {NoRow}] /\ walk' = walk
      BY <1>0, <1>1, <2>1 DEF CreateEntry
    <2>3. QED
      BY <1>0, <2>2 DEF FuelTypeOK
  <1>2. ASSUME NEW f \in Filter, OpenList(f)
        PROVE  FuelTypeOK'
    <2> DEFINE there == UNION {Found(f, type) : type \in FuelEntryType}
    <2>1. there \in SUBSET FuelEntry /\ NoPart \in [FuelEntryType -> (SUBSET FuelEntry) \union {Null}]
      BY FoundAreEntries DEF NoPart
    <2>2. walk' = [pc |-> "reading", filter |-> f, page |-> 1, part |-> NoPart,
                   there |-> there, seen |-> {}]
      BY <1>2 DEF OpenList
    <2> HIDE DEF there
    <2>3. walk' \in Walk
      BY <2>1, <2>2 DEF Walk
    <2>4. QED
      BY <1>0, <1>2, <2>3 DEF FuelTypeOK, OpenList
  <1>3. ASSUME NEW type \in FuelEntryType, SelectLog(type)
        PROVE  FuelTypeOK'
    <2> DEFINE part == [walk.part EXCEPT ![type] = Found(walk.filter, type)]
    <2>1. part \in [FuelEntryType -> (SUBSET FuelEntry) \union {Null}]
      BY <1>0, FoundAreEntries DEF Walk
    <2>2. walk' = [walk EXCEPT !.part = part]
      BY <1>3 DEF SelectLog
    <2> HIDE DEF part
    <2>3. walk' \in Walk
      BY <1>0, <2>1, <2>2 DEF Walk
    <2>4. QED
      BY <1>0, <1>3, <2>3 DEF FuelTypeOK, SelectLog
  <1>4. CASE AnswerPage
    <2>1. Merged \subseteq FuelEntry
      BY <1>0, <1>4 DEF AnswerPage, Merged, Walk, FuelEntryType
    <2>2. PICK s \in Sorted(Merged) :
            walk' = [walk EXCEPT !.pc = IF walk.page * PageSize >= Cardinality(Merged)
                                        THEN "done" ELSE "between",
                                 !.seen = @ \union Slice(s, walk.page), !.part = NoPart]
      BY <1>4 DEF AnswerPage
    <2> DEFINE pc == IF walk.page * PageSize >= Cardinality(Merged) THEN "done" ELSE "between"
               seen == walk.seen \union Slice(s, walk.page)
    <2>3. Slice(s, walk.page) \subseteq FuelEntry
      BY <2>1 DEF Slice, Sorted
    <2>4. /\ pc \in {"idle", "reading", "between", "done"} /\ seen \in SUBSET FuelEntry
          /\ NoPart \in [FuelEntryType -> (SUBSET FuelEntry) \union {Null}]
      BY <1>0, <2>3 DEF Walk, NoPart
    <2>5. walk' = [walk EXCEPT !.pc = pc, !.seen = seen, !.part = NoPart]
      BY <2>2
    <2> HIDE DEF pc, seen
    <2>6. walk' \in Walk
      BY <1>0, <2>4, <2>5 DEF Walk
    <2>7. QED
      BY <1>0, <1>4, <2>6 DEF FuelTypeOK, AnswerPage
  <1>5. CASE AskNextPage
    <2>1. walk.page + 1 \in Nat
      BY <1>0 DEF Walk
    <2>2. walk' = [walk EXCEPT !.pc = "reading", !.page = walk.page + 1]
      BY <1>5 DEF AskNextPage
    <2>3. walk' \in Walk
      BY <1>0, <2>1, <2>2 DEF Walk
    <2>4. QED
      BY <1>0, <1>5, <2>3 DEF AskNextPage, FuelTypeOK
  <1>6. CASE CloseList
    <2>1. NoWalk \in Walk
      BY DEF NoWalk, NoPart, Walk, Filter
    <2>2. QED
      BY <1>0, <1>6, <2>1 DEF CloseList, FuelTypeOK
  <1>7. CASE UNCHANGED fuelVars
    BY <1>0, <1>7 DEF fuelVars, FuelTypeOK
  <1>8. QED
    BY <1>1, <1>2, <1>3, <1>4, <1>5, <1>6, <1>7 DEF FuelNext

\* Entries and the walk through the list keep their shape.
THEOREM FuelTypeCorrect == FuelSpec => []FuelTypeOK
  <1>1. FuelInit => FuelTypeOK
    <2>1. NoWalk \in Walk
      BY DEF NoWalk, NoPart, Walk, Filter
    <2>2. QED
      BY <2>1 DEF FuelInit, FuelTypeOK
  <1>2. QED
    BY <1>1, FuelStepOK, PTL DEF FuelSpec

-----------------------------------------------------------------------------

(* The fuel log: a walk misses no entry *)

\* What the SELECT of a type has returned, or would return now.
View(type) == IF walk.part[type] = Null THEN Found(walk.filter, type) ELSE walk.part[type]

\* The entries before e in the list as this page sees it.
Newer(e) == {x \in View("DIESEL") \union View("ADBLUE") : fuelRows[x].at > fuelRows[e].at}

PagesAnswered == IF walk.pc = "reading" THEN walk.page - 1 ELSE walk.page

\* An entry not yet seen has at least as many before it as the pages answered could hold.
Ahead(e) ==
    ~Tied(e) => walk.pc # "done" /\ PagesAnswered * PageSize <= Cardinality(Newer(e))

WalkShape ==
    /\ walk.pc = "idle" => walk.there = {}
    /\ walk.pc # "reading" => walk.part = NoPart
    /\ walk.page >= 1
    /\ walk.there \subseteq UNION {Found(walk.filter, type) : type \in FuelEntryType}
    /\ \A type \in FuelEntryType : walk.part[type] # Null =>
            /\ walk.part[type] \subseteq Found(walk.filter, type)
            /\ walk.there \intersect Found(walk.filter, type) \subseteq walk.part[type]

WalkInv == WalkShape /\ \A e \in walk.there \ walk.seen : Ahead(e)

LEMMA NewerAreEntries ==
    ASSUME FuelTypeOK, NEW e
    PROVE  Newer(e) \in SUBSET FuelEntry
  BY FoundAreEntries DEF FuelTypeOK, Walk, Newer, View, FuelEntryType

\* A step that answers no page, brings no new list, and takes nothing out of this one.
LEMMA AheadStays ==
    ASSUME FuelTypeOK, FuelTypeOK', NEW e \in FuelEntry, Ahead(e), Tied(e) => Tied(e)',
           walk'.pc # "done" \/ walk.pc = "done", PagesAnswered' = PagesAnswered,
           Newer(e) \subseteq Newer(e)', PagesAnswered \in Nat
    PROVE  Ahead(e)'
  <1>1. Newer(e) \in SUBSET FuelEntry /\ Newer(e)' \in SUBSET FuelEntry
    BY NewerAreEntries DEF FuelTypeOK, Walk, Newer, View, FuelEntryType, Found, Entered
  <1>2. /\ Cardinality(Newer(e)) \in Nat /\ Cardinality(Newer(e)') \in Nat
        /\ Cardinality(Newer(e)) <= Cardinality(Newer(e)')
    BY <1>1, SmallerSet
  <1>3. PagesAnswered * PageSize \in Nat
    BY FuelAssumption
  <1>4. CASE Tied(e)
    BY <1>4 DEF Ahead
  <1>5. CASE ~Tied(e)
    <2>1. walk.pc # "done" /\ PagesAnswered * PageSize <= Cardinality(Newer(e))
      BY <1>5 DEF Ahead
    <2>2. PagesAnswered * PageSize <= Cardinality(Newer(e)')
      BY <1>2, <1>3, <2>1
    <2>3. walk'.pc # "done" /\ PagesAnswered' * PageSize <= Cardinality(Newer(e)')
      BY <2>1, <2>2
    <2>4. QED
      BY <2>3 DEF Ahead
  <1>6. QED
    BY <1>4, <1>5

LEMMA CreateWalk ==
    ASSUME FuelTypeOK, FuelTypeOK', WalkInv, NEW x \in FuelEntry, NEW h \in Haul,
           NEW type \in FuelEntryType, NEW at \in Moment, NEW driver,
           CreateEntry(x, driver, h, type, at)
    PROVE  WalkInv'
  <1>0. fuelRows \in [FuelEntry -> FuelRow \union {NoRow}] /\ walk \in Walk /\ walk' = walk
    BY DEF FuelTypeOK, CreateEntry
  <1>1. \A e \in Entered : fuelRows'[e] = fuelRows[e] /\ e \in Entered'
    BY <1>0 DEF CreateEntry, Entered
  <1>2. \A k \in FuelEntryType : Found(walk.filter, k) \subseteq Found(walk.filter, k)'
    BY <1>0, <1>1 DEF Found
  <1>3. walk.there \subseteq Entered
    BY DEF WalkInv, WalkShape, Found
  <1>4. \A k \in FuelEntryType :
            walk.there \intersect Found(walk.filter, k)' \subseteq Found(walk.filter, k)
    BY <1>0, <1>1, <1>3 DEF Found
  <1>5. WalkShape'
    BY <1>0, <1>2, <1>4 DEF WalkInv, WalkShape
  <1>6. ASSUME NEW e \in walk.there \ walk.seen
        PROVE  Ahead(e)'
    <2>1. e \in Entered /\ e \in FuelEntry /\ Ahead(e)
      BY <1>3 DEF WalkInv, Entered
    <2>2. Tied(e) => Tied(e)'
      BY <1>1, <2>1 DEF Tied
    <2>3. \A k \in FuelEntryType : View(k) \subseteq View(k)' /\ View(k) \subseteq Entered
      BY <1>0, <1>2 DEF View, WalkInv, WalkShape, Found
    <2>4. Newer(e) \subseteq Newer(e)'
      BY <1>1, <2>1, <2>3 DEF Newer, FuelEntryType
    <2>5. PagesAnswered' = PagesAnswered /\ PagesAnswered \in Nat
      BY <1>0 DEF PagesAnswered, Walk, WalkInv, WalkShape
    <2>6. QED
      BY <1>0, <2>1, <2>2, <2>4, <2>5, AheadStays
  <1>7. QED
    BY <1>0, <1>5, <1>6 DEF WalkInv

LEMMA SelectWalk ==
    ASSUME FuelTypeOK, FuelTypeOK', WalkInv, NEW type \in FuelEntryType, SelectLog(type)
    PROVE  WalkInv'
  <1>0. walk \in Walk /\ walk.pc = "reading" /\ UNCHANGED fuelRows
    BY DEF FuelTypeOK, SelectLog
  <1>1. /\ walk'.pc = walk.pc /\ walk'.page = walk.page /\ walk'.there = walk.there
        /\ walk'.seen = walk.seen /\ walk'.filter = walk.filter
        /\ walk'.part = [walk.part EXCEPT ![type] = Found(walk.filter, type)]
    BY <1>0 DEF SelectLog, Walk
  <1>2. \A f, k : Found(f, k)' = Found(f, k)
    BY <1>0 DEF Found, Entered
  <1>3. WalkShape'
    BY <1>0, <1>1, <1>2 DEF WalkInv, WalkShape, Walk
  <1>4. \A k \in FuelEntryType : View(k)' = View(k)
    BY <1>0, <1>1, <1>2 DEF View, Walk, SelectLog
  <1>5. ASSUME NEW e \in walk.there \ walk.seen
        PROVE  Ahead(e)'
    <2>1. Ahead(e)
      BY DEF WalkInv
    <2>2. Newer(e)' = Newer(e)
      BY <1>0, <1>4 DEF Newer, FuelEntryType
    <2>3. PagesAnswered' = PagesAnswered /\ (Tied(e) <=> Tied(e)')
      BY <1>0, <1>1 DEF PagesAnswered, Tied, Entered
    <2>4. QED
      BY <1>1, <2>1, <2>2, <2>3 DEF Ahead
  <1>6. QED
    BY <1>1, <1>3, <1>5 DEF WalkInv

LEMMA AskWalk ==
    ASSUME FuelTypeOK, FuelTypeOK', WalkInv, AskNextPage
    PROVE  WalkInv'
  <1>0. walk \in Walk /\ walk.pc = "between" /\ UNCHANGED fuelRows
    BY DEF FuelTypeOK, AskNextPage
  <1>1. /\ walk'.pc = "reading" /\ walk'.page = walk.page + 1 /\ walk'.there = walk.there
        /\ walk'.seen = walk.seen /\ walk'.filter = walk.filter /\ walk'.part = walk.part
        /\ walk.page \in Nat
    BY <1>0 DEF AskNextPage, Walk
  <1>2. \A f, k : Found(f, k)' = Found(f, k)
    BY <1>0 DEF Found, Entered
  <1>3. WalkShape'
    BY <1>0, <1>1, <1>2 DEF WalkInv, WalkShape
  <1>4. ASSUME NEW e \in walk.there \ walk.seen
        PROVE  Ahead(e)'
    <2>1. Ahead(e)
      BY DEF WalkInv
    <2>2. Newer(e)' = Newer(e)
      BY <1>0, <1>1, <1>2 DEF Newer, View
    <2>3. PagesAnswered' = PagesAnswered /\ (Tied(e) <=> Tied(e)')
      BY <1>0, <1>1 DEF PagesAnswered, Tied, Entered
    <2>4. QED
      BY <1>1, <2>1, <2>2, <2>3 DEF Ahead
  <1>5. QED
    BY <1>1, <1>3, <1>4 DEF WalkInv

\* In a sorted list an entry whose timestamp is its own comes right after the newer ones.
LEMMA NewerPlaces ==
    ASSUME FuelTypeOK, NEW S \in SUBSET Entered, NEW s \in Sorted(S),
           NEW i \in 1 .. Cardinality(S), ~Tied(s[i])
    PROVE  Cardinality({x \in S : fuelRows[x].at > fuelRows[s[i]].at}) = i - 1
  <1> DEFINE n == Cardinality(S)
             N == {x \in S : fuelRows[x].at > fuelRows[s[i]].at}
  <1>1. IsFiniteSet(S) /\ n \in Nat
    <2>1. S \subseteq FuelEntry
      BY DEF Entered
    <2>2. QED
      BY <2>1, SmallerSet
  <1>2. /\ s \in [1 .. n -> S]
        /\ \A j, k \in 1 .. n : s[j] = s[k] => j = k
        /\ \A j, k \in 1 .. n : j < k => fuelRows[s[j]].at >= fuelRows[s[k]].at
    BY DEF Sorted
  <1>3. \A x \in S : fuelRows[x].at \in Nat
    BY FuelAssumption DEF FuelTypeOK, Entered, FuelRow, DieselRow, AdblueRow
  <1> HIDE DEF n
  <1>4. S = Places(s, n)
    BY <1>1, <1>2, AllPlaces DEF n
  <1>5. i \in 1 .. n
    BY DEF n
  <1>6. N = Places(s, i - 1)
    <2>1. ASSUME NEW x \in N
          PROVE  x \in Places(s, i - 1)
      <3>1. PICK j \in 1 .. n : x = s[j]
        BY <1>4 DEF Places
      <3>2. j < i
        <4>1. CASE j = i
          BY <2>1, <1>3, <3>1, <4>1
        <4>2. CASE i < j
          <5>1. fuelRows[s[i]].at >= fuelRows[x].at
            BY <1>2, <1>5, <3>1, <4>2
          <5>2. s[i] \in S /\ x \in S /\ fuelRows[x].at > fuelRows[s[i]].at
            BY <1>2, <1>5
          <5>3. QED
            BY <1>3, <5>1, <5>2
        <4>3. QED
          BY <1>1, <1>5, <4>1, <4>2
      <3>3. QED
        BY <1>5, <3>1, <3>2 DEF Places
    <2>2. ASSUME NEW x \in Places(s, i - 1)
          PROVE  x \in N
      <3>1. PICK j \in 1 .. (i - 1) : x = s[j]
        BY DEF Places
      <3>2. j \in 1 .. n /\ j < i /\ j # i
        BY <1>1, <1>5
      <3>3. x \in S /\ s[i] \in S /\ x # s[i] /\ fuelRows[x].at >= fuelRows[s[i]].at
        BY <1>2, <1>5, <3>1, <3>2
      <3>4. fuelRows[x].at # fuelRows[s[i]].at
        BY <3>3 DEF Tied
      <3>5. fuelRows[x].at > fuelRows[s[i]].at
        BY <1>3, <3>3, <3>4
      <3>6. QED
        BY <3>3, <3>5
    <2>3. QED
      BY <2>1, <2>2
  <1> HIDE DEF N
  <1>7. n \in Nat /\ i - 1 \in 0 .. n
    BY <1>1, <1>5
  <1>8. Cardinality(Places(s, i - 1)) = i - 1
    BY <1>2, <1>7, FirstPlaces
  <1>9. QED
    BY <1>6, <1>8 DEF N

LEMMA AnswerWalk ==
    ASSUME FuelTypeOK, FuelTypeOK', WalkInv, AnswerPage
    PROVE  WalkInv'
  <1>0. /\ walk \in Walk /\ walk.pc = "reading" /\ UNCHANGED fuelRows
        /\ \A type \in FuelEntryType : walk.part[type] # Null
        /\ walk.page \in Nat /\ walk.page >= 1 /\ PageSize \in Nat /\ PageSize >= 1
    BY FuelAssumption DEF FuelTypeOK, AnswerPage, Walk, WalkInv, WalkShape
  <1> DEFINE n == Cardinality(Merged)
  <1>1. PICK s \in Sorted(Merged) :
            walk' = [walk EXCEPT !.pc = IF walk.page * PageSize >= n THEN "done" ELSE "between",
                                 !.seen = @ \union Slice(s, walk.page), !.part = NoPart]
    BY DEF AnswerPage
  <1>2. /\ walk'.pc = IF walk.page * PageSize >= n THEN "done" ELSE "between"
        /\ walk'.page = walk.page /\ walk'.there = walk.there
        /\ walk'.seen = walk.seen \union Slice(s, walk.page)
        /\ walk'.filter = walk.filter /\ walk'.part = NoPart
    BY <1>0, <1>1 DEF Walk
  <1>3. \A f, k : Found(f, k)' = Found(f, k)
    BY <1>0 DEF Found, Entered
  <1>4. WalkShape'
    BY <1>0, <1>2, <1>3 DEF WalkInv, WalkShape, NoPart
  <1>5. Merged \subseteq Entered /\ walk.there \subseteq Merged
    BY <1>0 DEF WalkInv, WalkShape, Merged, FuelEntryType, Found
  <1>6. IsFiniteSet(Merged) /\ n \in Nat
    <2>1. Merged \subseteq FuelEntry
      BY <1>5 DEF Entered
    <2>2. QED
      BY <2>1, SmallerSet
  <1>7. s \in [1 .. n -> Merged] /\ \A i, j \in 1 .. n : s[i] = s[j] => i = j
    BY DEF Sorted
  <1>8. Merged = Places(s, n)
    <2> HIDE DEF n
    <2>1. n = Cardinality(Merged)
      BY DEF n
    <2>2. QED
      BY <1>6, <1>7, <2>1, AllPlaces
  <1>9. ASSUME NEW e \in walk'.there \ walk'.seen
        PROVE  Ahead(e)'
    <2>1. e \in walk.there /\ e \notin walk.seen /\ e \notin Slice(s, walk.page) /\ e \in Merged
      BY <1>2, <1>5
    <2>2. PICK i \in 1 .. n : e = s[i]
      BY <1>8, <2>1 DEF Places
    <2>3. SUFFICES ASSUME ~Tied(e)
                   PROVE  /\ walk'.pc = "between"
                          /\ walk.page * PageSize <= Cardinality(Newer(e)')
      <3>1. Tied(e)' <=> Tied(e)
        BY <1>0 DEF Tied, Entered
      <3>2. QED
        BY <1>2, <2>3, <3>1 DEF Ahead, PagesAnswered
    <2> DEFINE before == {x \in Merged : fuelRows[x].at > fuelRows[e].at}
    <2>4. Cardinality(before) = i - 1
      <3>1. Merged \in SUBSET Entered /\ i \in 1 .. Cardinality(Merged) /\ ~Tied(s[i])
        BY <1>5, <2>2, <2>3
      <3>2. Cardinality({x \in Merged : fuelRows[x].at > fuelRows[s[i]].at}) = i - 1
        BY <3>1, NewerPlaces
      <3>3. QED
        BY <2>2, <3>2, Zenon
    <2>5. before = Newer(e)
      BY <1>0 DEF Newer, View, Merged, FuelEntryType
    <2>6. (walk.page - 1) * PageSize <= i - 1
      <3>1. Ahead(e)
        BY <2>1 DEF WalkInv
      <3>2. QED
        BY <1>0, <2>3, <2>4, <2>5, <3>1 DEF Ahead, PagesAnswered
    <2>7. i \notin (walk.page - 1) * PageSize + 1 .. walk.page * PageSize
      BY <1>7, <2>1, <2>2 DEF Slice
    <2>8. walk.page * PageSize < i
      <3>1. (walk.page - 1) * PageSize \in Int /\ walk.page * PageSize \in Int /\ i \in Int
        BY <1>0, <1>6
      <3>2. QED
        BY <2>6, <2>7, <3>1
    <2>9. before \subseteq Newer(e)'
      <3>1. \A k \in FuelEntryType : View(k)' = Found(walk.filter, k)
        BY <1>2, <1>3 DEF View, NoPart
      <3>2. Merged \subseteq View("DIESEL")' \union View("ADBLUE")'
        BY <1>0, <3>1 DEF WalkInv, WalkShape, Merged, FuelEntryType
      <3>3. QED
        BY <1>0, <3>2 DEF Newer
    <2>10. Newer(e)' \in SUBSET FuelEntry
      BY FoundAreEntries DEF FuelTypeOK, Walk, Newer, View, FuelEntryType, Found, Entered
    <2>11. i - 1 <= Cardinality(Newer(e)') /\ Cardinality(Newer(e)') \in Nat
      <3> HIDE DEF before
      <3>1. QED
        BY <2>4, <2>9, <2>10, SmallerSet
    <2>12. walk.page * PageSize <= Cardinality(Newer(e)')
      <3>1. walk.page * PageSize \in Int /\ i \in Int
        BY <1>0, <1>6
      <3>2. QED
        BY <2>8, <2>11, <3>1
    <2>13. ~(walk.page * PageSize >= n)
      <3>1. walk.page * PageSize \in Int /\ i \in Int /\ i <= n
        BY <1>0, <1>6
      <3>2. QED
        BY <1>6, <2>8, <3>1
    <2>14. QED
      BY <1>2, <2>12, <2>13
  <1>10. QED
    BY <1>4, <1>9 DEF WalkInv

LEMMA WalkStep ==
    ASSUME FuelTypeOK, FuelTypeOK', WalkInv, [FuelNext]_fuelVars
    PROVE  WalkInv'
  <1>1. ASSUME NEW f \in Filter, OpenList(f)
        PROVE  WalkInv'
    <2>1. /\ walk'.pc = "reading" /\ walk'.page = 1 /\ walk'.part = NoPart
          /\ walk'.filter = f /\ walk'.seen = {}
          /\ walk'.there = UNION {Found(f, type) : type \in FuelEntryType}
          /\ UNCHANGED fuelRows
      BY <1>1 DEF OpenList
    <2>2. \A k : Found(f, k)' = Found(f, k)
      BY <2>1 DEF Found, Entered
    <2>3. WalkShape'
      BY <2>1, <2>2 DEF WalkShape, NoPart
    <2>4. ASSUME NEW e \in walk'.there
          PROVE  Ahead(e)'
      <3>1. Newer(e)' \in SUBSET FuelEntry
        BY FoundAreEntries DEF FuelTypeOK, Walk, Newer, View, FuelEntryType, Found, Entered
      <3>2. Cardinality(Newer(e)') \in Nat
        BY <3>1, SmallerSet
      <3>3. PagesAnswered' = 0
        BY <2>1 DEF PagesAnswered
      <3>4. PagesAnswered' * PageSize = 0
        BY <3>3, FuelAssumption
      <3>5. QED
        BY <2>1, <3>2, <3>4 DEF Ahead
    <2>5. QED
      BY <2>3, <2>4 DEF WalkInv
  <1>2. CASE CloseList
    <2>1. walk' = NoWalk
      BY <1>2 DEF CloseList
    <2>2. QED
      BY <2>1 DEF WalkInv, WalkShape, NoWalk, NoPart
  <1>3. CASE UNCHANGED fuelVars
    BY <1>3 DEF fuelVars, WalkInv, WalkShape, Ahead, Tied, Newer, View, PagesAnswered, Found, Entered
  <1>4. QED
    BY <1>1, <1>2, <1>3, CreateWalk, SelectWalk, AnswerWalk, AskWalk DEF FuelNext

\* A client that walks through all pages of the fuel log sees every entry that was there
\* when it began and has a timestamp of its own, for any page size, any number of entries
\* and any number of them added meanwhile, between the two SELECTs of a page as well: an
\* entry not yet seen has at least as many newer ones before it as the answered pages hold.
THEOREM WalkMissesNoneHolds == FuelSpec => []WalkMissesNone
  <1>1. FuelInit => WalkInv
    BY DEF FuelInit, WalkInv, WalkShape, NoWalk, NoPart
  <1>2. FuelTypeOK /\ FuelTypeOK' /\ WalkInv /\ [FuelNext]_fuelVars => WalkInv'
    BY WalkStep
  <1>3. WalkInv => WalkMissesNone
    BY DEF WalkInv, Ahead, WalkMissesNone
  <1>4. QED
    BY <1>1, <1>2, <1>3, FuelTypeCorrect, PTL DEF FuelSpec

-----------------------------------------------------------------------------
(* The office as a whole *)

\* Each part of the office behaves as it does on its own: what is proved of a part holds of
\* the office (the modules of the backend share no data but what MCOffice names).
THEOREM OfficeIsItsDesks == OfficeSpec => AccountsSpec /\ FuelSpec /\ ReportsSpec /\ MapSpec
<1>1. OfficeInit => AccountsInit /\ FuelInit /\ ReportsInit /\ MapInit
  BY DEF OfficeInit
<1>2. [OfficeNext]_<<accountVars, fuelVars, reportVars, mapVars, desk>>
          => /\ [AccountsNext]_accountVars
             /\ [FuelNext]_fuelVars
             /\ [ReportsNext]_reportVars
             /\ [MapNext]_mapVars
  BY DEF OfficeNext
<1>3. QED
  BY <1>1, <1>2, PTL DEF OfficeSpec, AccountsSpec, FuelSpec, ReportsSpec, MapSpec

\* Every row, request and page of the office keeps its shape.
THEOREM OfficeTypeCorrect == OfficeSpec => []OfficeTypeOK
<1>1. AccountsTypeOK /\ FuelTypeOK /\ ReportsTypeOK /\ MapTypeOK => OfficeTypeOK
  BY DEF OfficeTypeOK
<1>2. QED
  BY <1>1, OfficeIsItsDesks, AccountsTypeCorrect, FuelTypeCorrect, ReportsTypeCorrect,
     MapTypeCorrect, PTL

\* All that is promised of the office holds of it, with all its parts side by side.
THEOREM OfficeKeepsPromises ==
    OfficeSpec => /\ [](EmailUnique /\ ProfileComplete /\ WalkMissesNone)
                  /\ [](CustomIsSumOfDays /\ MonthsPartition /\ KpisBetween)
                  /\ [](ReportBracketed /\ TodayWithinMonth)
                  /\ [](NothingUnstored /\ KeyNewest /\ MapAgrees)
                  /\ DeactivationSticks
<1>1. QED
  BY OfficeIsItsDesks, EmailUniqueHolds, ProfileCompleteHolds, WalkMissesNoneHolds,
     CustomIsSumOfDaysHolds, MonthsPartitionHolds, KpisBetweenHolds, ReportBracketedHolds,
     TodayWithinMonthHolds, NothingUnstoredHolds, KeyNewestHolds, MapAgreesHolds,
     DeactivationSticksHolds, PTL

=============================================================================
