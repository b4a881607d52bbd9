------------------------------ MODULE Accounts ------------------------------
(* The rows of the users and everything that writes them: the handlers of   *)
(* the admin API, which read a row and later save the whole of it, the      *)
(* token monitor, which walks over a snapshot and writes single columns,    *)
(* its silent renewal, and the create-account command.  Deleting a user     *)
(* sets deleted_at only.  The admin API stands behind a session.            *)
EXTENDS Integers, Sequences, FiniteSets, SequencesExt

CONSTANTS Handlers,    \* requests of the admin API in progress at once
          Ids,         \* primary keys of the users table
          Names,       \* usernames
          Passwords,
          Uploads,     \* cookie jars an administrator may upload
          Renewed,     \* jars that MusicKit may leave in the browser
          CheckHours,  \* config token_check_hours, 0 and less for no monitor
          AutoRenew,   \* config token_auto_renew
          Warn,        \* config token_warn_days
          SessionAge,  \* sessionMaxAge
          MaxTime,     \* bound: the clock stops here
          MaxOps       \* bound: requests and commands in one behaviour

ASSUME TimeAssumption == {Warn, SessionAge, MaxTime, MaxOps} \subseteq Nat
ASSUME CheckAssumption == CheckHours \in Int
ASSUME RenewAssumption == AutoRenew \in BOOLEAN
ASSUME SomeAssumption == Ids # {} /\ Passwords # {}

VARIABLES now,      \* the clock
          admin,    \* AdminConfig: the hash of the password and its salt
          session,  \* expiry signed into the admin's cookie, 0 without one
          row,      \* id -> its row in users, NoRow if there is none
          pc,       \* handler -> the operation it carries out
          target,   \* handler -> the id it works on
          copy,     \* handler -> the row as it read it
          input,    \* handler -> the name, password or jar of its request
          raced,    \* ghost: id -> handlers at work on it when it was deleted
          stage,    \* monitor: id -> where the current pass stands
          snap,     \* monitor: id -> the row as the pass read it
          ops       \* requests and commands so far

handlers == <<pc, target, copy, input, ops>>
monitor == <<stage, snap>>
vars == <<now, admin, session, row, handlers, raced, monitor>>

NoRow == [name |-> "none"]
NoExpiry == 0
None == "none"

-----------------------------------------------------------------------------
(* Cookie jars: the cookies of a Netscape file in the order of its lines *)

Named(jar, name) == SelectSeq(jar, LAMBDA c : c.name = name)

HasCookie(jar, name) == Named(jar, name) # <<>>

\* parseCookies lets the last line with a name win.
MediaUserToken(jar) ==
  LET tokens == Named(jar, "media-user-token")
  IN  IF tokens = <<>> THEN None ELSE Last(tokens).value

HasMediaUserToken(jar) == MediaUserToken(jar) # None

\* MediaTokenExpiry looks at the first line, and only at a positive expiry.
MediaTokenExpiry(jar) ==
  LET tokens == Named(jar, "media-user-token")
  IN  IF tokens # <<>> /\ Head(tokens).expires > 0 THEN Head(tokens).expires ELSE NoExpiry

Expired(exp) == exp # NoExpiry /\ exp < now

Validate(jar) ==
  IF ~HasMediaUserToken(jar) THEN "missing"
  ELSE IF Expired(MediaTokenExpiry(jar)) THEN "expired" ELSE "ok"

\* appleStatus: what the administrator is shown of a row.
AppleStatus(u) ==
  LET exp == IF u.exp # NoExpiry THEN u.exp ELSE MediaTokenExpiry(u.jar)
  IN  IF ~HasMediaUserToken(u.jar) THEN "missing"
      ELSE IF Expired(exp) \/ u.status = "expired" THEN "expired"
      ELSE IF Warn > 0 /\ exp # NoExpiry /\ exp < now + Warn THEN "expiring"
      ELSE IF u.status = "ok" THEN "ok" ELSE "unknown"

-----------------------------------------------------------------------------
(* Passwords and rows *)

Salts == Handlers \cup {"first"}
Hashes == [of : Passwords, with : Salts]

Hash(p, salt) == [of |-> p, with |-> salt]

Mutant_NewPasswordHashOnly(u, p, salt) ==
  [u EXCEPT !.hash = Hash(p, salt), !.salt = salt]

\* Hash, salt and the plain password for token logins, written together.
NewPassword(u, p, salt) ==
  [u EXCEPT !.hash = Hash(p, salt), !.salt = salt, !.token = p]

\* Authenticate: t = MD5(password + s), or p
AcceptsToken(u, p) == u.token = p
AcceptsPassword(u, p) == u.hash = Hash(p, u.salt)

Jars == Uploads \cup Renewed \cup {<<>>}
Expiries == {MediaTokenExpiry(jar) : jar \in Jars} \cup {NoExpiry}

UserRows ==
  [name : Names, hash : Hashes, salt : Salts, token : Passwords, jar : Jars,
   exp : Expiries, status : {"missing", "unknown", "ok", "expired"}, deleted : BOOLEAN]

NewUser(name, p, salt, jar, status) ==
  [name |-> name, hash |-> Hash(p, salt), salt |-> salt, token |-> p, jar |-> jar,
   exp |-> NoExpiry, status |-> status, deleted |-> FALSE]

Exists(i) == row[i] # NoRow
Live(i) == Exists(i) /\ ~row[i].deleted

Mutant_IndexOnLive(name) == \E i \in Ids : Live(i) /\ row[i].name = name

\* The unique index on the username counts deleted rows as well.
NameTaken(name) == \E i \in Ids : Exists(i) /\ row[i].name = name

Insert(u) ==
  IF NameTaken(u.name) THEN UNCHANGED row
  ELSE \E i \in Ids : ~Exists(i) /\ row' = [row EXCEPT ![i] = u]

\* Save writes every column; when no live row has the id it inserts with
\* ON DUPLICATE KEY UPDATE, and a deleted row is back.
Save(i, u) == row' = [row EXCEPT ![i] = u]

\* Updates of single columns reach live rows only.
Updates(i, u) ==
  IF Live(i) THEN row' = [row EXCEPT ![i] = u] ELSE UNCHANGED row

TypeOK ==
  /\ now \in 0 .. MaxTime
  /\ admin \in [hash : Hashes, salt : Salts]
  /\ session \in 0 .. MaxTime + SessionAge
  /\ row \in [Ids -> UserRows \cup {NoRow}]
  /\ pc \in [Handlers -> {"idle", "create", "upload", "recheck", "update", "delete", "admin"}]
  /\ target \in [Handlers -> Ids]
  /\ copy \in [Handlers -> UserRows \cup {NoRow} \cup [hash : Hashes, salt : Salts]]
  /\ raced \in [Ids -> SUBSET Handlers]
  /\ stage \in [Ids -> {"asleep", "todo", "renewing", "status", "done"}]
  /\ snap \in [Ids -> UserRows \cup {NoRow}]
  /\ ops \in 0 .. MaxOps

\* EnsureAdmin made the admin's row at the first start; one user may be there,
\* just made by either of the two ways.
Init ==
  LET i1 == CHOOSE i \in Ids : TRUE
      p1 == CHOOSE p \in Passwords : TRUE
  IN
  /\ now = 0
  /\ admin = [hash |-> Hash(p1, "first"), salt |-> "first"]
  /\ session = 0
  /\ \E u \in {NewUser(name, p1, "first", <<>>, "missing") : name \in Names} \cup
             {NewUser(name, p1, "first", jar, "unknown") : name \in Names, jar \in Uploads} \cup
             {NoRow} :
       row = [i \in Ids |-> IF i = i1 THEN u ELSE NoRow]
  /\ pc = [h \in Handlers |-> "idle"]
  /\ target = [h \in Handlers |-> i1]
  /\ copy = [h \in Handlers |-> NoRow]
  /\ input = [h \in Handlers |-> None]
  /\ raced = [i \in Ids |-> {}]
  /\ stage = [i \in Ids |-> "asleep"]
  /\ snap = [i \in Ids |-> NoRow]
  /\ ops = 0

Tick ==
  /\ now < MaxTime
  /\ now' = now + 1
  /\ UNCHANGED <<admin, session, row, handlers, raced, monitor>>

-----------------------------------------------------------------------------
(* The admin's session *)

CountOp == ops < MaxOps /\ ops' = ops + 1

HandleLogin(p) ==
  /\ admin.hash = Hash(p, admin.salt)
  /\ session' = now + SessionAge
  /\ UNCHANGED <<now, admin, row, handlers, raced, monitor>>

HandleLogout ==
  /\ session # 0
  /\ session' = 0
  /\ UNCHANGED <<now, admin, row, handlers, raced, monitor>>

IsAuthed == now < session

Work(h, op, i, read, in) ==
  /\ IsAuthed
  /\ pc[h] = "idle"
  /\ CountOp
  /\ pc' = [pc EXCEPT ![h] = op]
  /\ target' = [target EXCEPT ![h] = i]
  /\ copy' = [copy EXCEPT ![h] = read]
  /\ input' = [input EXCEPT ![h] = in]
  /\ UNCHANGED <<now, admin, session, row, raced, monitor>>

Finished(h) ==
  /\ pc' = [pc EXCEPT ![h] = "idle"]
  /\ copy' = [copy EXCEPT ![h] = NoRow]
  /\ input' = [input EXCEPT ![h] = None]
  /\ raced' = [i \in Ids |-> raced[i] \ {h}]
  /\ UNCHANGED <<now, target, ops, monitor>>

\* handleChangeAdminPassword: the current password is checked against the row read.
BeginChange(h, current, p) ==
  /\ admin.hash = Hash(current, admin.salt)
  /\ Work(h, "admin", target[h], admin, p)

Change(h) ==
  /\ pc[h] = "admin"
  /\ admin' = [hash |-> Hash(input[h], h), salt |-> h]
  /\ session' = now + SessionAge
  /\ Finished(h)
  /\ UNCHANGED row

-----------------------------------------------------------------------------
(* The handlers of /users *)

\* handleCreateUser: the name is looked for among live users.
BeginCreate(h, name, p) ==
  /\ ~\E i \in Ids : Live(i) /\ row[i].name = name
  /\ Work(h, "create", target[h], NoRow, <<name, p>>)

Create(h) ==
  /\ pc[h] = "create"
  /\ Insert(NewUser(input[h][1], input[h][2], h, <<>>, "missing"))
  /\ Finished(h)
  /\ UNCHANGED <<admin, session>>

\* create-account: a jar at once, and the default status of the column.
CreateAccount(name, p, jar) ==
  /\ CountOp
  /\ HasMediaUserToken(jar)
  /\ Insert(NewUser(name, p, "first", jar, "unknown"))
  /\ UNCHANGED <<now, admin, session, pc, target, copy, input, raced, monitor>>

\* userFromURL finds a live row; the handler goes on with its copy.
Begin(h, op, i, in) == Live(i) /\ Work(h, op, i, row[i], in)

BeginUpload(h, i, jar) == HasMediaUserToken(jar) /\ Begin(h, "upload", i, jar)

FinishWith(h, op, u) ==
  /\ pc[h] = op
  /\ Save(target[h], u)
  /\ Finished(h)
  /\ UNCHANGED <<admin, session>>

Replenish(h) ==
  FinishWith(h, "upload", [copy[h] EXCEPT !.jar = input[h],
                                          !.exp = MediaTokenExpiry(input[h]),
                                          !.status = Validate(input[h])])

Recheck(h) == FinishWith(h, "recheck", [copy[h] EXCEPT !.status = Validate(copy[h].jar)])

\* A request without a password changes columns that are left out here.
UpdateUser(h) ==
  FinishWith(h, "update",
    IF input[h] = None THEN copy[h] ELSE NewPassword(copy[h], input[h], h))

DeleteUser(h) ==
  LET i == target[h] IN
    /\ pc[h] = "delete"
    /\ Updates(i, [row[i] EXCEPT !.deleted = TRUE])
    /\ pc' = [pc EXCEPT ![h] = "idle"]
    /\ copy' = [copy EXCEPT ![h] = NoRow]
    /\ raced' = IF Live(i)
                  THEN [raced EXCEPT ![i] = {g \in Handlers \ {h} : pc[g] # "idle" /\ target[g] = i}]
                  ELSE raced
    /\ UNCHANGED <<now, admin, session, target, input, ops, monitor>>

-----------------------------------------------------------------------------
(* The token monitor *)

MonitorOnly == UNCHANGED <<now, admin, session, handlers, raced>>

MonitorEnabled == CheckHours > 0

\* A pass reads all live users at once.
StartPass ==
  /\ MonitorEnabled
  /\ \A i \in Ids : stage[i] \in {"asleep", "done"}
  /\ stage' = [i \in Ids |-> IF Live(i) THEN "todo" ELSE "done"]
  /\ snap' = [i \in Ids |-> IF Live(i) THEN row[i] ELSE NoRow]
  /\ UNCHANGED row
  /\ MonitorOnly

NearExpiry(u) == u.exp # NoExpiry /\ Warn > 0 /\ u.exp - now < Warn

Mutant_SkipExpired(i) ==
  /\ stage[i] = "todo"
  /\ stage' = [stage EXCEPT ![i] =
       IF ~HasMediaUserToken(snap[i].jar) \/ snap[i].status = "expired" THEN "done"
       ELSE IF NearExpiry(snap[i]) /\ AutoRenew /\ HasCookie(snap[i].jar, "myacinfo")
         THEN "renewing" ELSE "status"]
  /\ UNCHANGED <<row, snap>>
  /\ MonitorOnly

CheckUser(i) ==
  /\ stage[i] = "todo"
  /\ stage' = [stage EXCEPT ![i] =
       IF ~HasMediaUserToken(snap[i].jar) THEN "done"
       ELSE IF NearExpiry(snap[i]) /\ AutoRenew /\ HasCookie(snap[i].jar, "myacinfo")
         THEN "renewing" ELSE "status"]
  /\ UNCHANGED <<row, snap>>
  /\ MonitorOnly

\* silentRenew: launch, sign in with the jar, MusicKit, a timeout, a panic.
RenewFails(i) ==
  /\ stage[i] = "renewing"
  /\ stage' = [stage EXCEPT ![i] = "status"]
  /\ UNCHANGED <<row, snap>>
  /\ MonitorOnly

WithJar(u, jar) ==
  LET exp == MediaTokenExpiry(jar)
  IN  [u EXCEPT !.jar = jar, !.exp = IF exp # NoExpiry THEN exp ELSE @]

Mutant_RenewSaves(i, jar) ==
  /\ stage[i] = "renewing"
  /\ HasMediaUserToken(jar)
  /\ stage' = [stage EXCEPT ![i] = "status"]
  /\ snap' = [snap EXCEPT ![i] = WithJar(@, jar)]
  /\ Save(i, WithJar(snap[i], jar))
  /\ MonitorOnly

AttemptRenew(i, jar) ==
  /\ stage[i] = "renewing"
  /\ HasMediaUserToken(jar)
  /\ stage' = [stage EXCEPT ![i] = "status"]
  /\ snap' = [snap EXCEPT ![i] = WithJar(@, jar)]
  /\ Updates(i, WithJar(row[i], jar))
  /\ MonitorOnly

\* The status of the jar in the snapshot, written over the one of the row.
Checked(u, jar) ==
  LET exp == MediaTokenExpiry(jar)
  IN  [u EXCEPT !.status = Validate(jar), !.exp = IF exp # NoExpiry THEN exp ELSE @]

WriteStatus(i) ==
  /\ stage[i] = "status"
  /\ stage' = [stage EXCEPT ![i] = "done"]
  /\ snap' = [snap EXCEPT ![i] = NoRow]
  /\ Updates(i, Checked(row[i], snap[i].jar))
  /\ MonitorOnly

MonitorNext ==
  \/ StartPass
  \/ \E i \in Ids : CheckUser(i) \/ RenewFails(i) \/ WriteStatus(i)
                      \/ \E jar \in Renewed : AttemptRenew(i, jar)

FinishNext ==
  \E h \in Handlers : Change(h) \/ Create(h) \/ Replenish(h) \/ Recheck(h)
                        \/ UpdateUser(h) \/ DeleteUser(h)

Next ==
  \/ Tick
  \/ HandleLogout
  \/ \E p \in Passwords : HandleLogin(p)
  \/ \E h \in Handlers, p \in Passwords :
       \/ \E current \in Passwords : BeginChange(h, current, p)
       \/ \E name \in Names : BeginCreate(h, name, p)
  \/ \E name \in Names, p \in Passwords, jar \in Uploads : CreateAccount(name, p, jar)
  \/ \E h \in Handlers, i \in Ids :
       \/ \E jar \in Uploads : BeginUpload(h, i, jar)
       \/ \E p \in Passwords \cup {None} : Begin(h, "update", i, p)
       \/ Begin(h, "recheck", i, None) \/ Begin(h, "delete", i, None)
  \/ FinishNext
  \/ MonitorNext

Spec == Init /\ [][Next]_vars

\* Requests that were read are answered, and the monitor's loop goes on.
FairSpec == Spec /\ WF_vars(FinishNext) /\ WF_vars(MonitorNext)

-----------------------------------------------------------------------------
(* Properties *)

\* The two ways of logging in accept the same password, whatever stale copies
\* of the row are written back, and the admin's hash goes with its salt.
PasswordsAgree ==
  /\ \A i \in Ids : Live(i) =>
       \A p \in Passwords : AcceptsToken(row[i], p) <=> AcceptsPassword(row[i], p)
  /\ \E p \in Passwords : admin.hash = Hash(p, admin.salt)

\* Two requests that both found a name free do not both create it.
OneRowPerName ==
  \A i, j \in Ids : Exists(i) /\ Exists(j) /\ row[i].name = row[j].name => i = j

\* A deleted user comes back only by the save of a handler that had read the
\* row before it was deleted; the monitor, which also holds old rows, and
\* requests that come later never bring it back.
DeletedUnlessRaced ==
  [][\A i \in Ids : Exists(i) /\ row[i].deleted /\ raced[i] = {} => row'[i] = row[i]]_vars

\* Once requests and time have stopped, what the administrator is shown of a jar
\* that tells its expiry is true of that jar, if there is a monitor to check it.
Shown(i) ==
  LET jar == row[i].jar IN
  Live(i) /\ (HasMediaUserToken(jar) => MediaTokenExpiry(jar) # NoExpiry) =>
    AppleStatus(row[i]) =
      IF Validate(jar) # "ok" THEN Validate(jar)
      ELSE IF Warn > 0 /\ MediaTokenExpiry(jar) < now + Warn THEN "expiring" ELSE "ok"

ShownStatusSettles == MonitorEnabled => <>[](\A i \in Ids : Shown(i))
=============================================================================
