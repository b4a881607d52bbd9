--------------------------- MODULE AccountsProofs ---------------------------
(* Proofs about Accounts: whatever stale copies handlers and the monitor     *)
(* hold, a copy keeps the name of its row and agrees with itself on the      *)
(* password, and only a copy read before a deletion can undo it.             *)
EXTENDS Accounts, TLAPS

Editing == {"upload", "recheck", "update"}

Agrees(u) == u.hash = Hash(u.token, u.salt)

InputInv ==
  /\ input = [h \in Handlers |-> input[h]]
  /\ \A h \in Handlers :
       /\ pc[h] = "create" => input[h] \in Names \X Passwords
       /\ pc[h] = "upload" => input[h] \in Uploads
       /\ pc[h] = "update" => input[h] \in Passwords \cup {None}
       /\ pc[h] = "admin" => input[h] \in Passwords

RowInv == \A i \in Ids : Exists(i) => Agrees(row[i])

AdminInv == \E p \in Passwords : admin.hash = Hash(p, admin.salt)

\* A handler about to save has a live row's copy of the same name, and is known
\* to be racing when that row has been deleted since.
CopyInv ==
  \A h \in Handlers : pc[h] \in Editing =>
    /\ copy[h] \in UserRows /\ ~copy[h].deleted /\ Agrees(copy[h])
    /\ Exists(target[h]) /\ copy[h].name = row[target[h]].name
    /\ row[target[h]].deleted => h \in raced[target[h]]

\* What the pass has still to work on it has read.
SnapInv ==
  \A i \in Ids : stage[i] \in {"todo", "renewing", "status"} => snap[i] \in UserRows

DataInv == RowInv /\ AdminInv /\ CopyInv /\ OneRowPerName

IInv == TypeOK /\ InputInv /\ DataInv /\ SnapInv

-----------------------------------------------------------------------------
(* Rows *)

LEMMA NoRowIsNone == ASSUME NEW u \in UserRows PROVE u # NoRow
<1>1. "hash" \in DOMAIN u
  BY DEF UserRows
<1>2. "hash" \notin DOMAIN NoRow
  BY DEF NoRow
<1> QED
  BY <1>1, <1>2

LEMMA RowType == ASSUME TypeOK, NEW i \in Ids, Exists(i) PROVE row[i] \in UserRows
  BY DEF TypeOK, Exists

LEMMA NewUserType ==
  ASSUME NEW name \in Names, NEW p \in Passwords, NEW salt \in Salts, NEW jar \in Jars,
         NEW status \in {"missing", "unknown"}
  PROVE  LET u == NewUser(name, p, salt, jar, status) IN
         u \in UserRows /\ Agrees(u) /\ ~u.deleted /\ u.name = name
  BY DEF NewUser, UserRows, Hashes, Hash, Expiries, Agrees

LEMMA ValidateType ==
  ASSUME NEW jar
  PROVE  Validate(jar) \in {"missing", "unknown", "ok", "expired"}
  BY DEF Validate

LEMMA ExpiryType == ASSUME NEW jar \in Jars PROVE MediaTokenExpiry(jar) \in Expiries
  BY DEF Expiries

\* A column written over a row keeps what the proofs need of it.
Alike(u, v) ==
  /\ v \in UserRows /\ Agrees(v)
  /\ v.name = u.name /\ v.deleted = u.deleted

LEMMA UploadAlike ==
  ASSUME NEW u \in UserRows, Agrees(u), NEW jar \in Uploads
  PROVE  Alike(u, [u EXCEPT !.jar = jar, !.exp = MediaTokenExpiry(jar), !.status = Validate(jar)])
<1>1. jar \in Jars /\ MediaTokenExpiry(jar) \in Expiries
  BY ExpiryType DEF Jars
<1> QED
  BY <1>1, ValidateType DEF Alike, UserRows, Agrees

LEMMA RecheckAlike ==
  ASSUME NEW u \in UserRows, Agrees(u)
  PROVE  Alike(u, [u EXCEPT !.status = Validate(u.jar)])
  BY ValidateType DEF Alike, UserRows, Agrees

LEMMA PasswordAlike ==
  ASSUME NEW u \in UserRows, NEW p \in Passwords, NEW salt \in Salts
  PROVE  Alike(u, NewPassword(u, p, salt))
  BY DEF Alike, UserRows, Agrees, NewPassword, Hash, Hashes

LEMMA JarAlike ==
  ASSUME NEW u \in UserRows, Agrees(u), NEW jar \in Jars
  PROVE  Alike(u, WithJar(u, jar))
<1>1. MediaTokenExpiry(jar) \in Expiries
  BY ExpiryType
<1> QED
  BY <1>1 DEF Alike, UserRows, Agrees, WithJar

LEMMA CheckedAlike ==
  ASSUME NEW u \in UserRows, Agrees(u), NEW jar \in Jars
  PROVE  Alike(u, Checked(u, jar))
<1>1. MediaTokenExpiry(jar) \in Expiries
  BY ExpiryType
<1> QED
  BY <1>1, ValidateType DEF Alike, UserRows, Agrees, Checked

-----------------------------------------------------------------------------
(* Init *)

LEMMA SingleRow ==
  ASSUME NEW i1 \in Ids, NEW u, u = NoRow \/ Agrees(u),
         row = [i \in Ids |-> IF i = i1 THEN u ELSE NoRow]
  PROVE  RowInv /\ OneRowPerName
<1>1. \A i \in Ids : Exists(i) => i = i1 /\ row[i] = u
  BY DEF Exists
<1> QED
  BY <1>1 DEF RowInv, OneRowPerName, Exists

LEMMA InitHolds == Init => IInv
<1> SUFFICES ASSUME Init PROVE IInv
  OBVIOUS
<1> DEFINE i1 == CHOOSE i \in Ids : TRUE
           p1 == CHOOSE p \in Passwords : TRUE
<1>1. i1 \in Ids /\ p1 \in Passwords /\ "first" \in Salts
  BY SomeAssumption DEF Salts
<1>2. PICK u \in {NewUser(name, p1, "first", <<>>, "missing") : name \in Names} \cup
                 {NewUser(name, p1, "first", jar, "unknown") : name \in Names, jar \in Uploads} \cup
                 {NoRow} :
        row = [i \in Ids |-> IF i = i1 THEN u ELSE NoRow]
  BY DEF Init
<1>3. u = NoRow \/ (u \in UserRows /\ Agrees(u))
  <2>1. CASE u \in {NewUser(name, p1, "first", <<>>, "missing") : name \in Names}
    <3>1. PICK name \in Names : u = NewUser(name, p1, "first", <<>>, "missing")
      BY <2>1
    <3>2. <<>> \in Jars
      BY DEF Jars
    <3> HIDE DEF p1
    <3> QED
      BY <1>1, <3>1, <3>2, NewUserType
  <2>2. CASE u \in {NewUser(name, p1, "first", jar, "unknown") : name \in Names, jar \in Uploads}
    <3>1. PICK name \in Names, jar \in Uploads : u = NewUser(name, p1, "first", jar, "unknown")
      BY <2>2
    <3>2. jar \in Jars
      BY DEF Jars
    <3> HIDE DEF p1
    <3> QED
      BY <1>1, <3>1, <3>2, NewUserType
  <2> QED
    BY <1>2, <2>1, <2>2
<1>4. row = [i \in Ids |-> IF i = i1 THEN u ELSE NoRow] /\ target = [h \in Handlers |-> i1]
  BY <1>2 DEF Init
<1> HIDE DEF i1
<1>5. /\ row \in [Ids -> UserRows \cup {NoRow}] /\ target \in [Handlers -> Ids]
      /\ admin \in [hash : Hashes, salt : Salts]
  <2>1. admin \in [hash : Hashes, salt : Salts]
    BY <1>1 DEF Init, Hashes, Hash
  <2> QED
    BY <1>1, <1>3, <1>4, <2>1
<1>6. TypeOK
  <2>1. now \in 0 .. MaxTime /\ session \in 0 .. MaxTime + SessionAge /\ ops \in 0 .. MaxOps
    BY TimeAssumption DEF Init
  <2>2. /\ pc = [h \in Handlers |-> "idle"] /\ copy = [h \in Handlers |-> NoRow]
        /\ raced = [i \in Ids |-> {}]
        /\ stage = [i \in Ids |-> "asleep"] /\ snap = [i \in Ids |-> NoRow]
    BY DEF Init
  <2> QED
    BY <1>5, <2>1, <2>2 DEF TypeOK
<1>7. InputInv /\ CopyInv /\ SnapInv
  BY DEF Init, InputInv, CopyInv, SnapInv, Editing
<1>8. RowInv /\ OneRowPerName
  BY <1>1, <1>3, <1>4, SingleRow
<1>9. AdminInv
  <2>1. admin = [hash |-> Hash(p1, "first"), salt |-> "first"]
    BY DEF Init
  <2> HIDE DEF p1
  <2> QED
    BY <1>1, <2>1 DEF AdminInv
<1> QED
  BY <1>6, <1>7, <1>8, <1>9 DEF IInv, DataInv

-----------------------------------------------------------------------------
(* What the actions do to the rows *)

RowsOK == row \in [Ids -> UserRows \cup {NoRow}]

\* Writing over a row what is alike to it, deleted or not.
LEMMA Overwrite ==
  ASSUME RowsOK, RowInv, OneRowPerName, NEW i \in Ids, Exists(i), NEW u \in UserRows,
         Agrees(u), u.name = row[i].name, row' = [row EXCEPT ![i] = u]
  PROVE  /\ RowsOK' /\ RowInv' /\ OneRowPerName'
         /\ \A j \in Ids : /\ Exists(j)' <=> Exists(j)
                           /\ Exists(j) => row'[j].name = row[j].name
<1>1. RowsOK'
  BY DEF RowsOK
<1>2. row'[i] = u /\ \A j \in Ids : j # i => row'[j] = row[j]
  BY DEF RowsOK
<1>3. u # NoRow
  BY NoRowIsNone
<1>4. \A j \in Ids : /\ Exists(j)' <=> Exists(j)
                     /\ Exists(j) => row'[j].name = row[j].name
  BY <1>2, <1>3 DEF Exists
<1>5. RowInv'
  BY <1>2, <1>4 DEF RowInv, Exists
<1>6. OneRowPerName'
  BY <1>4 DEF OneRowPerName, Exists
<1> QED
  BY <1>1, <1>4, <1>5, <1>6

\* Inserting a row under a name that no row has.
LEMMA Inserted ==
  ASSUME RowsOK, RowInv, OneRowPerName, NEW u \in UserRows, Agrees(u), Insert(u)
  PROVE  /\ RowsOK' /\ RowInv' /\ OneRowPerName'
         /\ \A j \in Ids : Exists(j) => row'[j] = row[j]
<1>1. CASE NameTaken(u.name)
  <2>1. row' = row
    BY <1>1 DEF Insert
  <2> QED
    BY <2>1 DEF RowsOK, RowInv, OneRowPerName, Exists
<1>2. CASE ~NameTaken(u.name)
  <2>1. PICK i \in Ids : ~Exists(i) /\ row' = [row EXCEPT ![i] = u]
    BY <1>2 DEF Insert
  <2>2. row'[i] = u /\ \A j \in Ids : j # i => row'[j] = row[j]
    BY <2>1 DEF RowsOK
  <2>3. \A j \in Ids : Exists(j)' => j = i \/ Exists(j)
    BY <2>2 DEF Exists
  <2>4. \A j \in Ids : Exists(j) => row[j].name # u.name
    BY <1>2 DEF NameTaken
  <2>5. RowsOK'
    BY <2>1 DEF RowsOK
  <2>6. RowInv'
    BY <2>2, <2>3 DEF RowInv, Exists
  <2>7. OneRowPerName'
    BY <2>1, <2>2, <2>3, <2>4 DEF OneRowPerName, Exists
  <2> QED
    BY <2>1, <2>2, <2>5, <2>6, <2>7
<1> QED
  BY <1>1, <1>2

-----------------------------------------------------------------------------
(* Steps: what the invariant needs of the rows, and what it needs of the rest *)

AdminRows == [hash : Hashes, salt : Salts]
Operations == {"create", "upload", "recheck", "update", "delete", "admin"}

\* The rows stay a table; none is renamed, none is deleted.
RowsKept ==
  /\ RowsOK' /\ RowInv' /\ OneRowPerName'
  /\ \A j \in Ids : Exists(j) =>
       /\ Exists(j)' /\ row'[j].name = row[j].name
       /\ row'[j].deleted => row[j].deleted

LEMMA RowUnchanged == ASSUME IInv, UNCHANGED row PROVE RowsKept
  BY DEF IInv, DataInv, TypeOK, RowsKept, RowsOK, RowInv, OneRowPerName, Exists

LEMMA CopyKept ==
  ASSUME CopyInv, RowsKept, NEW h \in Handlers, pc[h] \in Editing,
         UNCHANGED <<pc[h], target[h], copy[h]>>, raced'[target[h]] = raced[target[h]],
         target[h] \in Ids
  PROVE  /\ copy'[h] \in UserRows /\ ~copy'[h].deleted /\ Agrees(copy'[h])
         /\ Exists(target[h])' /\ copy'[h].name = row'[target'[h]].name
         /\ row'[target'[h]].deleted => h \in raced'[target'[h]]
  BY DEF CopyInv, RowsKept

\* Steps outside the handlers.
LEMMA QuietHolds ==
  ASSUME IInv, UNCHANGED <<admin, pc, target, copy, input, raced>>, RowsKept, SnapInv',
         now' \in 0 .. MaxTime, session' \in 0 .. MaxTime + SessionAge, ops' \in 0 .. MaxOps,
         stage' \in [Ids -> {"asleep", "todo", "renewing", "status", "done"}],
         snap' \in [Ids -> UserRows \cup {NoRow}]
  PROVE  IInv'
<1>1. TypeOK'
  BY DEF IInv, TypeOK, RowsKept, RowsOK
<1>2. InputInv'
  BY DEF IInv, InputInv
<1>3. AdminInv'
  BY DEF IInv, DataInv, AdminInv
<1>4. CopyInv'
  BY DEF IInv, DataInv, CopyInv, RowsKept, TypeOK, Editing, Exists
<1> QED
  BY <1>1, <1>2, <1>3, <1>4 DEF IInv, DataInv, RowsKept

\* A request is read: what it works on, and what it has been given.
LEMMA WorkHolds ==
  ASSUME IInv, NEW h \in Handlers, NEW op \in Operations, NEW i \in Ids,
         NEW read \in UserRows \cup {NoRow} \cup AdminRows, NEW in, Work(h, op, i, read, in),
         op = "create" => in \in Names \X Passwords,
         op = "upload" => in \in Uploads,
         op = "update" => in \in Passwords \cup {None},
         op = "admin" => in \in Passwords,
         op \in Editing => read = row[i] /\ Live(i)
  PROVE  IInv'
<1>1. TypeOK'
  <2>1. ops' \in 0 .. MaxOps
    BY TimeAssumption DEF IInv, TypeOK, Work, CountOp
  <2>2. pc' \in [Handlers -> Operations \cup {"idle"}] /\ target' \in [Handlers -> Ids]
    BY DEF IInv, TypeOK, Work, Operations
  <2>3. copy' \in [Handlers -> UserRows \cup {NoRow} \cup AdminRows]
    BY DEF IInv, TypeOK, Work, AdminRows
  <2> QED
    BY <2>1, <2>2, <2>3 DEF IInv, TypeOK, Work, Operations, AdminRows, monitor
<1>2. InputInv'
  BY DEF IInv, TypeOK, InputInv, Work
<1>3. RowsKept /\ AdminInv' /\ SnapInv'
  BY RowUnchanged DEF IInv, DataInv, AdminInv, SnapInv, Work, monitor
<1>4. CopyInv'
  <2> SUFFICES ASSUME NEW g \in Handlers, pc'[g] \in Editing
               PROVE  /\ copy'[g] \in UserRows /\ ~copy'[g].deleted /\ Agrees(copy'[g])
                      /\ Exists(target[g])' /\ copy'[g].name = row'[target'[g]].name
                      /\ row'[target'[g]].deleted => g \in raced'[target'[g]]
    BY DEF CopyInv
  <2>1. CASE g = h
    <3>1. pc'[g] = op /\ target'[g] = i /\ copy'[g] = read /\ row' = row
      BY <2>1 DEF IInv, TypeOK, Work
    <3>2. row[i] \in UserRows /\ Agrees(row[i]) /\ ~row[i].deleted /\ Exists(i) /\ read = row[i]
      BY <3>1, RowType DEF IInv, DataInv, RowInv, Live
    <3> QED
      BY <3>1, <3>2 DEF Exists
  <2>2. CASE g # h
    <3>1. UNCHANGED <<pc[g], target[g], copy[g], raced>> /\ target[g] \in Ids
      BY <2>2 DEF IInv, TypeOK, Work
    <3> QED
      BY <1>3, <3>1, CopyKept DEF IInv, DataInv
  <2> QED
    BY <2>1, <2>2
<1> QED
  BY <1>1, <1>2, <1>3, <1>4 DEF IInv, DataInv, RowsKept

\* A handler is done.
LEMMA FinishedHolds ==
  ASSUME IInv, NEW h \in Handlers, Finished(h), RowsKept,
         admin' \in AdminRows, AdminInv', session' \in 0 .. MaxTime + SessionAge
  PROVE  IInv'
<1>1. TypeOK'
  BY DEF IInv, TypeOK, RowsKept, RowsOK, Finished, AdminRows, monitor
<1>2. InputInv'
  BY DEF IInv, TypeOK, InputInv, Finished
<1>3. SnapInv'
  BY DEF IInv, SnapInv, Finished, monitor
<1>4. CopyInv'
  <2> SUFFICES ASSUME NEW g \in Handlers, pc'[g] \in Editing
               PROVE  /\ copy'[g] \in UserRows /\ ~copy'[g].deleted /\ Agrees(copy'[g])
                      /\ Exists(target[g])' /\ copy'[g].name = row'[target'[g]].name
                      /\ row'[target'[g]].deleted => g \in raced'[target'[g]]
    BY DEF CopyInv
  <2>1. g # h /\ pc[g] \in Editing
    BY DEF IInv, TypeOK, Finished, Editing
  <2>2. target[g] \in Ids /\ UNCHANGED <<target[g], copy[g]>> /\ pc'[g] = pc[g]
    BY <2>1 DEF IInv, TypeOK, Finished
  <2>3. raced'[target[g]] = raced[target[g]] \ {h}
    BY <2>2 DEF Finished
  <2> QED
    BY <2>1, <2>2, <2>3 DEF IInv, DataInv, CopyInv, RowsKept
<1> QED
  BY <1>1, <1>2, <1>3, <1>4 DEF IInv, DataInv, RowsKept

-----------------------------------------------------------------------------
(* The actions *)

LEMMA ChangeHolds == ASSUME IInv, NEW h \in Handlers, Change(h) PROVE IInv'
<1>1. input[h] \in Passwords /\ h \in Salts
  BY DEF IInv, InputInv, Change, Salts
<1>2. admin' \in AdminRows /\ AdminInv'
  BY <1>1 DEF Change, AdminRows, AdminInv, Hash, Hashes
<1>3. session' \in 0 .. MaxTime + SessionAge
  BY TimeAssumption DEF IInv, TypeOK, Change
<1> QED
  BY <1>2, <1>3, RowUnchanged, FinishedHolds DEF Change

LEMMA AdminUnchanged ==
  ASSUME IInv, UNCHANGED <<admin, session>>
  PROVE  admin' \in AdminRows /\ AdminInv' /\ session' \in 0 .. MaxTime + SessionAge
  BY DEF IInv, TypeOK, DataInv, AdminInv, AdminRows

LEMMA InsertKeeps ==
  ASSUME IInv, NEW u \in UserRows, Agrees(u), Insert(u)
  PROVE  RowsKept
<1>1. RowsOK /\ RowInv /\ OneRowPerName
  BY DEF IInv, DataInv, TypeOK, RowsOK
<1> QED
  BY <1>1, Inserted DEF RowsKept, Exists

LEMMA CreateHolds == ASSUME IInv, NEW h \in Handlers, Create(h) PROVE IInv'
<1>1. input[h][1] \in Names /\ input[h][2] \in Passwords /\ h \in Salts /\ <<>> \in Jars
  BY DEF IInv, InputInv, Create, Salts, Jars
<1>2. RowsKept
  BY <1>1, NewUserType, InsertKeeps DEF Create
<1> QED
  BY <1>2, AdminUnchanged, FinishedHolds DEF Create

LEMMA OverwriteKeeps ==
  ASSUME RowsOK, RowInv, OneRowPerName, NEW i \in Ids, Exists(i), NEW u \in UserRows,
         Agrees(u), u.name = row[i].name, ~u.deleted, row' = [row EXCEPT ![i] = u]
  PROVE  RowsKept
<1>1. row'[i] = u /\ \A j \in Ids : j # i => row'[j] = row[j]
  BY DEF RowsOK
<1>2. /\ RowsOK' /\ RowInv' /\ OneRowPerName'
      /\ \A j \in Ids : /\ Exists(j)' <=> Exists(j)
                        /\ Exists(j) => row'[j].name = row[j].name
  BY Overwrite
<1>3. ASSUME NEW j \in Ids, row'[j].deleted PROVE row[j].deleted
  <2>1. j # i
    BY <1>1, <1>3
  <2> QED
    BY <1>1, <1>3, <2>1
<1> QED
  BY <1>2, <1>3 DEF RowsKept

\* A save of a copy: the row may be deleted by now, its name is the same.
LEMMA FinishWithHolds ==
  ASSUME IInv, NEW h \in Handlers, NEW op \in Editing, NEW u,
         FinishWith(h, op, u), Alike(copy[h], u)
  PROVE  IInv'
<1>1. /\ RowsOK /\ RowInv /\ OneRowPerName /\ target[h] \in Ids
      /\ Exists(target[h]) /\ copy[h].name = row[target[h]].name /\ ~copy[h].deleted
  BY DEF IInv, DataInv, TypeOK, RowsOK, CopyInv, FinishWith
<1>2. u \in UserRows /\ Agrees(u) /\ u.name = row[target[h]].name /\ ~u.deleted
  BY <1>1 DEF Alike
<1>3. row' = [row EXCEPT ![target[h]] = u]
  BY DEF FinishWith, Save
<1>4. RowsKept
  BY <1>1, <1>2, <1>3, OverwriteKeeps
<1> QED
  BY <1>4, AdminUnchanged, FinishedHolds DEF FinishWith

LEMMA CopyOf ==
  ASSUME IInv, NEW h \in Handlers, pc[h] \in Editing
  PROVE  copy[h] \in UserRows /\ Agrees(copy[h])
  BY DEF IInv, DataInv, CopyInv

LEMMA SaveHolds ==
  ASSUME IInv, NEW h \in Handlers, Replenish(h) \/ Recheck(h) \/ UpdateUser(h)
  PROVE  IInv'
<1>1. pc[h] \in Editing
  BY DEF Replenish, Recheck, UpdateUser, FinishWith, Editing
<1>2. copy[h] \in UserRows /\ Agrees(copy[h])
  BY <1>1, CopyOf
<1>3. CASE Replenish(h)
  <2>1. input[h] \in Uploads
    BY <1>3 DEF IInv, InputInv, Replenish, FinishWith
  <2> QED
    BY <1>2, <1>3, <2>1, UploadAlike, FinishWithHolds DEF Replenish, Editing
<1>4. CASE Recheck(h)
  BY <1>2, <1>4, RecheckAlike, FinishWithHolds DEF Recheck, Editing
<1>5. CASE UpdateUser(h)
  <2>1. input[h] \in Passwords \cup {None} /\ h \in Salts
    BY <1>5 DEF IInv, InputInv, UpdateUser, FinishWith, Salts
  <2>2. Alike(copy[h], copy[h])
    BY <1>2 DEF Alike
  <2>3. Alike(copy[h], IF input[h] = None THEN copy[h] ELSE NewPassword(copy[h], input[h], h))
    BY <1>2, <2>1, <2>2, PasswordAlike
  <2> QED
    BY <1>5, <2>3, FinishWithHolds DEF UpdateUser, Editing
<1> QED
  BY <1>3, <1>4, <1>5

\* Everyone at work on a row when it is deleted is known to race with it.
LEMMA DeleteHolds == ASSUME IInv, NEW h \in Handlers, DeleteUser(h) PROVE IInv'
<1> DEFINE i == target[h]
           u == [row[i] EXCEPT !.deleted = TRUE]
<1>1. i \in Ids /\ RowsOK /\ RowInv /\ OneRowPerName
  BY DEF IInv, DataInv, TypeOK, RowsOK
<1>2. CASE Live(i)
  <2>1. Exists(i) /\ row[i] \in UserRows /\ Agrees(row[i])
    BY <1>1, <1>2, RowType DEF Live, IInv, DataInv, RowInv
  <2>2. u \in UserRows /\ Agrees(u) /\ u.name = row[i].name
    BY <2>1 DEF UserRows, Agrees
  <2>3. row' = [row EXCEPT ![i] = u]
    BY <1>2 DEF DeleteUser, Updates
  <2> HIDE DEF u
  <2>4. /\ RowsOK' /\ RowInv' /\ OneRowPerName'
        /\ \A j \in Ids : /\ Exists(j)' <=> Exists(j)
                          /\ Exists(j) => row'[j].name = row[j].name
    BY <1>1, <2>1, <2>2, <2>3, Overwrite
  <2>5. \A j \in Ids : j # i => row'[j] = row[j]
    BY <1>1, <2>3 DEF RowsOK
  <2>6. /\ raced' = [raced EXCEPT ![i] = {g \in Handlers \ {h} : pc[g] # "idle" /\ target[g] = i}]
        /\ pc' = [pc EXCEPT ![h] = "idle"] /\ copy' = [copy EXCEPT ![h] = NoRow]
        /\ UNCHANGED <<now, admin, session, target, input, ops, monitor>>
    BY <1>2 DEF DeleteUser
  <2>7. TypeOK'
    BY <1>1, <2>4, <2>6 DEF IInv, TypeOK, RowsOK, monitor
  <2>8. InputInv' /\ AdminInv' /\ SnapInv'
    BY <2>6 DEF IInv, TypeOK, DataInv, InputInv, AdminInv, SnapInv, monitor
  <2>9. CopyInv'
    <3> SUFFICES ASSUME NEW g \in Handlers, pc'[g] \in Editing
                 PROVE  /\ copy'[g] \in UserRows /\ ~copy'[g].deleted /\ Agrees(copy'[g])
                        /\ Exists(target[g])' /\ copy'[g].name = row'[target'[g]].name
                        /\ row'[target'[g]].deleted => g \in raced'[target'[g]]
      BY DEF CopyInv
    <3>1. g # h /\ pc[g] \in Editing /\ pc[g] # "idle"
      BY <2>6 DEF IInv, TypeOK, Editing
    <3>2. target[g] \in Ids /\ target'[g] = target[g] /\ copy'[g] = copy[g]
      BY <2>6, <3>1 DEF IInv, TypeOK
    <3>3. /\ copy'[g] \in UserRows /\ ~copy'[g].deleted /\ Agrees(copy'[g])
          /\ Exists(target[g])' /\ copy'[g].name = row'[target'[g]].name
      <4>1. /\ copy[g] \in UserRows /\ ~copy[g].deleted /\ Agrees(copy[g])
            /\ Exists(target[g]) /\ copy[g].name = row[target[g]].name
        BY <3>1 DEF IInv, DataInv, CopyInv
      <4>2. row'[target[g]] # NoRow /\ row'[target[g]].name = row[target[g]].name
        BY <2>4, <3>2, <4>1 DEF Exists
      <4> QED
        BY <3>2, <4>1, <4>2 DEF Exists
    <3>4. CASE target[g] = i
      BY <2>6, <3>1, <3>2, <3>3, <3>4, <1>1 DEF IInv, TypeOK
    <3>5. CASE target[g] # i
      BY <2>5, <2>6, <3>1, <3>2, <3>3, <3>5 DEF IInv, TypeOK, DataInv, CopyInv
    <3> QED
      BY <3>3, <3>4, <3>5
  <2> QED
    BY <2>4, <2>7, <2>8, <2>9 DEF IInv, DataInv
<1>3. CASE ~Live(i)
  <2>1. /\ row' = row /\ raced' = raced
        /\ pc' = [pc EXCEPT ![h] = "idle"] /\ copy' = [copy EXCEPT ![h] = NoRow]
        /\ UNCHANGED <<now, admin, session, target, input, ops, monitor>>
    BY <1>3 DEF DeleteUser, Updates
  <2>2. TypeOK'
    BY <2>1 DEF IInv, TypeOK, monitor
  <2>3. InputInv' /\ AdminInv' /\ SnapInv' /\ RowInv' /\ OneRowPerName'
    BY <2>1 DEF IInv, TypeOK, DataInv, InputInv, AdminInv, SnapInv, RowInv, OneRowPerName, Exists, monitor
  <2>4. \A g \in Handlers : pc'[g] \in Editing =>
          pc[g] \in Editing /\ copy'[g] = copy[g]
    BY <2>1 DEF IInv, TypeOK, Editing
  <2>5. CopyInv'
    BY <2>1, <2>4 DEF IInv, DataInv, CopyInv, Exists
  <2> QED
    BY <2>2, <2>3, <2>5 DEF IInv, DataInv
<1> QED
  BY <1>2, <1>3

\* Single columns are written over live rows only.
LEMMA UpdatesKeep ==
  ASSUME IInv, NEW i \in Ids, NEW u, Updates(i, u), Live(i) => Alike(row[i], u)
  PROVE  RowsKept
<1>1. CASE Live(i)
  <2>1. RowsOK /\ RowInv /\ OneRowPerName /\ Exists(i) /\ ~row[i].deleted
    BY <1>1 DEF Live, IInv, DataInv, TypeOK, RowsOK
  <2>2. u \in UserRows /\ Agrees(u) /\ u.name = row[i].name /\ u.deleted = row[i].deleted
    BY <1>1 DEF Alike
  <2>3. row' = [row EXCEPT ![i] = u]
    BY <1>1 DEF Updates
  <2> QED
    BY <2>1, <2>2, <2>3, OverwriteKeeps
<1>2. CASE ~Live(i)
  BY <1>2, RowUnchanged DEF Updates
<1> QED
  BY <1>1, <1>2

Stages == {"asleep", "todo", "renewing", "status", "done"}

\* The clock and the admin's cookie.
LEMMA SessionHolds ==
  ASSUME IInv, Tick \/ HandleLogout \/ \E p \in Passwords : HandleLogin(p)
  PROVE  IInv'
<1>1. UNCHANGED <<admin, row, pc, target, copy, input, ops, raced, stage, snap>>
  BY DEF Tick, HandleLogout, HandleLogin, handlers, monitor
<1>2. now' \in 0 .. MaxTime /\ session' \in 0 .. MaxTime + SessionAge
  BY TimeAssumption DEF IInv, TypeOK, Tick, HandleLogout, HandleLogin
<1>3. SnapInv'
  BY <1>1 DEF IInv, SnapInv
<1> QED
  BY <1>1, <1>2, <1>3, RowUnchanged, QuietHolds DEF IInv, TypeOK

LEMMA CreateAccountHolds ==
  ASSUME IInv, NEW name \in Names, NEW p \in Passwords, NEW jar \in Uploads,
         CreateAccount(name, p, jar)
  PROVE  IInv'
<1>1. jar \in Jars /\ "first" \in Salts
  BY DEF Jars, Salts
<1>2. RowsKept
  BY <1>1, NewUserType, InsertKeeps DEF CreateAccount
<1>3. ops' \in 0 .. MaxOps
  BY TimeAssumption DEF IInv, TypeOK, CreateAccount, CountOp
<1>4. UNCHANGED <<now, admin, session, pc, target, copy, input, raced, stage, snap>> /\ SnapInv'
  BY DEF CreateAccount, monitor, IInv, SnapInv
<1> QED
  BY <1>2, <1>3, <1>4, QuietHolds DEF IInv, TypeOK

\* Steps of the monitor that keep its part of the invariant.
LEMMA MonitorHolds ==
  ASSUME IInv, MonitorOnly, RowsKept, SnapInv', stage' \in [Ids -> Stages],
         snap' \in [Ids -> UserRows \cup {NoRow}]
  PROVE  IInv'
<1>1. UNCHANGED <<now, admin, session, pc, target, copy, input, ops, raced>>
  BY DEF MonitorOnly, handlers
<1> QED
  BY <1>1, QuietHolds DEF IInv, TypeOK, Stages

LEMMA StartPassHolds == ASSUME IInv, StartPass PROVE IInv'
<1>1. \A i \in Ids : Live(i) => row[i] \in UserRows
  BY RowType DEF Live, IInv
<1>2. stage' \in [Ids -> Stages] /\ snap' \in [Ids -> UserRows \cup {NoRow}] /\ SnapInv'
  BY <1>1 DEF StartPass, Stages, SnapInv
<1> QED
  BY <1>2, RowUnchanged, MonitorHolds DEF StartPass

LEMMA CheckHolds ==
  ASSUME IInv, NEW i \in Ids, CheckUser(i) \/ RenewFails(i)
  PROVE  IInv'
<1>1. PICK next \in {"done", "renewing", "status"} : stage' = [stage EXCEPT ![i] = next]
  BY DEF CheckUser, RenewFails
<1>2. stage[i] \in {"todo", "renewing"} /\ snap' = snap /\ row' = row /\ MonitorOnly
  BY DEF CheckUser, RenewFails
<1>3. stage' \in [Ids -> Stages] /\ snap' \in [Ids -> UserRows \cup {NoRow}]
  BY <1>1, <1>2 DEF IInv, TypeOK, Stages
<1>4. SnapInv'
  BY <1>1, <1>2 DEF IInv, TypeOK, SnapInv
<1> QED
  BY <1>2, <1>3, <1>4, RowUnchanged, MonitorHolds

LEMMA AttemptRenewHolds ==
  ASSUME IInv, NEW i \in Ids, NEW jar \in Renewed, AttemptRenew(i, jar)
  PROVE  IInv'
<1>1. snap[i] \in UserRows /\ jar \in Jars
  BY DEF IInv, SnapInv, AttemptRenew, Jars
<1>2. WithJar(snap[i], jar) \in UserRows
  <2>1. MediaTokenExpiry(jar) \in Expiries
    BY <1>1, ExpiryType
  <2> QED
    BY <1>1, <2>1 DEF UserRows, WithJar
<1>3. Live(i) => Alike(row[i], WithJar(row[i], jar))
  BY <1>1, RowType, JarAlike DEF Live, IInv, DataInv, RowInv
<1>4. RowsKept
  BY <1>3, UpdatesKeep DEF AttemptRenew
<1>5. /\ stage' \in [Ids -> Stages] /\ snap' = [snap EXCEPT ![i] = WithJar(snap[i], jar)]
      /\ stage' = [stage EXCEPT ![i] = "status"] /\ MonitorOnly
  BY DEF IInv, TypeOK, Stages, AttemptRenew
<1>6. snap' \in [Ids -> UserRows \cup {NoRow}] /\ SnapInv'
  BY <1>2, <1>5 DEF IInv, TypeOK, SnapInv
<1> QED
  BY <1>4, <1>5, <1>6, MonitorHolds

LEMMA WriteStatusHolds == ASSUME IInv, NEW i \in Ids, WriteStatus(i) PROVE IInv'
<1>1. snap[i].jar \in Jars
  BY DEF IInv, SnapInv, WriteStatus, UserRows
<1>2. Live(i) => Alike(row[i], Checked(row[i], snap[i].jar))
  BY <1>1, RowType, CheckedAlike DEF Live, IInv, DataInv, RowInv
<1>3. RowsKept
  BY <1>2, UpdatesKeep DEF WriteStatus
<1>4. /\ stage' = [stage EXCEPT ![i] = "done"] /\ snap' = [snap EXCEPT ![i] = NoRow]
      /\ MonitorOnly
  BY DEF WriteStatus
<1>5. stage' \in [Ids -> Stages] /\ snap' \in [Ids -> UserRows \cup {NoRow}] /\ SnapInv'
  BY <1>4 DEF IInv, TypeOK, SnapInv, Stages
<1> QED
  BY <1>3, <1>4, <1>5, MonitorHolds

LEMMA BeginHolds ==
  ASSUME IInv, NEW h \in Handlers, NEW i \in Ids, NEW op \in Editing \cup {"delete"}, NEW in,
         Begin(h, op, i, in), op = "upload" => in \in Uploads,
         op = "update" => in \in Passwords \cup {None}
  PROVE  IInv'
<1>1. Live(i) /\ row[i] \in UserRows /\ Work(h, op, i, row[i], in)
  BY RowType DEF Begin, Live, IInv
<1>2. op \in Operations
  BY DEF Operations, Editing
<1> QED
  BY <1>1, <1>2, WorkHolds DEF Editing

LEMMA BeginChangeHolds ==
  ASSUME IInv, NEW h \in Handlers, NEW current \in Passwords, NEW p \in Passwords,
         BeginChange(h, current, p)
  PROVE  IInv'
<1>1. admin \in AdminRows /\ target[h] \in Ids /\ "admin" \in Operations /\ "admin" \notin Editing
  BY DEF IInv, TypeOK, AdminRows, Operations, Editing
<1> QED
  BY <1>1, WorkHolds DEF BeginChange

LEMMA BeginCreateHolds ==
  ASSUME IInv, NEW h \in Handlers, NEW name \in Names, NEW p \in Passwords,
         BeginCreate(h, name, p)
  PROVE  IInv'
<1>1. target[h] \in Ids /\ "create" \in Operations /\ "create" \notin Editing
  BY DEF IInv, TypeOK, Operations, Editing
<1>2. <<name, p>> \in Names \X Passwords
  OBVIOUS
<1> QED
  BY <1>1, <1>2, WorkHolds DEF BeginCreate

LEMMA NextHolds == IInv /\ [Next]_vars => IInv'
<1> SUFFICES ASSUME IInv, [Next]_vars PROVE IInv'
  OBVIOUS
<1>1. CASE UNCHANGED vars
  BY <1>1, RowUnchanged, QuietHolds
     DEF vars, handlers, monitor, IInv, TypeOK, SnapInv
<1>2. CASE Tick \/ HandleLogout \/ \E p \in Passwords : HandleLogin(p)
  BY <1>2, SessionHolds
<1>3. CASE \E h \in Handlers, p \in Passwords :
             \/ \E current \in Passwords : BeginChange(h, current, p)
             \/ \E name \in Names : BeginCreate(h, name, p)
  BY <1>3, BeginChangeHolds, BeginCreateHolds
<1>4. CASE \E name \in Names, p \in Passwords, jar \in Uploads : CreateAccount(name, p, jar)
  BY <1>4, CreateAccountHolds
<1>5. CASE \E h \in Handlers, i \in Ids :
             \/ \E jar \in Uploads : BeginUpload(h, i, jar)
             \/ \E p \in Passwords \cup {None} : Begin(h, "update", i, p)
             \/ Begin(h, "recheck", i, None) \/ Begin(h, "delete", i, None)
  BY <1>5, BeginHolds DEF BeginUpload, Editing
<1>6. CASE FinishNext
  BY <1>6, ChangeHolds, CreateHolds, SaveHolds, DeleteHolds DEF FinishNext
<1>7. CASE MonitorNext
  BY <1>7, StartPassHolds, CheckHolds, AttemptRenewHolds, WriteStatusHolds DEF MonitorNext
<1> QED
  BY <1>1, <1>2, <1>3, <1>4, <1>5, <1>6, <1>7 DEF Next

-----------------------------------------------------------------------------
(* Theorems *)

\* The inductive invariant: rows and copies of rows agree with themselves on the
\* password, a copy has its row's name, and a copy of a deleted row is known.
THEOREM Invariant == Spec => []IInv
  BY InitHolds, NextHolds, PTL DEF Spec

\* Every variable keeps its type.
THEOREM TypeCorrect == Spec => []TypeOK
  BY Invariant, PTL DEF IInv

\* Whatever stale rows are saved, token and password logins accept the same
\* password, and the admin's hash goes with its salt.
THEOREM LoginsAgree == Spec => []PasswordsAgree
<1>1. IInv => PasswordsAgree
  <2> SUFFICES ASSUME IInv PROVE PasswordsAgree
    OBVIOUS
  <2>1. ASSUME NEW i \in Ids, Live(i), NEW p \in Passwords
        PROVE  AcceptsToken(row[i], p) <=> AcceptsPassword(row[i], p)
    <3>1. row[i].hash = Hash(row[i].token, row[i].salt)
      BY <2>1 DEF IInv, DataInv, RowInv, Live, Agrees
    <3> QED
      BY <3>1 DEF AcceptsToken, AcceptsPassword, Hash
  <2>2. AdminInv
    BY DEF IInv, DataInv
  <2> QED
    BY <2>1, <2>2 DEF PasswordsAgree, AdminInv
<1> QED
  BY <1>1, Invariant, PTL

\* The table never has two rows of one name, deleted ones included.
THEOREM NamesAreUnique == Spec => []OneRowPerName
  BY Invariant, PTL DEF IInv, DataInv

\* A step that writes the row of a deleted user is the save of a handler that
\* had read the row before the deletion.
THEOREM OnlyRacesRestore == Spec => DeletedUnlessRaced
<1>1. IInv /\ [Next]_vars =>
        [\A i \in Ids : Exists(i) /\ row[i].deleted /\ raced[i] = {} => row'[i] = row[i]]_vars
  <2> SUFFICES ASSUME IInv, Next, NEW i \in Ids, Exists(i), row[i].deleted, raced[i] = {}
               PROVE  row'[i] = row[i]
    OBVIOUS
  <2>1. ~Live(i) /\ row \in [Ids -> UserRows \cup {NoRow}]
    BY DEF Live, IInv, TypeOK
  <2>2. CASE Tick \/ HandleLogout \/ \E p \in Passwords : HandleLogin(p)
    BY <2>2 DEF Tick, HandleLogout, HandleLogin
  <2>4. ASSUME NEW u, Insert(u) PROVE row'[i] = row[i]
    BY <2>1, <2>4 DEF Insert
  <2>5. ASSUME NEW h \in Handlers, NEW op \in Editing, NEW u, FinishWith(h, op, u)
        PROVE  row'[i] = row[i]
    <3>1. target[h] # i
      BY <2>5 DEF IInv, DataInv, CopyInv, FinishWith
    <3> QED
      BY <2>1, <2>5, <3>1 DEF FinishWith, Save
  <2>6. ASSUME NEW j \in Ids, NEW u, Updates(j, u) PROVE row'[i] = row[i]
    BY <2>1, <2>6 DEF Updates
  <2>7. CASE FinishNext
    <3>1. PICK h \in Handlers : Change(h) \/ Create(h) \/ Replenish(h) \/ Recheck(h)
                                 \/ UpdateUser(h) \/ DeleteUser(h)
      BY <2>7 DEF FinishNext
    <3>2. target[h] \in Ids
      BY DEF IInv, TypeOK
    <3> QED
      BY <2>4, <2>5, <2>6, <3>1, <3>2
         DEF Change, Create, Replenish, Recheck, UpdateUser, DeleteUser, Editing
  <2>8. CASE MonitorNext
    BY <2>6, <2>8 DEF MonitorNext, StartPass, CheckUser, RenewFails, AttemptRenew, WriteStatus
  <2>9. CASE \E name \in Names, p \in Passwords, jar \in Uploads : CreateAccount(name, p, jar)
    BY <2>4, <2>9 DEF CreateAccount
  <2>10. CASE \E h \in Handlers, p \in Passwords :
                \/ \E current \in Passwords : BeginChange(h, current, p)
                \/ \E name \in Names : BeginCreate(h, name, p)
    BY <2>10 DEF BeginChange, BeginCreate, Work
  <2>11. CASE \E h \in Handlers, j \in Ids :
                \/ \E jar \in Uploads : BeginUpload(h, j, jar)
                \/ \E p \in Passwords \cup {None} : Begin(h, "update", j, p)
                \/ Begin(h, "recheck", j, None) \/ Begin(h, "delete", j, None)
    BY <2>11 DEF BeginUpload, Begin, Work
  <2> QED
    BY <2>2, <2>7, <2>8, <2>9, <2>10, <2>11 DEF Next
<1> QED
  BY <1>1, Invariant, PTL DEF Spec, DeletedUnlessRaced

=============================================================================
