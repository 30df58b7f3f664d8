------------------------- MODULE UserAdmin_proofs -------------------------
(***************************************************************************)
(* Proofs about UserAdmin: the type invariant, AdminRemains, SessionsFresh *)
(* and NotOneself hold for every set of names, roles, tokens and handlers, *)
(* every seed with an enabled administrator and every bound.               *)
(***************************************************************************)
EXTENDS UserAdmin, SequenceTheorems, TLAPS

-----------------------------------------------------------------------------
(* What a handler in flight can rely on *)

Requests == {"role", "toggle", "delete", "password"}
InFlight == [pc: PCs \ {"idle"}, kind: Kinds, id: 0..MaxUsers, row: Row \cup {NoRow},
             role: Roles, token: Tokens, stale: BOOLEAN]

\* The fields a handler fills in on its way: a row to insert, a target that has
\* been in the table, the row that toggling will invert, the row behind a login.
FieldsOK(j) ==
    /\ j.pc = "insert" => j.row \in Row
    /\ j.pc \in {"load", "count", "update", "revoke"} => j.kind \in Requests
    /\ j.pc \in {"load", "count", "update", "revoke", "put"} => j.id \in DOMAIN user
    /\ j.pc \in {"count", "update"} /\ j.kind = "toggle" => j.row \in Row
    /\ j.pc = "put" => j.row \in Row

\* The token of a login is its own: no session has it and no other handler.
OwnToken(h) ==
    job[h].pc = "put" =>
        /\ session[job[h].token] = NoSession
        /\ \A g \in Handlers \ {h} : job[g] # NoJob => job[g].token # job[h].token

\* The request was not sent by its own target.
NotSelf(j) ==
    j.pc \in {"count", "update"} /\ j.kind \in {"toggle", "delete"} =>
        session[j.token].id # j.id

\* A request whose UPDATE may take an administrator away has seen another one,
\* unless that one may be gone by now.
MayTake(j) ==
    \/ j.kind = "role" /\ j.role # "admin"
    \/ j.kind = "toggle" /\ j.row.active
    \/ j.kind = "delete"
HasSeenAdmin(j) ==
    j.pc = "update" /\ MayTake(j) /\ ~j.stale /\ ~blind =>
        \E i \in DOMAIN user \ {j.id} : EnabledAdmin(i)

\* A row seen at a login is the row of the table, or its sessions are about to go.
Fresh(i, row) ==
    \/ \E h \in Handlers : job[h].pc = "revoke" /\ job[h].id = i
    \/ Exists(i) /\ user[i] = [row EXCEPT !.active = TRUE]
FreshLogin(j) == j.pc = "put" /\ ~j.stale => Fresh(j.id, j.row)

TypeInv == TypeOK /\ \A h \in Handlers : FieldsOK(job[h])
AdminInv == AdminRemains /\ \A h \in Handlers : HasSeenAdmin(job[h])
TokenInv == \A h \in Handlers : OwnToken(h)
SelfInv == \A h \in Handlers : NotSelf(job[h])
FreshInv == SessionsFresh /\ \A h \in Handlers : FreshLogin(job[h])

IInv == TypeInv /\ AdminInv /\ TokenInv /\ SelfInv /\ FreshInv

-----------------------------------------------------------------------------
(* Jobs and rows keep their type under the updates the actions make *)

LEMMA InFlightType ==
    ASSUME TypeOK, NEW h \in Handlers, job[h].pc # "idle"
    PROVE  job[h] \in InFlight
  BY DEF TypeOK, Job, InFlight, NoJob

LEMMA FinishType ==
    ASSUME TypeOK, NEW h \in Handlers, Finish(h)
    PROVE  /\ job' \in [Handlers -> Job]
           /\ job'[h] = NoJob
           /\ \A g \in Handlers \ {h} : job'[g] = job[g]
  BY DEF TypeOK, Job, Finish

LEMMA StartType ==
    ASSUME TypeOK, NEW h \in Handlers,
           NEW pc \in PCs \ {"idle"}, NEW kind \in Kinds, NEW id \in 0..MaxUsers,
           NEW row \in Row \cup {NoRow}, NEW role \in Roles, NEW t \in Tokens,
           job' = [job EXCEPT ![h] = JobAt(pc, kind, id, row, role, t)]
    PROVE  /\ job' \in [Handlers -> Job]
           /\ job'[h] = JobAt(pc, kind, id, row, role, t)
           /\ \A g \in Handlers \ {h} : job'[g] = job[g]
  BY DEF TypeOK, Job, JobAt

\* The other handlers know no less than before.
LEMMA OthersType ==
    ASSUME TypeInv, TypeOK', DOMAIN user \subseteq DOMAIN user', NEW h \in Handlers,
           \A g \in Handlers \ {h} : job'[g] = job[g], FieldsOK(job[h])'
    PROVE  TypeInv'
  BY DEF TypeInv, FieldsOK

LEMMA LoginType ==
    ASSUME TypeInv, NEW h \in Handlers, NEW i \in Ids, NEW p \in 0..MaxPassword,
           NEW t \in Tokens, DoLogin(h, i, p, t)
    PROVE  TypeInv'
<1>1. i \in DOMAIN user /\ user[i] \in Row /\ user[i].role \in Roles /\ i \in 0..MaxUsers
  BY DEF TypeInv, TypeOK, DoLogin, Exists, Row, Ids
<1>2. /\ job' \in [Handlers -> Job]
      /\ job'[h] = JobAt("put", "login", i, user[i], user[i].role, t)
      /\ \A g \in Handlers \ {h} : job'[g] = job[g]
  BY <1>1, StartType DEF TypeInv, DoLogin, PCs, Kinds
<1>3. FieldsOK(job[h])'
  BY <1>1, <1>2 DEF FieldsOK, JobAt, DoLogin
<1>4. QED
  BY <1>2, <1>3, OthersType DEF TypeInv, TypeOK, DoLogin

LEMMA PutType ==
    ASSUME TypeInv, NEW h \in Handlers, SessionPut(h)
    PROVE  TypeInv'
<1>1. job[h] \in InFlight /\ job[h].id \in Ids /\ job[h].row \in Row
  BY InFlightType, BoundAssumption DEF TypeInv, TypeOK, FieldsOK, SessionPut, Ids, InFlight
<1>2. session' \in [Tokens -> Entry \cup {NoSession}]
  BY <1>1 DEF SessionPut, TypeInv, TypeOK, Entry, InFlight
<1>3. /\ job' \in [Handlers -> Job] /\ job'[h] = NoJob
      /\ \A g \in Handlers \ {h} : job'[g] = job[g]
  BY FinishType DEF SessionPut, TypeInv
<1>4. QED
  BY <1>2, <1>3, OthersType DEF SessionPut, TypeInv, TypeOK, FieldsOK, NoJob

LEMMA CreateType ==
    ASSUME TypeInv, NEW h \in Handlers, NEW t \in Tokens, NEW name \in Names,
           NEW role \in Roles, UserCreate(h, t, name, role)
    PROVE  TypeInv'
<1> DEFINE row == [name |-> name, role |-> role, active |-> TRUE, password |-> 0]
<1>1. row \in Row /\ 0 \in 0..MaxUsers
  BY BoundAssumption DEF Row
<1>2. /\ job' \in [Handlers -> Job] /\ job'[h] = JobAt("insert", "create", 0, row, role, t)
      /\ \A g \in Handlers \ {h} : job'[g] = job[g]
  BY <1>1, StartType DEF TypeInv, UserCreate, PCs, Kinds
<1>3. QED
  BY <1>1, <1>2, OthersType DEF TypeInv, TypeOK, UserCreate, FieldsOK, JobAt

LEMMA InsertType ==
    ASSUME TypeInv, NEW h \in Handlers, UserInsert(h)
    PROVE  TypeInv'
<1>1. /\ job' \in [Handlers -> Job] /\ job'[h] = NoJob
      /\ \A g \in Handlers \ {h} : job'[g] = job[g]
  BY FinishType DEF UserInsert, TypeInv
<1>2. /\ user' \in Seq(Row \cup {NoRow}) /\ Len(user') <= MaxUsers
      /\ DOMAIN user \subseteq DOMAIN user'
  <2>1. CASE UNCHANGED user
    BY <2>1 DEF TypeInv, TypeOK
  <2>2. CASE user' = Append(user, job[h].row) /\ Len(user) < MaxUsers
    <3>1. job[h].row \in Row
      BY DEF TypeInv, FieldsOK, UserInsert
    <3>2. QED
      BY <2>2, <3>1, BoundAssumption DEF TypeInv, TypeOK
  <2>3. QED
    BY <2>1, <2>2 DEF UserInsert
<1>3. QED
  BY <1>1, <1>2, OthersType DEF UserInsert, TypeInv, TypeOK, FieldsOK, NoJob

LEMMA RequestType ==
    ASSUME TypeInv, NEW h \in Handlers, NEW t \in Tokens, NEW kind, NEW i \in Ids,
           NEW role \in Roles, AdminRequest(h, t, kind, i, role)
    PROVE  TypeInv'
<1>1. /\ job' \in [Handlers -> Job] /\ job'[h] = JobAt("load", kind, i, NoRow, role, t)
      /\ \A g \in Handlers \ {h} : job'[g] = job[g]
  <2>1. i \in 0..MaxUsers /\ kind \in Kinds
    BY DEF Ids, Kinds, AdminRequest
  <2>2. QED
    BY <2>1, StartType DEF TypeInv, AdminRequest, PCs
<1>2. QED
  BY <1>1, OthersType DEF TypeInv, TypeOK, AdminRequest, FieldsOK, JobAt, Requests

LEMMA LoadType ==
    ASSUME TypeInv, NEW h \in Handlers, LoadTargetUser(h)
    PROVE  TypeInv'
<1>1. CASE Finish(h)
  BY <1>1, FinishType, OthersType DEF TypeInv, TypeOK, LoadTargetUser, FieldsOK, NoJob
<1>2. CASE ~Finish(h)
  <2> DEFINE j == job[h]
             row == IF j.kind = "toggle" THEN user[j.id] ELSE NoRow
             pc == IF MayRemoveAdmin(j, user[j.id]) THEN "count" ELSE "update"
  <2>1. j \in InFlight /\ j.kind \in Requests /\ j.id \in DOMAIN user
    BY InFlightType DEF TypeInv, FieldsOK, LoadTargetUser
  <2>2. Exists(j.id) /\ user[j.id] \in Row
    BY <1>2, <2>1 DEF LoadTargetUser, Exists, TypeInv, TypeOK
  <2>3. job' = [job EXCEPT ![h].row = row, ![h].pc = pc]
    BY <1>2 DEF LoadTargetUser
  <2>4. /\ job' \in [Handlers -> Job]
        /\ job'[h] = [job[h] EXCEPT !.row = row, !.pc = pc]
        /\ \A g \in Handlers \ {h} : job'[g] = job[g]
    BY <2>1, <2>2, <2>3 DEF TypeInv, TypeOK, Job, InFlight, PCs
  <2>5. FieldsOK(job[h])'
    BY <2>1, <2>2, <2>4 DEF FieldsOK, InFlight, LoadTargetUser
  <2>6. QED
    BY <2>4, <2>5, OthersType DEF TypeInv, TypeOK, LoadTargetUser
<1>3. QED
  BY <1>1, <1>2

LEMMA CountType ==
    ASSUME TypeInv, NEW h \in Handlers, CountActiveAdmins(h)
    PROVE  TypeInv'
<1>1. CASE Finish(h)
  BY <1>1, FinishType, OthersType DEF TypeInv, TypeOK, CountActiveAdmins, FieldsOK, NoJob
<1>2. CASE ~Finish(h)
  <2>1. job[h] \in InFlight
    BY InFlightType DEF TypeInv, CountActiveAdmins
  <2>2. /\ job' \in [Handlers -> Job]
        /\ job'[h] = [job[h] EXCEPT !.pc = "update", !.stale = FALSE]
        /\ \A g \in Handlers \ {h} : job'[g] = job[g]
    <3>1. job' = [job EXCEPT ![h].pc = "update", ![h].stale = FALSE]
      BY <1>2 DEF CountActiveAdmins
    <3>2. QED
      BY <2>1, <3>1 DEF TypeInv, TypeOK, Job, InFlight, PCs
  <2>3. FieldsOK(job[h])'
    BY <2>1, <2>2 DEF TypeInv, FieldsOK, InFlight, CountActiveAdmins
  <2>4. QED
    BY <2>2, <2>3, OthersType DEF TypeInv, TypeOK, CountActiveAdmins
<1>3. QED
  BY <1>1, <1>2

\* What an UPDATE or the dropping of sessions does to the jobs of other handlers.
LEMMA MarkedType ==
    ASSUME TypeInv, NEW j \in Job, FieldsOK(j),
           NEW m, m \in {j, [j EXCEPT !.stale = TRUE]}, m # j => j.pc # "idle"
    PROVE  m \in Job /\ FieldsOK(m)
<1>1. CASE m = j
  BY <1>1
<1>2. CASE m # j
  <2>1. j \in InFlight
    BY <1>2 DEF Job, InFlight, NoJob
  <2>2. QED
    BY <1>2, <2>1 DEF Job, InFlight, FieldsOK
<1>3. QED
  BY <1>1, <1>2

LEMMA DropType ==
    ASSUME TypeInv, NEW h \in Handlers, DeleteByUser(h)
    PROVE  TypeInv'
<1>1. \A g \in Handlers : job'[g] \in Job /\ FieldsOK(job'[g])
  <2> SUFFICES ASSUME NEW g \in Handlers
               PROVE  job'[g] \in Job /\ FieldsOK(job'[g])
    OBVIOUS
  <2>1. job[g] \in Job /\ FieldsOK(job[g])
    BY DEF TypeInv, TypeOK
  <2>2. CASE g = h
    BY <2>2 DEF DeleteByUser, Job, FieldsOK, NoJob
  <2>3. CASE g # h
    BY <2>1, <2>3, MarkedType DEF DeleteByUser
  <2>4. QED
    BY <2>2, <2>3
<1>2. session' \in [Tokens -> Entry \cup {NoSession}]
  BY DEF TypeInv, TypeOK, DeleteByUser
<1>3. job' \in [Handlers -> Job]
  BY <1>1 DEF DeleteByUser
<1>4. QED
  BY <1>1, <1>2, <1>3 DEF TypeInv, TypeOK, DeleteByUser, FieldsOK

LEMMA WrittenType ==
    ASSUME TypeInv, NEW h \in Handlers, job[h].pc = "update", Exists(job[h].id),
           job[h].kind = "password" => user[job[h].id].password < MaxPassword
    PROVE  Written(job[h]) \in Row \cup {NoRow}
<1> DEFINE j == job[h]
           row == user[j.id]
<1>1. j \in InFlight /\ j.kind \in Requests /\ j.id \in DOMAIN user
  BY InFlightType DEF TypeInv, FieldsOK
<1>2. row \in Row
  BY <1>1 DEF Exists, TypeInv, TypeOK
<1>3. CASE j.kind = "role"
  BY <1>1, <1>2, <1>3 DEF Written, Row, InFlight
<1>4. CASE j.kind = "toggle"
  <2>1. j.row \in Row
    BY <1>4 DEF TypeInv, FieldsOK
  <2>2. QED
    BY <1>2, <1>4, <2>1 DEF Written, Row
<1>5. CASE j.kind = "password"
  BY <1>2, <1>5, BoundAssumption DEF Written, Row
<1>6. CASE j.kind = "delete"
  BY <1>6 DEF Written
<1>7. QED
  BY <1>1, <1>3, <1>4, <1>5, <1>6 DEF Requests

LEMMA UpdateType ==
    ASSUME TypeInv, NEW h \in Handlers, UserUpdate(h)
    PROVE  TypeInv'
<1> DEFINE j == job[h]
           after == IF j.kind = "toggle" /\ ~j.row.active
                    THEN NoJob ELSE [j EXCEPT !.pc = "revoke"]
<1>1. j \in InFlight /\ j.kind \in Requests /\ j.id \in DOMAIN user
  BY InFlightType DEF TypeInv, FieldsOK, UserUpdate
<1>2. after \in Job /\ FieldsOK(after)
  BY <1>1 DEF Job, InFlight, PCs, FieldsOK, NoJob
<1>3. user' \in Seq(Row \cup {NoRow}) /\ Len(user') = Len(user) /\ DOMAIN user' = DOMAIN user
  <2>1. CASE UNCHANGED user
    BY <2>1 DEF TypeInv, TypeOK
  <2>2. CASE ~UNCHANGED user
    <3>1. /\ Exists(j.id) /\ user' = [user EXCEPT ![j.id] = Written(j)]
          /\ j.kind = "password" => user[j.id].password < MaxPassword
      BY <1>1, <2>2 DEF UserUpdate
    <3>2. Written(j) \in Row \cup {NoRow}
      BY <3>1, WrittenType DEF UserUpdate
    <3>3. QED
      BY <1>1, <3>1, <3>2, ExceptSeq DEF TypeInv, TypeOK
  <2>3. QED
    BY <2>1, <2>2
<1>4. \A g \in Handlers : job'[g] \in Job /\ FieldsOK(job'[g])
  <2> SUFFICES ASSUME NEW g \in Handlers
               PROVE  job'[g] \in Job /\ FieldsOK(job'[g])
    OBVIOUS
  <2>1. job[g] \in Job /\ FieldsOK(job[g])
    BY DEF TypeInv, TypeOK
  <2>2. CASE g = h
    BY <1>2, <2>2 DEF UserUpdate, Finish, TypeInv, TypeOK, Job, FieldsOK, NoJob
  <2>3. CASE g # h
    <3>1. job'[g] = job[g] \/ (job'[g] = [job[g] EXCEPT !.stale = TRUE] /\ job[g].pc # "idle")
      BY <2>3 DEF UserUpdate, Finish, TypeInv, TypeOK
    <3>2. QED
      BY <2>1, <3>1, MarkedType
  <2>4. QED
    BY <2>2, <2>3
<1>5. job' \in [Handlers -> Job]
  BY <1>4 DEF UserUpdate, Finish, TypeInv, TypeOK
<1>6. blind' \in BOOLEAN
  BY <1>1 DEF UserUpdate, TypeInv, TypeOK, InFlight
<1>7. QED
  BY <1>3, <1>4, <1>5, <1>6 DEF TypeInv, TypeOK, UserUpdate, FieldsOK

LEMMA TypeInit == Init => TypeInv
<1> SUFFICES ASSUME Init PROVE TypeInv
  OBVIOUS
<1>1. user \in Seq(Row \cup {NoRow}) /\ Len(user) <= MaxUsers
  BY SeedAssumption, SeqMonotonic DEF Init
<1>2. QED
  BY <1>1 DEF Init, TypeInv, TypeOK, FieldsOK, Job, NoJob

LEMMA TypeNext == TypeInv /\ [Next]_vars => TypeInv'
<1> SUFFICES ASSUME TypeInv, [Next]_vars PROVE TypeInv'
  OBVIOUS
<1>1. ASSUME NEW h \in Handlers, Step(h) PROVE TypeInv'
  BY <1>1, PutType, DropType, InsertType, LoadType, CountType, UpdateType DEF Step
<1>2. ASSUME NEW h \in Handlers, NEW t \in Tokens, Arrive(h, t) PROVE TypeInv'
  BY <1>2, LoginType, CreateType, RequestType, RolesAssumption DEF Arrive
<1>3. ASSUME NEW t \in Tokens, SessionDelete(t) PROVE TypeInv'
  BY <1>3 DEF SessionDelete, TypeInv, TypeOK, FieldsOK
<1>4. CASE Restart
  BY <1>4 DEF Restart, TypeInv, TypeOK, FieldsOK, Job, NoJob
<1>5. CASE UNCHANGED vars
  BY <1>5 DEF vars, TypeInv, TypeOK, FieldsOK
<1>6. QED
  BY <1>1, <1>2, <1>3, <1>4, <1>5 DEF Next

-----------------------------------------------------------------------------
(* An enabled administrator remains *)

\* A step that leaves the table alone: only the acting handler's knowledge counts.
LEMMA OthersAdmin ==
    ASSUME AdminInv, UNCHANGED <<user, blind>>, NEW h \in Handlers,
           \A g \in Handlers \ {h} : job'[g] = job[g], HasSeenAdmin(job'[h])
    PROVE  AdminInv'
  BY DEF AdminInv, AdminRemains, HasSeenAdmin, EnabledAdmin, Exists

\* A target that is no enabled administrator is not the one that remains.
LEMMA LoadAdmin ==
    ASSUME TypeInv, AdminInv, NEW h \in Handlers, LoadTargetUser(h)
    PROVE  AdminInv'
<1>1. CASE Finish(h)
  BY <1>1, FinishType, OthersAdmin DEF TypeInv, LoadTargetUser, HasSeenAdmin, NoJob
<1>2. CASE ~Finish(h)
  <2> DEFINE j == job[h]
             row == IF j.kind = "toggle" THEN user[j.id] ELSE NoRow
             pc == IF MayRemoveAdmin(j, user[j.id]) THEN "count" ELSE "update"
  <2>1. j \in InFlight
    BY InFlightType DEF TypeInv, LoadTargetUser
  <2>2. job' = [job EXCEPT ![h].row = row, ![h].pc = pc]
    BY <1>2 DEF LoadTargetUser
  <2>3. /\ job'[h] = [j EXCEPT !.row = row, !.pc = pc]
        /\ \A g \in Handlers \ {h} : job'[g] = job[g]
    BY <2>1, <2>2 DEF TypeInv, TypeOK
  <2>4. HasSeenAdmin(job'[h])
    <3> SUFFICES ASSUME pc = "update", MayTake(job'[h]), ~blind
                 PROVE  \E i \in DOMAIN user \ {j.id} : EnabledAdmin(i)
      BY <2>1, <2>3 DEF HasSeenAdmin, InFlight
    <3>1. ~EnabledAdmin(j.id)
      BY <2>1, <2>3 DEF MayTake, MayRemoveAdmin, EnabledAdmin, InFlight
    <3>2. QED
      BY <3>1 DEF AdminInv, AdminRemains
  <2>5. QED
    BY <2>3, <2>4, OthersAdmin DEF LoadTargetUser
<1>3. QED
  BY <1>1, <1>2

LEMMA CountAdmin ==
    ASSUME TypeInv, AdminInv, NEW h \in Handlers, CountActiveAdmins(h)
    PROVE  AdminInv'
<1>1. CASE Finish(h)
  BY <1>1, FinishType, OthersAdmin DEF TypeInv, CountActiveAdmins, HasSeenAdmin, NoJob
<1>2. CASE ~Finish(h)
  <2>1. job[h] \in InFlight
    BY InFlightType DEF TypeInv, CountActiveAdmins
  <2>2. /\ \E i \in DOMAIN user \ {job[h].id} : EnabledAdmin(i)
        /\ job' = [job EXCEPT ![h].pc = "update", ![h].stale = FALSE]
    BY <1>2 DEF CountActiveAdmins
  <2>3. /\ job'[h] = [job[h] EXCEPT !.pc = "update", !.stale = FALSE]
        /\ \A g \in Handlers \ {h} : job'[g] = job[g]
    BY <2>1, <2>2 DEF TypeInv, TypeOK
  <2>4. job'[h].id = job[h].id
    BY <2>1, <2>3 DEF InFlight
  <2>5. QED
    BY <2>2, <2>3, <2>4, OthersAdmin DEF HasSeenAdmin, CountActiveAdmins
<1>3. QED
  BY <1>1, <1>2

\* The UPDATE of j takes an enabled administrator away.
Removes(j) ==
    /\ EnabledAdmin(j.id)
    /\ Written(j) = NoRow \/ Written(j).role # "admin" \/ ~Written(j).active

LEMMA UpdateCases ==
    ASSUME TypeInv, NEW h \in Handlers, UserUpdate(h)
    PROVE  /\ job'[h].pc \in {"idle", "revoke"}
           /\ \/ /\ UNCHANGED <<user, blind>>
                 /\ \A g \in Handlers \ {h} : job'[g] = job[g]
              \/ /\ Exists(job[h].id)
                 /\ job[h].kind = "password" => user[job[h].id].password < MaxPassword
                 /\ user' = [user EXCEPT ![job[h].id] = Written(job[h])]
                 /\ \A g \in Handlers \ {h} :
                       job'[g] = IF Removes(job[h]) /\ job[g].pc \in {"count", "update"}
                                 THEN [job[g] EXCEPT !.stale = TRUE] ELSE job[g]
                 /\ blind' = (blind \/ (Removes(job[h]) /\ job[h].stale))
<1>1. job[h] \in InFlight
  BY InFlightType DEF TypeInv, UserUpdate
<1>2. job'[h].pc \in {"idle", "revoke"}
  BY <1>1 DEF UserUpdate, Finish, TypeInv, TypeOK, NoJob, InFlight
<1>3. CASE Finish(h) /\ UNCHANGED <<user, blind>>
  BY <1>2, <1>3, FinishType DEF TypeInv
<1>4. CASE ~Exists(job[h].id)
  BY <1>2, <1>4 DEF UserUpdate, Finish, TypeInv, TypeOK
<1>5. CASE Exists(job[h].id) /\ ~(Finish(h) /\ UNCHANGED <<user, blind>>)
  <2>1. job[h].kind = "password" => user[job[h].id].password < MaxPassword
    BY <1>5 DEF UserUpdate, Exists
  <2>2. user' = [user EXCEPT ![job[h].id] = Written(job[h])]
    BY <1>5 DEF UserUpdate
  <2>3. /\ \A g \in Handlers \ {h} :
              job'[g] = IF Removes(job[h]) /\ job[g].pc \in {"count", "update"}
                        THEN [job[g] EXCEPT !.stale = TRUE] ELSE job[g]
        /\ blind' = (blind \/ (Removes(job[h]) /\ job[h].stale))
    BY <1>5 DEF UserUpdate, Removes
  <2>4. QED
    BY <1>2, <1>5, <2>1, <2>2, <2>3
<1>6. QED
  BY <1>3, <1>4, <1>5

\* The one step that can take an administrator away.  It either has seen another, who
\* is there still, or what it had seen was stale and blind is set.
LEMMA UpdateAdmin ==
    ASSUME TypeInv, AdminInv, NEW h \in Handlers, UserUpdate(h)
    PROVE  AdminInv'
<1> DEFINE j == job[h]
<1>1. j \in InFlight /\ j.kind \in Requests /\ j.id \in DOMAIN user
  BY InFlightType DEF TypeInv, FieldsOK, UserUpdate
<1>2. CASE UNCHANGED <<user, blind>> /\ \A g \in Handlers \ {h} : job'[g] = job[g]
  BY <1>2, UpdateCases, OthersAdmin DEF HasSeenAdmin
<1>3. CASE /\ Exists(j.id) /\ user' = [user EXCEPT ![j.id] = Written(j)]
           /\ j.kind = "password" => user[j.id].password < MaxPassword
           /\ \A g \in Handlers \ {h} :
                 job'[g] = IF Removes(j) /\ job[g].pc \in {"count", "update"}
                           THEN [job[g] EXCEPT !.stale = TRUE] ELSE job[g]
           /\ blind' = (blind \/ (Removes(j) /\ j.stale))
  <2>1. /\ DOMAIN user' = DOMAIN user
        /\ \A i \in DOMAIN user \ {j.id} : EnabledAdmin(i) => EnabledAdmin(i)'
    BY <1>1, <1>3 DEF EnabledAdmin, Exists
  <2>2. CASE Removes(j)
    <3>1. ASSUME NEW g \in Handlers, job'[g].pc = "update" PROVE job'[g].stale
      <4>1. g # h
        BY <3>1, UpdateCases
      <4>2. job[g].pc \in {"count", "update"}
        BY <1>3, <3>1, <4>1
      <4>3. job[g] \in InFlight
        BY <4>2, InFlightType DEF TypeInv
      <4>4. QED
        BY <1>3, <2>2, <4>1, <4>2, <4>3 DEF InFlight
    <3>2. ASSUME ~blind' PROVE \E i \in DOMAIN user' : EnabledAdmin(i)'
      <4>1. ~blind /\ ~j.stale
        BY <1>3, <2>2, <3>2
      <4>2. MayTake(j)
        <5>1. CASE j.kind = "role"
          BY <1>1, <2>2, <5>1
          DEF Removes, MayTake, Written, EnabledAdmin, Exists, TypeInv, TypeOK, Row
        <5>2. CASE j.kind = "toggle"
          BY <1>1, <2>2, <5>2
          DEF Removes, MayTake, Written, EnabledAdmin, Exists, TypeInv, TypeOK, Row
        <5>3. CASE j.kind = "password"
          <6>1. user[j.id] \in Row
            BY <1>1, <1>3 DEF Exists, TypeInv, TypeOK
          <6>2. Written(j) \in Row
            BY <1>3, <5>3, <6>1, BoundAssumption DEF Written, Row
          <6>3. QED
            BY <2>2, <5>3, <6>1, <6>2, NoneAssumption
            DEF Removes, Written, EnabledAdmin, Row
        <5>4. QED
          BY <1>1, <5>1, <5>2, <5>3 DEF Requests, MayTake
      <4>3. \E i \in DOMAIN user \ {j.id} : EnabledAdmin(i)
        BY <4>1, <4>2 DEF AdminInv, HasSeenAdmin, UserUpdate
      <4>4. QED
        BY <2>1, <4>3
    <3>3. QED
      BY <3>1, <3>2 DEF AdminInv, AdminRemains, HasSeenAdmin
  <2>3. CASE ~Removes(j)
    <3>1. user'[j.id] = Written(j)
      BY <1>1, <1>3 DEF TypeInv, TypeOK
    <3>2. ASSUME NEW i \in DOMAIN user, EnabledAdmin(i) PROVE EnabledAdmin(i)'
      <4>1. CASE i = j.id
        BY <1>1, <2>1, <2>3, <3>1, <3>2, <4>1 DEF EnabledAdmin, Exists, Removes
      <4>2. QED
        BY <2>1, <3>2, <4>1
    <3>3. /\ blind => blind'
          /\ \A g \in Handlers \ {h} : job'[g] = job[g]
      BY <1>3, <2>3
    <3>4. QED
      BY <2>1, <3>2, <3>3, UpdateCases DEF AdminInv, AdminRemains, HasSeenAdmin
  <2>4. QED
    BY <2>2, <2>3
<1>4. QED
  BY <1>2, <1>3, UpdateCases

LEMMA AdminNext == TypeInv /\ AdminInv /\ [Next]_vars => AdminInv'
<1> SUFFICES ASSUME TypeInv, AdminInv, [Next]_vars PROVE AdminInv'
  OBVIOUS
<1>1. ASSUME NEW h \in Handlers, Step(h) PROVE AdminInv'
  <2>1. CASE SessionPut(h)
    BY <2>1, FinishType, OthersAdmin DEF TypeInv, SessionPut, HasSeenAdmin, NoJob
  <2>2. CASE DeleteByUser(h)
    <3>1. \A g \in Handlers : job'[g].pc = "update" => job'[g] = job[g]
      BY <2>2 DEF DeleteByUser, TypeInv, TypeOK, NoJob, Job
    <3>2. QED
      BY <2>2, <3>1
      DEF DeleteByUser, AdminInv, AdminRemains, HasSeenAdmin, EnabledAdmin, Exists
  <2>3. CASE UserInsert(h)
    <3>1. \A i \in DOMAIN user : i \in DOMAIN user' /\ (EnabledAdmin(i) => EnabledAdmin(i)')
      BY <2>3 DEF UserInsert, EnabledAdmin, Exists, TypeInv, TypeOK
    <3>2. /\ job'[h] = NoJob /\ blind' = blind
          /\ \A g \in Handlers \ {h} : job'[g] = job[g]
      BY <2>3, FinishType DEF UserInsert, TypeInv
    <3>3. QED
      BY <3>1, <3>2 DEF AdminInv, AdminRemains, HasSeenAdmin, NoJob
  <2>4. QED
    BY <1>1, <2>1, <2>2, <2>3, LoadAdmin, CountAdmin, UpdateAdmin DEF Step
<1>2. ASSUME NEW h \in Handlers, NEW t \in Tokens, Arrive(h, t) PROVE AdminInv'
  <2>1. /\ UNCHANGED <<user, blind>> /\ job'[h].pc # "update"
        /\ \A g \in Handlers \ {h} : job'[g] = job[g]
    BY <1>2 DEF Arrive, DoLogin, UserCreate, AdminRequest, JobAt, TypeInv, TypeOK
  <2>2. QED
    BY <2>1, OthersAdmin DEF HasSeenAdmin
<1>3. ASSUME NEW t \in Tokens, SessionDelete(t) PROVE AdminInv'
  BY <1>3 DEF SessionDelete, AdminInv, AdminRemains, HasSeenAdmin, EnabledAdmin, Exists
<1>4. CASE Restart
  BY <1>4 DEF Restart, AdminInv, AdminRemains, HasSeenAdmin, EnabledAdmin, Exists, NoJob
<1>5. CASE UNCHANGED vars
  BY <1>5 DEF vars, AdminInv, AdminRemains, HasSeenAdmin, EnabledAdmin, Exists
<1>6. QED
  BY <1>1, <1>2, <1>3, <1>4, <1>5 DEF Next

-----------------------------------------------------------------------------
(* Tokens *)

\* What a step of some handler leaves of a job: nothing, all of it, or the job further
\* on its way for the same target and token; a login on its way is only ever marked.
Moves(g) ==
    \/ job'[g] \in {job[g], NoJob}
    \/ /\ job[g] # NoJob
       /\ job'[g].kind = job[g].kind /\ job'[g].id = job[g].id
       /\ job'[g].token = job[g].token
       /\ job'[g].pc = "put" =>
              job[g].pc = "put" /\ job'[g].row = job[g].row /\ job'[g].stale
       /\ job'[g].pc = "update" => job[g].pc \in {"load", "count", "update"}
       /\ job'[g].pc = "count" => job[g].pc \in {"load", "count"}

LEMMA MarkMoves ==
    ASSUME NEW g \in Handlers, job[g] \in InFlight,
           job'[g] \in {job[g], [job[g] EXCEPT !.stale = TRUE]}
    PROVE  Moves(g)
  BY DEF Moves, InFlight, NoJob

LEMMA StepMoves ==
    ASSUME TypeInv, NEW h \in Handlers, Step(h)
    PROVE  \A g \in Handlers : Moves(g)
<1>1. CASE SessionPut(h) \/ UserInsert(h)
  BY <1>1, FinishType DEF SessionPut, UserInsert, TypeInv, Moves
<1>2. CASE LoadTargetUser(h)
  <2>1. CASE Finish(h)
    BY <2>1, FinishType DEF TypeInv, Moves
  <2>2. CASE ~Finish(h)
    <3>1. job[h] \in InFlight
      BY <1>2, InFlightType DEF TypeInv, LoadTargetUser
    <3>2. \E row, pc : /\ pc \in {"count", "update"}
                       /\ job' = [job EXCEPT ![h].row = row, ![h].pc = pc]
      <4> DEFINE j == job[h]
                 row == IF j.kind = "toggle" THEN user[j.id] ELSE NoRow
                 pc == IF MayRemoveAdmin(j, user[j.id]) THEN "count" ELSE "update"
      <4>1. pc \in {"count", "update"} /\ job' = [job EXCEPT ![h].row = row, ![h].pc = pc]
        BY <1>2, <2>2 DEF LoadTargetUser
      <4>2. QED
        BY <4>1
    <3>3. QED
      BY <1>2, <3>1, <3>2 DEF LoadTargetUser, TypeInv, TypeOK, Moves, InFlight, NoJob
  <2>3. QED
    BY <2>1, <2>2
<1>3. CASE CountActiveAdmins(h)
  <2>1. CASE Finish(h)
    BY <2>1, FinishType DEF TypeInv, Moves
  <2>2. CASE ~Finish(h)
    <3>1. job[h] \in InFlight
      BY <1>3, InFlightType DEF TypeInv, CountActiveAdmins
    <3>2. job' = [job EXCEPT ![h].pc = "update", ![h].stale = FALSE]
      BY <1>3, <2>2 DEF CountActiveAdmins
    <3>3. QED
      BY <1>3, <3>1, <3>2 DEF CountActiveAdmins, TypeInv, TypeOK, Moves, InFlight, NoJob
  <2>3. QED
    BY <2>1, <2>2
<1>4. CASE UserUpdate(h)
  <2>1. job[h] \in InFlight
    BY <1>4, InFlightType DEF TypeInv, UserUpdate
  <2>2. job'[h] \in {NoJob, [job[h] EXCEPT !.pc = "revoke"]}
    BY <1>4, <2>1 DEF UserUpdate, Finish, TypeInv, TypeOK
  <2>3. Moves(h)
    BY <2>1, <2>2 DEF Moves, InFlight, NoJob
  <2>4. ASSUME NEW g \in Handlers \ {h} PROVE Moves(g)
    <3>1. CASE job'[g] = job[g]
      BY <3>1 DEF Moves
    <3>2. CASE job'[g] # job[g]
      <4>1. job[g].pc \in {"count", "update"} /\ job'[g] = [job[g] EXCEPT !.stale = TRUE]
        BY <1>4, <3>2, UpdateCases
      <4>2. QED
        BY <4>1, InFlightType, MarkMoves DEF TypeInv
    <3>3. QED
      BY <3>1, <3>2
  <2>5. QED
    BY <2>3, <2>4
<1>5. CASE DeleteByUser(h)
  <2> SUFFICES ASSUME NEW g \in Handlers PROVE Moves(g)
    OBVIOUS
  <2>1. CASE job'[g] \in {job[g], NoJob}
    BY <2>1 DEF Moves
  <2>2. CASE job'[g] \notin {job[g], NoJob}
    <3>1. job[g].pc = "put" /\ job'[g] = [job[g] EXCEPT !.stale = TRUE]
      BY <1>5, <2>2 DEF DeleteByUser
    <3>2. QED
      BY <3>1, InFlightType, MarkMoves DEF TypeInv
  <2>3. QED
    BY <2>1, <2>2
<1>6. QED
  BY <1>1, <1>2, <1>3, <1>4, <1>5 DEF Step

\* Only a login writes a session, under the token of its own.
LEMMA StepSessions ==
    ASSUME TypeInv, NEW h \in Handlers, Step(h), NEW t \in Tokens
    PROVE  \/ session'[t] \in {session[t], NoSession}
           \/ /\ job[h].pc = "put" /\ job[h].token = t /\ job'[h] = NoJob
              /\ session'[t] = [id |-> job[h].id, seen |-> job[h].row, late |-> job[h].stale]
<1>1. CASE SessionPut(h)
  BY <1>1, FinishType DEF SessionPut, TypeInv, TypeOK
<1>2. CASE DeleteByUser(h)
  BY <1>2 DEF DeleteByUser, TypeInv, TypeOK
<1>3. CASE ~SessionPut(h) /\ ~DeleteByUser(h)
  BY <1>3 DEF Step, UserInsert, LoadTargetUser, CountActiveAdmins, UserUpdate
<1>4. QED
  BY <1>1, <1>2, <1>3

LEMMA TokenNext == TypeInv /\ TokenInv /\ [Next]_vars => TokenInv'
<1> SUFFICES ASSUME TypeInv, TokenInv, [Next]_vars PROVE TokenInv'
  OBVIOUS
<1>1. ASSUME NEW h \in Handlers, Step(h) PROVE TokenInv'
  <2> SUFFICES ASSUME NEW g \in Handlers, job'[g].pc = "put"
               PROVE  /\ session'[job'[g].token] = NoSession
                      /\ \A f \in Handlers \ {g} : job'[f] # NoJob => job'[f].token # job'[g].token
    BY DEF TokenInv, OwnToken
  <2>1. job[g].pc = "put" /\ job'[g].token = job[g].token /\ job[g].token \in Tokens
    <3>1. job[g].pc = "put" /\ job'[g].token = job[g].token
      BY <1>1, StepMoves DEF Moves, NoJob
    <3>2. QED
      BY <3>1, InFlightType DEF TypeInv, InFlight
  <2>2. /\ session[job[g].token] = NoSession
        /\ \A f \in Handlers \ {g} : job[f] # NoJob => job[f].token # job[g].token
    BY <2>1 DEF TokenInv, OwnToken
  <2>3. session'[job[g].token] = NoSession
    <3>1. job[h].pc = "put" /\ job[h].token = job[g].token => h = g
      BY <2>2 DEF NoJob
    <3>2. job'[g] # NoJob
      BY DEF NoJob
    <3>3. \A t \in Tokens :
              \/ session'[t] \in {session[t], NoSession}
              \/ job[h].pc = "put" /\ job[h].token = t /\ job'[h] = NoJob
      BY <1>1, StepSessions
    <3>4. QED
      BY <2>1, <2>2, <3>1, <3>2, <3>3
  <2>4. ASSUME NEW f \in Handlers \ {g}, job'[f] # NoJob PROVE job'[f].token # job[g].token
    BY <1>1, <2>2, <2>4, StepMoves DEF Moves
  <2>5. QED
    BY <2>1, <2>3, <2>4
<1>2. ASSUME NEW h \in Handlers, NEW t \in Tokens, Arrive(h, t) PROVE TokenInv'
  <2>1. /\ UNCHANGED session /\ job'[h].token = t
        /\ \A g \in Handlers \ {h} : job'[g] = job[g]
    BY <1>2 DEF Arrive, DoLogin, UserCreate, AdminRequest, JobAt, TypeInv, TypeOK
  <2>2. CASE \E i \in Ids, p \in 0..MaxPassword : DoLogin(h, i, p, t)
    <3>1. session[t] = NoSession /\ \A g \in Handlers : job[g] # NoJob => job[g].token # t
      BY <2>2 DEF DoLogin
    <3>2. QED
      BY <2>1, <3>1 DEF TokenInv, OwnToken, NoJob
  <2>3. CASE session[t] # NoSession /\ job'[h].pc # "put"
    BY <2>1, <2>3 DEF TokenInv, OwnToken
  <2>4. QED
    BY <1>2, <2>2, <2>3
    DEF Arrive, UserCreate, AdminRequest, Authorised, CurrentUser, JobAt, TypeInv, TypeOK
<1>3. ASSUME NEW t \in Tokens, SessionDelete(t) PROVE TokenInv'
  BY <1>3 DEF SessionDelete, TokenInv, OwnToken, TypeInv, TypeOK
<1>4. CASE Restart
  BY <1>4 DEF Restart, TokenInv, OwnToken, NoJob
<1>5. CASE UNCHANGED vars
  BY <1>5 DEF vars, TokenInv, OwnToken
<1>6. QED
  BY <1>1, <1>2, <1>3, <1>4, <1>5 DEF Next

-----------------------------------------------------------------------------
(* Nobody administers the account in use *)

LEMMA SelfNext == TypeInv /\ TokenInv /\ SelfInv /\ [Next]_vars => SelfInv'
<1> SUFFICES ASSUME TypeInv, TokenInv, SelfInv, [Next]_vars PROVE SelfInv'
  OBVIOUS
<1>1. ASSUME NEW h \in Handlers, Step(h) PROVE SelfInv'
  <2> SUFFICES ASSUME NEW g \in Handlers, job'[g].pc \in {"count", "update"},
                      job'[g].kind \in {"toggle", "delete"}
               PROVE  session'[job'[g].token].id # job'[g].id
    BY DEF SelfInv, NotSelf
  <2>1. /\ job'[g].kind = job[g].kind /\ job'[g].id = job[g].id
        /\ job'[g].token = job[g].token /\ job[g].pc \in {"load", "count", "update"}
    BY <1>1, StepMoves DEF Moves, NoJob
  <2>2. job[g] \in InFlight /\ job[g].id \in DOMAIN user /\ job[g].id \in Ids
    BY <2>1, InFlightType, BoundAssumption DEF TypeInv, TypeOK, FieldsOK, Ids, InFlight
  <2>3. session[job[g].token].id # job[g].id
    <3>1. CASE job[g].pc = "load"
      <4>1. LoadTargetUser(g) /\ ~Finish(g)
        <5>1. job'[g] # job[g] /\ job'[g] # NoJob
          BY <3>1 DEF NoJob
        <5>2. h = g
          <6>1. SUFFICES ASSUME h # g PROVE FALSE
            OBVIOUS
          <6>2. CASE UserUpdate(h)
            BY <3>1, <5>1, <6>1, <6>2, UpdateCases
          <6>3. CASE DeleteByUser(h)
            BY <3>1, <5>1, <6>1, <6>3 DEF DeleteByUser
          <6>4. CASE ~UserUpdate(h) /\ ~DeleteByUser(h)
            BY <1>1, <5>1, <6>1, <6>4 DEF Step, SessionPut, UserInsert, LoadTargetUser,
                                         CountActiveAdmins, Finish, TypeInv, TypeOK
          <6>5. QED
            BY <6>2, <6>3, <6>4
        <5>3. QED
          BY <1>1, <3>1, <5>1, <5>2, FinishType
             DEF Step, SessionPut, UserInsert, CountActiveAdmins, UserUpdate, DeleteByUser, TypeInv
      <4>2. QED
        BY <2>1, <4>1 DEF LoadTargetUser, SelfTest
    <3>2. CASE job[g].pc \in {"count", "update"}
      BY <2>1, <3>2 DEF SelfInv, NotSelf
    <3>3. QED
      BY <2>1, <3>1, <3>2
  <2>4. \/ session'[job[g].token] \in {session[job[g].token], NoSession}
        \/ job[h].pc = "put" /\ job[h].token = job[g].token
    BY <1>1, <2>2, StepSessions DEF InFlight
  <2>5. ~(job[h].pc = "put" /\ job[h].token = job[g].token)
    BY <2>1 DEF TokenInv, OwnToken, NoJob
  <2>6. QED
    BY <2>1, <2>2, <2>3, <2>4, <2>5 DEF NoSession, Ids
<1>2. ASSUME NEW h \in Handlers, NEW t \in Tokens, Arrive(h, t) PROVE SelfInv'
  <2>1. /\ UNCHANGED session /\ job'[h].pc \notin {"count", "update"}
        /\ \A g \in Handlers \ {h} : job'[g] = job[g]
    BY <1>2 DEF Arrive, DoLogin, UserCreate, AdminRequest, JobAt, TypeInv, TypeOK
  <2>2. QED
    BY <2>1 DEF SelfInv, NotSelf
<1>3. ASSUME NEW t \in Tokens, SessionDelete(t) PROVE SelfInv'
  <2> SUFFICES ASSUME NEW g \in Handlers, job[g].pc \in {"count", "update"},
                      job[g].kind \in {"toggle", "delete"}
               PROVE  session'[job[g].token].id # job[g].id
    BY <1>3 DEF SelfInv, NotSelf, SessionDelete
  <2>1. job[g] \in InFlight /\ job[g].id \in DOMAIN user
    BY InFlightType DEF TypeInv, FieldsOK
  <2>2. job[g].id # 0 /\ session[job[g].token].id # job[g].id
    BY <2>1 DEF SelfInv, NotSelf, TypeInv, TypeOK
  <2>3. QED
    BY <1>3, <2>1, <2>2 DEF SessionDelete, NoSession, TypeInv, TypeOK, InFlight
<1>4. CASE Restart
  BY <1>4 DEF Restart, SelfInv, NotSelf, NoJob
<1>5. CASE UNCHANGED vars
  BY <1>5 DEF vars, SelfInv, NotSelf
<1>6. QED
  BY <1>1, <1>2, <1>3, <1>4, <1>5 DEF Next

-----------------------------------------------------------------------------
(* Sessions are as good as the row that opened them *)

\* A fresh row stays fresh until the sessions of its user are dropped.
LEMMA FreshStays ==
    ASSUME TypeInv, NEW h \in Handlers, Step(h), NEW i \in Ids, NEW row \in Row,
           ~(DeleteByUser(h) /\ job[h].id = i), Fresh(i, row)
    PROVE  Fresh(i, row)'
<1>1. CASE SessionPut(h) \/ LoadTargetUser(h) \/ CountActiveAdmins(h)
  <2>1. UNCHANGED user /\ job[h].pc # "revoke" /\ \A g \in Handlers \ {h} : job'[g] = job[g]
    BY <1>1 DEF SessionPut, LoadTargetUser, CountActiveAdmins, Finish, TypeInv, TypeOK
  <2>2. QED
    BY <2>1 DEF Fresh, Exists
<1>2. CASE UserInsert(h)
  <2>1. /\ job[h].pc # "revoke" /\ \A g \in Handlers \ {h} : job'[g] = job[g]
        /\ Exists(i) => Exists(i)' /\ user'[i] = user[i]
    BY <1>2, FinishType DEF UserInsert, TypeInv, TypeOK, Exists
  <2>2. QED
    BY <2>1 DEF Fresh
<1>3. CASE DeleteByUser(h)
  <2>1. ASSUME NEW g \in Handlers, job[g].pc = "revoke", job[g].id = i
        PROVE  job'[g] = job[g]
    BY <1>3, <2>1 DEF DeleteByUser
  <2>2. UNCHANGED user
    BY <1>3 DEF DeleteByUser
  <2>3. QED
    BY <2>1, <2>2 DEF Fresh, Exists
<1>4. CASE UserUpdate(h)
  <2> DEFINE changed == /\ user' = [user EXCEPT ![job[h].id] = Written(job[h])]
                        /\ Exists(job[h].id)
  <2>1. CASE \E g \in Handlers : job[g].pc = "revoke" /\ job[g].id = i
    <3>1. PICK g \in Handlers : job[g].pc = "revoke" /\ job[g].id = i
      BY <2>1
    <3>2. g # h
      BY <1>4, <3>1 DEF UserUpdate
    <3>3. job'[g] = job[g]
      BY <1>4, <3>1, <3>2, UpdateCases
    <3>4. QED
      BY <3>1, <3>3 DEF Fresh
  <2>2. CASE Exists(i) /\ user[i] = [row EXCEPT !.active = TRUE]
    <3>1. CASE user' = user
      BY <2>2, <3>1 DEF Fresh, Exists
    <3>2. CASE user' # user
      <4>1. /\ Exists(job[h].id)
            /\ user' = [user EXCEPT ![job[h].id] = Written(job[h])]
        BY <1>4, <3>2, UpdateCases
      <4>2. CASE job[h].id # i
        BY <2>2, <4>1, <4>2 DEF Fresh, Exists, TypeInv, TypeOK
      <4>3. CASE job[h].id = i /\ job[h].kind = "toggle" /\ ~job[h].row.active
        <5>1. user'[i] = [user[i] EXCEPT !.active = TRUE] /\ i \in DOMAIN user'
          <6>1. job[h].row.active \in BOOLEAN
            BY <1>4, <4>3 DEF UserUpdate, TypeInv, FieldsOK, Row
          <6>2. Written(job[h]) = [user[i] EXCEPT !.active = TRUE]
            BY <4>3, <6>1 DEF Written
          <6>3. QED
            BY <2>2, <4>1, <4>3, <6>2 DEF Exists, TypeInv, TypeOK
        <5>2. user'[i] = [row EXCEPT !.active = TRUE] /\ user'[i] \in Row
          BY <2>2, <5>1 DEF Row
        <5>3. QED
          BY <5>1, <5>2, NoneAssumption DEF Fresh, Exists
      <4>4. CASE job[h].id = i /\ ~(job[h].kind = "toggle" /\ ~job[h].row.active)
        <5>1. job[h] \in InFlight
          BY <1>4, InFlightType DEF TypeInv, UserUpdate
        <5>2. job'[h] = [job[h] EXCEPT !.pc = "revoke"]
          BY <1>4, <3>2, <4>1, <4>4 DEF UserUpdate
        <5>3. job'[h].pc = "revoke" /\ job'[h].id = i
          BY <4>4, <5>1, <5>2 DEF InFlight
        <5>4. QED
          BY <5>3 DEF Fresh
      <4>5. QED
        BY <4>2, <4>3, <4>4
    <3>3. QED
      BY <3>1, <3>2
  <2>3. QED
    BY <2>1, <2>2 DEF Fresh
<1>5. QED
  BY <1>1, <1>2, <1>3, <1>4 DEF Step

LEMMA FreshStep ==
    ASSUME TypeInv, FreshInv, NEW h \in Handlers, Step(h)
    PROVE  FreshInv'
<1>1. ASSUME NEW g \in Handlers, job'[g].pc = "put", ~job'[g].stale
      PROVE  Fresh(job[g].id, job[g].row)'
  <2>1. job'[g] = job[g]
    BY <1>1, StepMoves DEF Moves, NoJob
  <2>2. job[g].id \in Ids /\ job[g].row \in Row
    BY <1>1, <2>1, InFlightType, BoundAssumption
    DEF TypeInv, TypeOK, FieldsOK, Ids, InFlight
  <2>3. ~(DeleteByUser(h) /\ job[h].id = job[g].id)
    BY <1>1, <2>1, InFlightType DEF DeleteByUser, TypeInv, InFlight, NoJob
  <2>4. Fresh(job[g].id, job[g].row)
    BY <1>1, <2>1 DEF FreshInv, FreshLogin
  <2>5. ASSUME NEW i, NEW row, i = job[g].id, row = job[g].row PROVE Fresh(i, row)'
    BY <2>2, <2>3, <2>4, <2>5, FreshStays
  <2>6. QED
    BY <2>1, <2>5 DEF Fresh
<1>2. ASSUME NEW t \in Tokens, session'[t] # NoSession, ~session'[t].late
      PROVE  Fresh(session[t].id, session[t].seen)'
  <2>1. \E i \in Ids, row \in Row :
            /\ i = session'[t].id /\ row = session'[t].seen /\ Fresh(i, row)
            /\ ~(DeleteByUser(h) /\ job[h].id = i)
    <3>1. CASE session'[t] = session[t]
      <4>1. session[t] \in Entry
        BY <1>2, <3>1 DEF TypeInv, TypeOK
      <4>2. Fresh(session[t].id, session[t].seen)
        BY <1>2, <3>1 DEF FreshInv, SessionsFresh, Fresh
      <4>3. ~(DeleteByUser(h) /\ job[h].id = session[t].id)
        BY <1>2, <3>1 DEF DeleteByUser
      <4>4. QED
        BY <3>1, <4>1, <4>2, <4>3 DEF Entry
    <3>2. CASE session'[t] # session[t]
      <4>1. /\ job[h].pc = "put"
            /\ session'[t] = [id |-> job[h].id, seen |-> job[h].row, late |-> job[h].stale]
        BY <1>2, <3>2, StepSessions
      <4>2. job[h].id \in Ids /\ job[h].row \in Row
        BY <4>1, InFlightType, BoundAssumption DEF TypeInv, TypeOK, FieldsOK, Ids, InFlight
      <4>3. Fresh(job[h].id, job[h].row)
        BY <1>2, <4>1 DEF FreshInv, FreshLogin
      <4>4. QED
        BY <4>1, <4>2, <4>3 DEF DeleteByUser
    <3>3. QED
      BY <3>1, <3>2
  <2>2. PICK i \in Ids, row \in Row :
            /\ i = session'[t].id /\ row = session'[t].seen /\ Fresh(i, row)
            /\ ~(DeleteByUser(h) /\ job[h].id = i)
    BY <2>1
  <2>3. Fresh(i, row)'
    BY <2>2, FreshStays
  <2>4. QED
    BY <2>2, <2>3 DEF Fresh
<1>3. QED
  BY <1>1, <1>2 DEF FreshInv, SessionsFresh, FreshLogin, Fresh

LEMMA FreshArrive ==
    ASSUME TypeInv, FreshInv, NEW h \in Handlers, NEW t \in Tokens, Arrive(h, t)
    PROVE  FreshInv'
<1>1. /\ UNCHANGED <<user, session>> /\ job[h] = NoJob
      /\ \A g \in Handlers \ {h} : job'[g] = job[g]
  BY DEF Arrive, DoLogin, UserCreate, AdminRequest, TypeInv, TypeOK
<1>2. ASSUME NEW i, NEW row, Fresh(i, row) PROVE Fresh(i, row)'
  BY <1>1, <1>2 DEF Fresh, Exists, NoJob
<1>3. FreshLogin(job[h])'
  <2>1. CASE \E i \in Ids, p \in 0..MaxPassword : DoLogin(h, i, p, t)
    <3>1. PICK i \in Ids : /\ Exists(i) /\ user[i].active
                           /\ job'[h] = JobAt("put", "login", i, user[i], user[i].role, t)
      BY <2>1 DEF DoLogin, TypeInv, TypeOK
    <3>2. user[i] \in Row
      BY <3>1 DEF Exists, TypeInv, TypeOK
    <3>3. user[i] = [user[i] EXCEPT !.active = TRUE]
      BY <3>1, <3>2 DEF Row
    <3>4. QED
      BY <1>1, <3>1, <3>3 DEF FreshLogin, Fresh, Exists, JobAt
  <2>2. CASE job'[h].pc # "put"
    BY <2>2 DEF FreshLogin
  <2>3. QED
    BY <2>1, <2>2 DEF Arrive, UserCreate, AdminRequest, JobAt, TypeInv, TypeOK
<1>4. ASSUME NEW g \in Handlers \ {h} PROVE FreshLogin(job[g])'
  BY <1>1, <1>2 DEF FreshInv, FreshLogin, Fresh
<1>5. SessionsFresh'
  BY <1>1, <1>2 DEF FreshInv, SessionsFresh, Fresh
<1>6. QED
  BY <1>3, <1>4, <1>5 DEF FreshInv

LEMMA FreshNext == TypeInv /\ FreshInv /\ [Next]_vars => FreshInv'
<1> SUFFICES ASSUME TypeInv, FreshInv, [Next]_vars PROVE FreshInv'
  OBVIOUS
<1>1. ASSUME NEW h \in Handlers, Step(h) PROVE FreshInv'
  BY <1>1, FreshStep
<1>2. ASSUME NEW h \in Handlers, NEW t \in Tokens, Arrive(h, t) PROVE FreshInv'
  BY <1>2, FreshArrive
<1>3. ASSUME NEW t \in Tokens, SessionDelete(t) PROVE FreshInv'
  BY <1>3
  DEF SessionDelete, FreshInv, SessionsFresh, FreshLogin, Fresh, Exists, TypeInv, TypeOK
<1>4. CASE Restart
  BY <1>4 DEF Restart, FreshInv, SessionsFresh, FreshLogin, NoJob
<1>5. CASE UNCHANGED vars
  BY <1>5 DEF vars, FreshInv, SessionsFresh, FreshLogin, Fresh, Exists
<1>6. QED
  BY <1>1, <1>2, <1>3, <1>4, <1>5 DEF Next

-----------------------------------------------------------------------------
(* The theorems *)

LEMMA InvInit == Init => IInv
<1> SUFFICES ASSUME Init PROVE IInv
  OBVIOUS
<1>1. \E i \in DOMAIN user : EnabledAdmin(i)
  <2>1. PICK i \in DOMAIN SeedRows : SeedRows[i].role = "admin" /\ SeedRows[i].active
    BY SeedAssumption
  <2>2. SeedRows[i] \in Row
    BY SeedAssumption
  <2>3. QED
    BY <2>1, <2>2, NoneAssumption DEF Init, EnabledAdmin, Exists
<1>2. AdminInv
  BY <1>1 DEF Init, AdminInv, AdminRemains, HasSeenAdmin, NoJob
<1>3. TokenInv /\ SelfInv /\ FreshInv
  BY DEF Init, NoJob, TokenInv, OwnToken, SelfInv, NotSelf, FreshInv, SessionsFresh, FreshLogin
<1>4. QED
  BY <1>2, <1>3, TypeInit DEF IInv

LEMMA InvNext == IInv /\ [Next]_vars => IInv'
  BY TypeNext, AdminNext, TokenNext, SelfNext, FreshNext DEF IInv

\* The tables, the sessions and the handlers in flight keep their types under every
\* interleaving of logins and administration, failed statements and restarts.
THEOREM TypeCorrect == Spec => []TypeOK
<1>1. IInv => TypeOK
  BY DEF IInv, TypeInv
<1>2. QED
  BY <1>1, InvInit, InvNext, PTL DEF Spec

\* The count before a demotion, a disabling or a deletion keeps an enabled
\* administrator in the table, unless two such handlers overlapped.
THEOREM AdminHolds == Spec => []AdminRemains
<1>1. IInv => AdminRemains
  BY DEF IInv, AdminInv
<1>2. QED
  BY <1>1, InvInit, InvNext, PTL DEF Spec

\* Every handler that changes what a session relies on drops the user's sessions; the
\* only ones that outlive it belong to logins that overlapped the dropping.
THEOREM FreshHolds == Spec => []SessionsFresh
<1>1. IInv => SessionsFresh
  BY DEF IInv, FreshInv
<1>2. QED
  BY <1>1, InvInit, InvNext, PTL DEF Spec

\* The comparison of target and actor, made when the row is loaded, still holds when
\* the UPDATE runs: tokens are never reused for another user's session in between.
THEOREM SelfHolds == Spec => NotOneself
<1>1. IInv /\ [Next]_vars =>
        [\A h \in Handlers :
            job[h].pc = "update" /\ job[h].kind \in {"toggle", "delete"} /\ user' # user =>
                session[job[h].token].id # job[h].id]_vars
  BY DEF IInv, SelfInv, NotSelf
<1>2. QED
  BY <1>1, InvInit, InvNext, PTL DEF Spec, NotOneself
=============================================================================
