------------------------ MODULE GroupMembershipProofs ------------------------
(***************************************************************************)
(* Proofs about GroupMembership, for any set of users and any number of    *)
(* overlapping requests.                                                   *)
(***************************************************************************)
EXTENDS GroupMembership, FiniteSetTheorems, TLAPS

\* A group whose admins are not exactly one, and that has one, has another.
LEMMA AnotherAdmin ==
    ASSUME NEW S, NEW a \in S, Cardinality(S) # 1
    PROVE  \E b \in S : b # a
<1>1. S # {a}
  BY FS_Singleton
<1> QED
  BY <1>1

\* A request with a given step has the fields that go with that step.
LEMMA RequestFields ==
    ASSUME NEW q \in Request
    PROVE  /\ q.step = "roleLoad" =>
                 q.actor \in Users /\ q.target \in Users /\ q.role \in Roles
           /\ q.step \in {"roleCount", "roleWrite"} =>
                 q.target \in Users /\ q.role \in Roles /\ q.loaded \in Member
           /\ q.step \in {"removeLoad", "removeWrite"} =>
                 q.actor \in Users /\ q.target \in Users
           /\ q.step \in {"leaveCount", "leaveWrite"} =>
                 q.user \in Users /\ q.loaded \in [Users -> Member]
           /\ q.step = "leaveWrite" => q.last \in BOOLEAN
           /\ q.step \in {"addLoad", "addWrite"} => q.target \in Users
           /\ q.step = "addWrite" => q.loaded \in Member
  BY DEF Request

\* A request that goes on without a write keeps every type.
LEMMA ProceedType ==
    ASSUME TypeOK, NEW r \in Requests, NEW q \in Request, Proceed(r, q)
    PROVE  TypeOK'
  BY DEF TypeOK, Proceed

\* So does a commit of a typed table.
LEMMA CommitType ==
    ASSUME TypeOK, NEW r \in Requests, NEW q \in Request, NEW table \in [Users -> Member],
           Commit(r, table, q)
    PROVE  TypeOK'
  BY DEF TypeOK, Commit

\* The types hold at the start.
LEMMA InitType == Init => TypeOK
<1> SUFFICES ASSUME Init PROVE TypeOK
  OBVIOUS
<1>1. PICK others \in SUBSET (Users \ {Creator}) :
         member = [u \in Users |-> IF u = Creator THEN [Plain EXCEPT !.role = "admin"]
                                   ELSE IF u \in others THEN Plain ELSE Absent]
  BY DEF Init
<1>2. member \in [Users -> Member]
  BY <1>1 DEF Plain, Absent, Member, Roles
<1> QED
  BY <1>2 DEF Init, TypeOK, Idle, Request

\* Every step keeps the types.
LEMMA NextType ==
    ASSUME TypeOK, NEW r \in Requests, Handle(r)
    PROVE  TypeOK'
<1>0. /\ member \in [Users -> Member]
      /\ req[r] \in Request
      /\ \A u \in Users : member[u] \in Member
      /\ Idle \in Request /\ [step |-> "view"] \in Request
  BY DEF TypeOK, Request, Idle
<1>1. CASE RoleBegin(r)
  <2>1. PICK a \in Users, t \in Users, role \in Roles :
           Proceed(r, [step |-> "roleLoad", actor |-> a, target |-> t, role |-> role])
    BY <1>1 DEF RoleBegin, Admins, Active
  <2>2. [step |-> "roleLoad", actor |-> a, target |-> t, role |-> role] \in Request
    BY DEF Request
  <2> QED
    BY <2>1, <2>2, ProceedType
<1>2. CASE RoleLoad(r)
  <2>1. PICK q : Proceed(r, q) /\ q \in Request
    <3>1. req[r].target \in Users /\ req[r].role \in Roles
      BY <1>0, <1>2, RequestFields DEF RoleLoad
    <3>2. \A s \in {"roleCount", "roleWrite"} :
             [step |-> s, target |-> req[r].target, role |-> req[r].role,
              loaded |-> member[req[r].target]] \in Request
      BY <1>0, <3>1 DEF Request
    <3> QED
      BY <1>0, <1>2, <3>2 DEF RoleLoad
  <2> QED
    BY <2>1, ProceedType
<1>3. CASE RoleCount(r)
  <2>1. [req[r] EXCEPT !.step = "roleWrite"] \in Request
    BY <1>0, <1>3 DEF RoleCount, Request
  <2> QED
    BY <1>0, <1>3, <2>1, ProceedType DEF RoleCount
<1>4. CASE RoleWrite(r)
  <2> DEFINE t     == req[r].target
             table == [member EXCEPT ![t].role = IF req[r].role # req[r].loaded.role
                                                   THEN req[r].role ELSE @]
  <2>1. t \in Users /\ req[r].role \in Roles
    BY <1>0, <1>4, RequestFields DEF RoleWrite
  <2>2. PICK role \in Roles : table = [member EXCEPT ![t].role = role]
    BY <1>0, <2>1 DEF Member
  <2>3. [member[t] EXCEPT !.role = role] \in Member
    BY <1>0, <2>1 DEF Member
  <2>4. table \in [Users -> Member]
    BY <1>0, <2>1, <2>2, <2>3 DEF Member
  <2>5. Commit(r, table, [step |-> "view"])
    BY <1>4 DEF RoleWrite
  <2> HIDE DEF table
  <2> QED
    BY <1>0, <2>4, <2>5, CommitType
<1>5. CASE RemoveBegin(r)
  <2>1. PICK a \in Users, t \in Users :
           Proceed(r, [step |-> "removeLoad", actor |-> a, target |-> t])
    BY <1>5 DEF RemoveBegin, Admins, Active
  <2>2. [step |-> "removeLoad", actor |-> a, target |-> t] \in Request
    BY DEF Request
  <2> QED
    BY <2>1, <2>2, ProceedType
<1>6. CASE RemoveLoad(r)
  <2>1. [req[r] EXCEPT !.step = "removeWrite"] \in Request
    BY <1>0, <1>6 DEF RemoveLoad, Request
  <2> QED
    BY <1>0, <1>6, <2>1, ProceedType DEF RemoveLoad
<1>7. CASE RemoveWrite(r)
  <2> DEFINE t     == req[r].target
             table == [member EXCEPT ![t].active = FALSE]
  <2>1. t \in Users
    BY <1>0, <1>7, RequestFields DEF RemoveWrite
  <2>2. [member[t] EXCEPT !.active = FALSE] \in Member
    BY <1>0, <2>1 DEF Member
  <2>3. table \in [Users -> Member]
    BY <1>0, <2>1, <2>2 DEF Member
  <2>4. Commit(r, table, Idle)
    BY <1>7 DEF RemoveWrite
  <2> HIDE DEF table
  <2> QED
    BY <1>0, <2>3, <2>4, CommitType
<1>8. CASE LeaveBegin(r)
  <2>1. PICK u \in Active :
          Proceed(r, IF u \in Admins
                       THEN [step |-> "leaveCount", user |-> u, loaded |-> member]
                       ELSE [step |-> "leaveWrite", user |-> u, loaded |-> member,
                             last |-> FALSE])
    BY <1>8 DEF LeaveBegin
  <2>2. /\ [step |-> "leaveCount", user |-> u, loaded |-> member] \in Request
        /\ [step |-> "leaveWrite", user |-> u, loaded |-> member, last |-> FALSE] \in Request
    BY <1>0 DEF Request, Active
  <2> QED
    BY <2>1, <2>2, ProceedType
<1>9. CASE LeaveCount(r)
  <2>1. [step |-> "leaveWrite", user |-> req[r].user, loaded |-> req[r].loaded,
         last |-> Cardinality(Admins) = 1] \in Request
    BY <1>0, <1>9, RequestFields DEF LeaveCount, Request
  <2> QED
    BY <1>9, <2>1, ProceedType DEF LeaveCount
<1>10. CASE LeaveWrite(r)
  <2> DEFINE u    == req[r].user
             gone == [member EXCEPT ![u].active = FALSE]
  <2>1. u \in Users
    BY <1>0, <1>10, RequestFields DEF LeaveWrite
  <2>2. [member[u] EXCEPT !.active = FALSE] \in Member
    BY <1>0, <2>1 DEF Member
  <2>3. gone \in [Users -> Member]
    BY <1>0, <2>1, <2>2 DEF Member
  <2>4. CASE Commit(r, gone, Idle)
    <3> HIDE DEF gone
    <3> QED
      BY <1>0, <2>3, <2>4, CommitType
  <2>5. ASSUME NEW s \in Active \ {u},
               Commit(r, [gone EXCEPT ![s].role =
                            IF req[r].loaded[s].known /\ req[r].loaded[s].role = "admin"
                              THEN @ ELSE "admin"], Idle)
        PROVE  TypeOK'
    <3> DEFINE table == [gone EXCEPT ![s].role =
                           IF req[r].loaded[s].known /\ req[r].loaded[s].role = "admin"
                             THEN @ ELSE "admin"]
    <3>1. s \in Users
      BY DEF Active
    <3> HIDE DEF gone
    <3>2. gone[s] \in Member
      BY <2>3, <3>1
    <3>3. PICK role \in Roles : table = [gone EXCEPT ![s].role = role]
      BY <2>3, <3>1, <3>2 DEF Member, Roles
    <3>4. [gone[s] EXCEPT !.role = role] \in Member
      BY <3>2 DEF Member
    <3>5. table \in [Users -> Member]
      BY <2>3, <3>1, <3>2, <3>3, <3>4 DEF Member
    <3> HIDE DEF table
    <3>6. Commit(r, table, Idle)
      BY <2>5 DEF table
    <3> QED
      BY <1>0, <3>5, <3>6, CommitType
  <2> QED
    BY <1>10, <2>4, <2>5 DEF LeaveWrite
<1>11. CASE AddBegin(r)
  <2>1. \A t \in Users : [step |-> "addLoad", target |-> t] \in Request
    BY DEF Request
  <2> QED
    BY <1>11, <2>1, ProceedType DEF AddBegin
<1>12. CASE AddLoad(r)
  <2>1. [step |-> "addWrite", target |-> req[r].target,
         loaded |-> member[req[r].target]] \in Request
    BY <1>0, <1>12, RequestFields DEF AddLoad, Request
  <2> QED
    BY <1>12, <2>1, ProceedType DEF AddLoad
<1>13. CASE AddWrite(r)
  <2> DEFINE t   == req[r].target
             old == req[r].loaded
  <2>1. t \in Users /\ old \in Member
    BY <1>0, <1>13, RequestFields DEF AddWrite
  <2>2. CASE Proceed(r, Idle) \/ Proceed(r, [step |-> "view"])
    BY <1>0, <2>2, ProceedType
  <2>3. CASE Commit(r, [member EXCEPT ![t] = Plain], [step |-> "view"])
    <3>1. [member EXCEPT ![t] = Plain] \in [Users -> Member]
      BY <1>0, <2>1 DEF Plain, Member, Roles
    <3> QED
      BY <1>0, <2>3, <3>1, CommitType
  <2>4. CASE /\ old.known /\ ~ old.active
             /\ Commit(r, [member EXCEPT ![t].active = TRUE,
                                         ![t].role = IF old.role # "member"
                                                       THEN "member" ELSE @],
                       [step |-> "view"])
    <3> DEFINE table == [member EXCEPT ![t].active = TRUE,
                                       ![t].role = IF old.role # "member"
                                                     THEN "member" ELSE @]
    <3>1. PICK role \in Roles : table = [member EXCEPT ![t].active = TRUE, ![t].role = role]
      BY <1>0, <2>1 DEF Member, Roles
    <3>2. [member[t] EXCEPT !.active = TRUE, !.role = role] \in Member
      BY <1>0, <2>1 DEF Member
    <3>3. table \in [Users -> Member]
      BY <1>0, <2>1, <3>1, <3>2
    <3>4. Commit(r, table, [step |-> "view"])
      BY <2>4
    <3> HIDE DEF table
    <3> QED
      BY <1>0, <3>3, <3>4, CommitType
  <2> QED
    BY <1>13, <2>2, <2>3, <2>4 DEF AddWrite
<1>14. CASE View(r)
  BY <1>0, <1>14, ProceedType DEF View
<1>15. CASE Fail(r)
  BY <1>0, <1>15, ProceedType DEF Fail
<1> QED
  BY <1>1, <1>2, <1>3, <1>4, <1>5, <1>6, <1>7, <1>8, <1>9, <1>10, <1>11, <1>12,
     <1>13, <1>14, <1>15 DEF Handle

\* Rows, requests and flags always have their types.
THEOREM TypeCorrect == Spec => []TypeOK
<1>1. TypeOK /\ [Next]_vars => TypeOK'
  <2>1. TypeOK /\ UNCHANGED vars => TypeOK'
    BY DEF TypeOK, vars
  <2> QED
    BY <2>1, NextType DEF Next
<1> QED
  BY <1>1, InitType, PTL DEF Spec

-------------------------------------------------------------------------------
(* Rows *)

\* A step is a read that leaves the table alone, or one of four commits.
LEMMA StepKinds ==
    ASSUME NEW r \in Requests, Handle(r)
    PROVE  \/ UNCHANGED member
           \/ RoleWrite(r) \/ RemoveWrite(r) \/ LeaveWrite(r) \/ AddWrite(r)
  BY DEF Handle, RoleBegin, RoleLoad, RoleCount, RemoveBegin, RemoveLoad, LeaveBegin,
         LeaveCount, AddBegin, AddLoad, View, Fail, Proceed

\* What the commit of a departure does to the rows.
LEMMA LeaveWriteRows ==
    ASSUME TypeOK, NEW r \in Requests, LeaveWrite(r)
    PROVE  LET q == req[r] IN
           /\ q.user \in Users
           /\ member'[q.user].active = FALSE
           /\ \A v \in Users : /\ member'[v].known = member[v].known
                               /\ v # q.user => member'[v].active = member[v].active
                               /\ member[v].role = "admin" => member'[v].role = "admin"
           /\ q.last => \/ Active \ {q.user} = {}
                        \/ \E s \in Active \ {q.user} :
                              q.loaded[s].role # "admin" \/ q.loaded[s] = member[s]
                                => member'[s].role = "admin"
<1> DEFINE q    == req[r]
           gone == [member EXCEPT ![q.user].active = FALSE]
<1>1. q.user \in Users /\ member \in [Users -> Member]
  BY RequestFields DEF LeaveWrite, TypeOK
<1>2. \A v \in Users : member[v] \in Member
  BY <1>1
<1>3. /\ gone \in [Users -> Member]
      /\ gone[q.user].active = FALSE
      /\ \A v \in Users : /\ gone[v].known = member[v].known
                          /\ gone[v].role = member[v].role
                          /\ v # q.user => gone[v].active = member[v].active
  <2>1. [member[q.user] EXCEPT !.active = FALSE] \in Member
    BY <1>1, <1>2 DEF Member
  <2> QED
    BY <1>1, <1>2, <2>1 DEF Member
<1>4. CASE Commit(r, gone, Idle) /\ (~ q.last \/ Active \ {q.user} = {})
  <2> HIDE DEF gone
  <2> QED
    BY <1>1, <1>3, <1>4 DEF Commit
<1>5. ASSUME NEW s \in Active \ {q.user},
             Commit(r, [gone EXCEPT ![s].role =
                          IF q.loaded[s].known /\ q.loaded[s].role = "admin"
                            THEN @ ELSE "admin"], Idle)
      PROVE  /\ member'[q.user].active = FALSE
             /\ \A v \in Users : /\ member'[v].known = member[v].known
                                 /\ v # q.user => member'[v].active = member[v].active
                                 /\ member[v].role = "admin" => member'[v].role = "admin"
             /\ q.loaded[s].role # "admin" \/ q.loaded[s] = member[s]
                   => member'[s].role = "admin"
  <2> HIDE DEF gone
  <2>1. s \in Users /\ gone[s] \in Member
    BY <1>3 DEF Active
  <2>2. member' = [gone EXCEPT ![s].role =
                     IF q.loaded[s].known /\ q.loaded[s].role = "admin"
                       THEN gone[s].role ELSE "admin"]
    BY <1>3, <1>5, <2>1 DEF Commit
  <2>3. /\ \A v \in Users \ {s} : member'[v] = gone[v]
        /\ member'[s].known = gone[s].known
        /\ member'[s].active = gone[s].active
        /\ member'[s].role = IF q.loaded[s].known /\ q.loaded[s].role = "admin"
                               THEN gone[s].role ELSE "admin"
    BY <1>3, <2>1, <2>2 DEF Member
  <2> QED
    BY <1>1, <1>3, <2>1, <2>3
<1> QED
  BY <1>1, <1>4, <1>5 DEF LeaveWrite

\* No step takes a row away.
LEMMA RowsStay ==
    ASSUME TypeOK, NEW r \in Requests, Handle(r), NEW u \in Users, member[u].known
    PROVE  member'[u].known
<1>0. member \in [Users -> Member] /\ member[u] \in Member /\ req[r] \in Request
  BY DEF TypeOK
<1>1. CASE RoleWrite(r)
  BY <1>0, <1>1, RequestFields DEF RoleWrite, Commit, Member
<1>2. CASE RemoveWrite(r)
  BY <1>0, <1>2, RequestFields DEF RemoveWrite, Commit, Member
<1>3. CASE LeaveWrite(r)
  BY <1>3, LeaveWriteRows
<1>4. CASE AddWrite(r)
  BY <1>0, <1>4, RequestFields DEF AddWrite, Commit, Proceed, Plain, Member
<1> QED
  BY <1>1, <1>2, <1>3, <1>4, StepKinds

\* No overlap of requests ever takes a membership row away.
THEOREM DeparturesKeepRows == Spec => DeparturesKeepTheirRow
<1>1. TypeOK /\ [Next]_vars
         => [\A u \in Users : member[u].known => member'[u].known]_vars
  <2> SUFFICES ASSUME TypeOK, Next
               PROVE  \A u \in Users : member[u].known => member'[u].known
    OBVIOUS
  <2> QED
    BY RowsStay DEF Next
<1> QED
  BY <1>1, TypeCorrect, PTL DEF Spec, DeparturesKeepTheirRow

\* A step of one request leaves what the others will do next alone.
LEMMA OthersWait ==
    ASSUME TypeOK, NEW r \in Requests, Handle(r), NEW p \in Requests, p # r
    PROVE  req'[p] = req[p]
<1>1. \E q : req' = [req EXCEPT ![r] = q]
  BY DEF Handle, RoleBegin, RoleLoad, RoleCount, RoleWrite, RemoveBegin, RemoveLoad,
     RemoveWrite, LeaveBegin, LeaveCount, LeaveWrite, AddBegin, AddLoad, AddWrite,
     View, Fail, Proceed, Commit
<1> QED
  BY <1>1 DEF TypeOK

\* Only AddLoad leads to an insert.
LEMMA OnlyAddLoad ==
    ASSUME TypeOK, NEW r \in Requests, Handle(r), req'[r].step = "addWrite"
    PROVE  AddLoad(r)
<1>0. req \in [Requests -> Request] /\ req[r] \in Request
  BY DEF TypeOK
<1>1. ASSUME NEW q, Proceed(r, q) \/ \E table : Commit(r, table, q)
      PROVE  q.step = "addWrite"
  BY <1>0, <1>1 DEF Proceed, Commit
<1>2. ASSUME RoleBegin(r) PROVE FALSE
  <2>1. PICK a, t, role :
           Proceed(r, [step |-> "roleLoad", actor |-> a, target |-> t, role |-> role])
    BY <1>2 DEF RoleBegin
  <2> QED
    BY <1>1, <2>1
<1>3. ~ RoleLoad(r)
  BY <1>1 DEF RoleLoad, Idle
<1>4. ASSUME RoleCount(r) PROVE FALSE
  <2>1. [req[r] EXCEPT !.step = "roleWrite"].step # "addWrite"
    BY <1>0, <1>4 DEF RoleCount, Request
  <2>2. Proceed(r, Idle) \/ Proceed(r, [req[r] EXCEPT !.step = "roleWrite"])
    BY <1>4 DEF RoleCount
  <2> QED
    BY <1>1, <2>1, <2>2 DEF Idle
<1>5. ~ RoleWrite(r)
  BY <1>1 DEF RoleWrite
<1>6. ASSUME RemoveBegin(r) PROVE FALSE
  <2>1. PICK a, t : Proceed(r, [step |-> "removeLoad", actor |-> a, target |-> t])
    BY <1>6 DEF RemoveBegin
  <2> QED
    BY <1>1, <2>1
<1>7. ASSUME RemoveLoad(r) PROVE FALSE
  <2>1. [req[r] EXCEPT !.step = "removeWrite"].step # "addWrite"
    BY <1>0, <1>7 DEF RemoveLoad, Request
  <2>2. Proceed(r, Idle) \/ Proceed(r, [req[r] EXCEPT !.step = "removeWrite"])
    BY <1>7 DEF RemoveLoad
  <2> QED
    BY <1>1, <2>1, <2>2 DEF Idle
<1>8. ~ RemoveWrite(r)
  BY <1>1 DEF RemoveWrite, Idle
<1>9. ASSUME LeaveBegin(r) PROVE FALSE
  <2>1. PICK u : \/ Proceed(r, [step |-> "leaveCount", user |-> u, loaded |-> member])
                 \/ Proceed(r, [step |-> "leaveWrite", user |-> u, loaded |-> member,
                                last |-> FALSE])
    BY <1>9 DEF LeaveBegin
  <2> QED
    BY <1>1, <2>1
<1>10. ~ LeaveCount(r)
  BY <1>1 DEF LeaveCount
<1>11. ~ LeaveWrite(r)
  <2>1. \A table : ~ Commit(r, table, Idle)
    BY <1>1 DEF Idle
  <2> QED
    BY <2>1 DEF LeaveWrite
<1>12. ASSUME AddBegin(r) PROVE FALSE
  <2>1. PICK t : Proceed(r, [step |-> "addLoad", target |-> t])
    BY <1>12 DEF AddBegin
  <2> QED
    BY <1>1, <2>1
<1>13. ~ AddWrite(r)
  <2>1. \A table : ~ Commit(r, table, [step |-> "view"])
    BY <1>1
  <2>2. ~ Proceed(r, Idle) /\ ~ Proceed(r, [step |-> "view"])
    BY <1>1 DEF Idle
  <2> QED
    BY <2>1, <2>2 DEF AddWrite
<1>14. ~ View(r) /\ ~ Fail(r)
  BY <1>1 DEF View, Fail, Idle
<1> QED
  BY <1>2, <1>3, <1>4, <1>5, <1>6, <1>7, <1>8, <1>9, <1>10, <1>11, <1>12, <1>13, <1>14
     DEF Handle

\* Who is active has a row, and a loaded row is still there when it is written.
LEMMA RowsExistNext ==
    ASSUME TypeOK, RowsExist, NEW r \in Requests, Handle(r)
    PROVE  RowsExist'
<1>0. /\ member \in [Users -> Member]
      /\ req \in [Requests -> Request]
      /\ \A u \in Users : member[u] \in Member
      /\ \A u \in Users : member[u].active => member[u].known
  BY DEF TypeOK, RowsExist
<1>1. \A u \in Users : member[u].known => member'[u].known
  BY RowsStay
<1>2. ASSUME NEW u \in Users PROVE member'[u].active => member'[u].known
  <2>1. CASE UNCHANGED member
    BY <1>0, <2>1
  <2>2. CASE RoleWrite(r)
    BY <1>0, <2>2, RequestFields DEF RoleWrite, Commit, Member
  <2>3. CASE RemoveWrite(r)
    BY <1>0, <2>3, RequestFields DEF RemoveWrite, Commit, Member
  <2>4. CASE LeaveWrite(r)
    BY <1>0, <2>4, LeaveWriteRows
  <2>5. CASE AddWrite(r)
    <3>1. req[r].target \in Users /\ req[r].loaded \in Member
      BY <1>0, <2>5, RequestFields DEF AddWrite
    <3>2. req[r].loaded.known => member[req[r].target].known
      BY <2>5 DEF RowsExist, AddWrite
    <3> QED
      BY <1>0, <2>5, <3>1, <3>2 DEF AddWrite, Commit, Proceed, Plain, Member
  <2> QED
    BY <2>1, <2>2, <2>3, <2>4, <2>5, StepKinds
<1>3. ASSUME NEW p \in Requests, req'[p].step = "addWrite", req'[p].loaded.known
      PROVE  member'[req'[p].target].known
  <2>1. CASE req'[p] = req[p]
    <3>1. req[p].target \in Users /\ member[req[p].target].known
      BY <1>0, <1>3, <2>1, RequestFields DEF RowsExist
    <3> QED
      BY <1>1, <2>1, <3>1
  <2>2. CASE req'[p] # req[p]
    <3>1. p = r /\ AddLoad(r)
      BY <1>0, <1>3, <2>2, OnlyAddLoad, OthersWait
    <3>2. /\ req'[p].loaded = member[req'[p].target]
          /\ member' = member
      BY <1>0, <3>1 DEF AddLoad, Proceed
    <3> QED
      BY <1>3, <3>2
  <2> QED
    BY <2>1, <2>2
<1> QED
  BY <1>2, <1>3 DEF RowsExist

-------------------------------------------------------------------------------
(* What a request has read stays true until it is outdated *)

\* The sets of active members and admins depend on the table alone.
LEMMA SameTable ==
    ASSUME UNCHANGED member
    PROVE  Active' = Active /\ Admins' = Admins
  BY DEF Active, Admins

\* A request that did not move keeps what it relies on, or becomes outdated.
LEMMA OthersUpToDate ==
    ASSUME TypeOK, NEW r \in Requests, NEW q, NEW table,
           Proceed(r, q) \/ Commit(r, table, q),
           NEW p \in Requests, p # r, ~ outdated[p] => UpToDate(p), ~ outdated'[p]
    PROVE  UpToDate(p)'
<1>1. req'[p] = req[p]
  BY DEF Proceed, Commit, TypeOK
<1>2. CASE req[p] = Idle
  BY <1>1, <1>2 DEF UpToDate, Idle
<1>3. CASE req[p] # Idle
  <2>1. ~ outdated[p] /\ member' = member
    BY <1>3 DEF Proceed, Commit, TypeOK
  <2>2. Active' = Active /\ Admins' = Admins
    BY <2>1, SameTable
  <2> QED
    BY <1>1, <2>1, <2>2 DEF UpToDate
<1> QED
  BY <1>2, <1>3

\* A request that ends, or only has its view left, relies on nothing.
LEMMA DoneUpToDate ==
    ASSUME NEW r \in Requests, req'[r].step \in {"idle", "view"}
    PROVE  UpToDate(r)'
  BY DEF UpToDate

\* What a request that goes on read before is still so.
LEMMA GoesOn ==
    ASSUME TypeOK, NEW r \in Requests, NEW q, Proceed(r, q), q # Idle, ~ outdated'[r]
    PROVE  /\ ~ outdated[r]
           /\ req'[r] = q
           /\ member' = member /\ Active' = Active /\ Admins' = Admins
  BY SameTable DEF Proceed, TypeOK

\* The request that moves relies on what it has read before and just now.
LEMMA MoverUpToDate ==
    ASSUME TypeOK, NEW r \in Requests, Handle(r), ~ outdated[r] => UpToDate(r), ~ outdated'[r]
    PROVE  UpToDate(r)'
<1>0. /\ member \in [Users -> Member]
      /\ req \in [Requests -> Request] /\ req[r] \in Request
      /\ \A q : q = Idle => q.step = "idle"
  BY DEF TypeOK, Idle
<1>a. ASSUME NEW q, q.step \in {"idle", "view"},
             Proceed(r, q) \/ \E table : Commit(r, table, q)
      PROVE  UpToDate(r)'
  <2>1. req'[r] = q
    BY <1>0, <1>a DEF Proceed, Commit
  <2> QED
    BY <1>a, <2>1, DoneUpToDate
<1>b. Idle.step = "idle" /\ [step |-> "view"].step = "view"
  BY DEF Idle
<1>1. CASE RoleBegin(r)
  <2>1. PICK a \in Admins, t \in Users, role \in Roles :
           Proceed(r, [step |-> "roleLoad", actor |-> a, target |-> t, role |-> role])
    BY <1>1 DEF RoleBegin
  <2>2. req'[r].step = "roleLoad"
    BY <1>0, <2>1 DEF Proceed
  <2> QED
    BY <2>2 DEF UpToDate
<1>2. CASE RoleLoad(r)
  <2> DEFINE q  == req[r]
             demotion == member[q.target].role = "admin" /\ q.role = "member"
             n  == [step |-> IF demotion THEN "roleCount" ELSE "roleWrite",
                    target |-> q.target, role |-> q.role, loaded |-> member[q.target]]
  <2>1. CASE Proceed(r, Idle)
    BY <1>a, <1>b, <2>1
  <2>2. CASE q.target \in Active /\ Proceed(r, n)
    <3>1. req'[r] = n /\ member' = member /\ Active' = Active /\ Admins' = Admins
      BY <1>0, <2>2, GoesOn DEF Idle
    <3>2. n.role = "member" /\ q.target \in Admins => n.step = "roleCount"
      BY DEF Admins
    <3> QED
      BY <2>2, <3>1, <3>2 DEF UpToDate
  <2> QED
    BY <1>2, <2>1, <2>2 DEF RoleLoad
<1>3. CASE RoleCount(r)
  <2> DEFINE n == [req[r] EXCEPT !.step = "roleWrite"]
  <2>1. CASE Proceed(r, Idle)
    BY <1>a, <1>b, <2>1
  <2>2. CASE Cardinality(Admins) # 1 /\ Proceed(r, n)
    <3>1. n.step = "roleWrite" /\ n.target = req[r].target /\ n.loaded = req[r].loaded
      BY <1>0, <1>3 DEF RoleCount, Request
    <3>2. /\ ~ outdated[r] /\ req'[r] = n
          /\ member' = member /\ Active' = Active /\ Admins' = Admins
      BY <1>0, <2>2, <3>1, GoesOn
    <3> QED
      BY <1>3, <2>2, <3>1, <3>2 DEF UpToDate, RoleCount
  <2> QED
    BY <1>3, <2>1, <2>2 DEF RoleCount
<1>4. CASE RoleWrite(r)
  BY <1>4, <1>a, <1>b DEF RoleWrite
<1>5. CASE RemoveBegin(r)
  <2>1. PICK a \in Admins, t \in Users :
           a # t /\ Proceed(r, [step |-> "removeLoad", actor |-> a, target |-> t])
    BY <1>5 DEF RemoveBegin
  <2>2. /\ req'[r] = [step |-> "removeLoad", actor |-> a, target |-> t]
        /\ Admins' = Admins
    BY <1>0, <2>1, GoesOn DEF Idle
  <2> QED
    BY <2>1, <2>2 DEF UpToDate
<1>6. CASE RemoveLoad(r)
  <2> DEFINE n == [req[r] EXCEPT !.step = "removeWrite"]
  <2>1. CASE Proceed(r, Idle)
    BY <1>a, <1>b, <2>1
  <2>2. CASE Proceed(r, n)
    <3>1. n.step = "removeWrite" /\ n.target = req[r].target /\ n.actor = req[r].actor
      BY <1>0, <1>6 DEF RemoveLoad, Request
    <3>2. ~ outdated[r] /\ req'[r] = n /\ Admins' = Admins
      BY <1>0, <2>2, <3>1, GoesOn
    <3> QED
      BY <1>6, <3>1, <3>2 DEF UpToDate, RemoveLoad
  <2> QED
    BY <1>6, <2>1, <2>2 DEF RemoveLoad
<1>7. CASE RemoveWrite(r)
  BY <1>7, <1>a, <1>b DEF RemoveWrite
<1>8. CASE LeaveBegin(r)
  <2>1. PICK u \in Active :
          Proceed(r, IF u \in Admins
                       THEN [step |-> "leaveCount", user |-> u, loaded |-> member]
                       ELSE [step |-> "leaveWrite", user |-> u, loaded |-> member,
                             last |-> FALSE])
    BY <1>8 DEF LeaveBegin
  <2>2. CASE u \in Admins
    <3>1. /\ req'[r] = [step |-> "leaveCount", user |-> u, loaded |-> member]
          /\ member' = member /\ Active' = Active
      BY <1>0, <2>1, <2>2, GoesOn DEF Idle
    <3> QED
      BY <3>1 DEF UpToDate
  <2>3. CASE u \notin Admins
    <3>1. /\ req'[r] = [step |-> "leaveWrite", user |-> u, loaded |-> member, last |-> FALSE]
          /\ member' = member /\ Active' = Active /\ Admins' = Admins
      BY <1>0, <2>1, <2>3, GoesOn DEF Idle
    <3> QED
      BY <2>3, <3>1 DEF UpToDate
  <2> QED
    BY <2>2, <2>3
<1>9. CASE LeaveCount(r)
  <2> DEFINE n == [step |-> "leaveWrite", user |-> req[r].user, loaded |-> req[r].loaded,
                   last |-> Cardinality(Admins) = 1]
  <2>1. Proceed(r, n)
    BY <1>9 DEF LeaveCount
  <2>2. /\ ~ outdated[r] /\ req'[r] = n
        /\ member' = member /\ Active' = Active /\ Admins' = Admins
    BY <1>0, <2>1, GoesOn DEF Idle
  <2>3. req[r].loaded = member /\ req[r].user \in Active
    BY <1>9, <2>2 DEF UpToDate, LeaveCount
  <2>4. n.step = "leaveWrite" /\ n.user = req[r].user /\ n.loaded = req[r].loaded
    OBVIOUS
  <2>5. ~ n.last => Cardinality(Admins) # 1
    BY Zenon
  <2> HIDE DEF n
  <2> QED
    BY <2>2, <2>3, <2>4, <2>5 DEF UpToDate
<1>10. CASE LeaveWrite(r)
  <2>1. \E table : Commit(r, table, Idle)
    BY <1>10 DEF LeaveWrite
  <2> QED
    BY <2>1, <1>a, <1>b
<1>11. CASE AddBegin(r)
  <2>1. PICK t \in Users : Proceed(r, [step |-> "addLoad", target |-> t])
    BY <1>11 DEF AddBegin
  <2>2. req'[r] = [step |-> "addLoad", target |-> t] /\ Admins' = Admins
    BY <1>0, <2>1, GoesOn DEF Idle
  <2> QED
    BY <1>11, <2>2 DEF UpToDate, AddBegin
<1>12. CASE AddLoad(r)
  <2> DEFINE n == [step |-> "addWrite", target |-> req[r].target,
                   loaded |-> member[req[r].target]]
  <2>1. Proceed(r, n)
    BY <1>12 DEF AddLoad
  <2>2. ~ outdated[r] /\ req'[r] = n /\ member' = member /\ Admins' = Admins
    BY <1>0, <2>1, GoesOn DEF Idle
  <2> QED
    BY <1>12, <2>2 DEF UpToDate, AddLoad
<1>13. CASE AddWrite(r)
  <2>1. \/ \E table : Commit(r, table, [step |-> "view"])
        \/ Proceed(r, Idle) \/ Proceed(r, [step |-> "view"])
    BY <1>13 DEF AddWrite
  <2> QED
    BY <2>1, <1>a, <1>b
<1>14. CASE View(r) \/ Fail(r)
  BY <1>14, <1>a, <1>b DEF View, Fail
<1> QED
  BY <1>1, <1>2, <1>3, <1>4, <1>5, <1>6, <1>7, <1>8, <1>9, <1>10, <1>11, <1>12,
     <1>13, <1>14 DEF Handle

\* Every step keeps what the requests that are not outdated have read.
LEMMA NextUpToDate ==
    ASSUME IInv, NEW r \in Requests, Handle(r), NEW p \in Requests, ~ outdated'[p]
    PROVE  UpToDate(p)'
<1>1. CASE p = r
  BY <1>1, MoverUpToDate DEF IInv
<1>2. CASE p # r
  <2>1. ~ outdated[p] => UpToDate(p)
    BY DEF IInv
  <2>2. PICK q, table : Proceed(r, q) \/ Commit(r, table, q)
    BY DEF Handle, RoleBegin, RoleLoad, RoleCount, RoleWrite, RemoveBegin, RemoveLoad,
       RemoveWrite, LeaveBegin, LeaveCount, LeaveWrite, AddBegin, AddLoad, AddWrite,
       View, Fail
  <2> QED
    BY <1>2, <2>1, <2>2, OthersUpToDate DEF IInv
<1> QED
  BY <1>1, <1>2

\* The invariant holds at the start.
LEMMA InitIInv == Init => IInv
<1> SUFFICES ASSUME Init PROVE IInv
  OBVIOUS
<1>1. \A u \in Users : member[u].active => member[u].known
  BY DEF Init, Plain, Absent
<1>2. \A r \in Requests : req[r].step = "idle"
  BY DEF Init, Idle
<1> QED
  BY <1>1, <1>2, InitType DEF IInv, RowsExist, UpToDate

\* The inductive invariant: a request whose reads nobody has outdated may rely on them.
THEOREM Invariant == Spec => []IInv
<1>1. IInv /\ [Next]_vars => IInv'
  <2>1. ASSUME IInv, UNCHANGED vars PROVE IInv'
    <3>1. Active' = Active /\ Admins' = Admins
      BY <2>1, SameTable DEF vars
    <3>2. TypeOK' /\ RowsExist'
      BY <2>1 DEF IInv, TypeOK, RowsExist, vars
    <3>3. ASSUME NEW r \in Requests, ~ outdated'[r] PROVE UpToDate(r)'
      BY <2>1, <3>1, <3>3 DEF IInv, UpToDate, vars
    <3> QED
      BY <3>2, <3>3 DEF IInv
  <2>2. ASSUME IInv, NEW r \in Requests, Handle(r) PROVE IInv'
    BY <2>2, NextType, RowsExistNext, NextUpToDate DEF IInv
  <2> QED
    BY <2>1, <2>2 DEF Next
<1> QED
  BY <1>1, InitIInv, PTL DEF Spec

-------------------------------------------------------------------------------
(* Only a request whose reads are outdated takes the last admin *)

\* An admin whom the commit leaves active and admin is an admin afterwards.
LEMMA StillAdmin ==
    ASSUME NEW b \in Users, member'[b].active, member'[b].role = "admin"
    PROVE  AdminRemains'
  BY DEF AdminRemains, Admins, Active

\* A request whose reads are not outdated leaves an admin.
LEMMA UpToDateKeepsAdmins ==
    ASSUME IInv, AdminRemains, NEW r \in Requests, Handle(r), ~ outdated[r]
    PROVE  AdminRemains'
<1> DEFINE q == req[r]
<1>0. /\ member \in [Users -> Member] /\ q \in Request /\ TypeOK
      /\ \A u \in Users : member[u] \in Member
      /\ \A u \in Users : member[u].active => member[u].known
      /\ UpToDate(r)
  BY DEF IInv, TypeOK, RowsExist
<1>1. \A b \in Admins : b \in Users /\ member[b].active /\ member[b].role = "admin"
  BY DEF Admins, Active
<1>2. CASE UNCHANGED member
  BY <1>2, SameTable DEF AdminRemains
<1>3. CASE RoleWrite(r)
  <2>1. /\ q.target \in Active /\ q.target \in Users /\ q.role \in Roles
        /\ q.loaded = member[q.target]
        /\ q.role = "member" /\ q.target \in Admins => Cardinality(Admins) # 1
    BY <1>0, <1>3, RequestFields DEF RoleWrite, UpToDate
  <2>2. /\ \A u \in Users \ {q.target} : member'[u] = member[u]
        /\ member'[q.target].active = member[q.target].active
        /\ member'[q.target].role = q.role
    BY <1>0, <1>3, <2>1 DEF RoleWrite, Commit, Member
  <2>3. CASE q.role = "admin"
    BY <2>1, <2>2, <2>3, StillAdmin DEF Active
  <2>4. CASE q.role = "member"
    <3>1. PICK b \in Admins : b # q.target
      <4>1. PICK a : a \in Admins
        BY <2>1 DEF AdminRemains
      <4> QED
        BY <2>1, <2>4, <4>1, AnotherAdmin
    <3> QED
      BY <1>1, <2>2, <3>1, StillAdmin
  <2> QED
    BY <2>1, <2>3, <2>4 DEF Roles
<1>4. CASE RemoveWrite(r)
  <2>1. q.actor \in Admins /\ q.actor # q.target
    BY <1>0, <1>4 DEF RemoveWrite, UpToDate
  <2>2. member'[q.actor] = member[q.actor]
    BY <1>0, <1>1, <1>4, <2>1 DEF RemoveWrite, Commit
  <2> QED
    BY <1>1, <2>1, <2>2, StillAdmin
<1>5. CASE LeaveWrite(r)
  <2>1. /\ q.user \in Active /\ q.loaded = member /\ q.last \in BOOLEAN
        /\ ~ q.last /\ q.user \in Admins => Cardinality(Admins) # 1
    BY <1>0, <1>5, RequestFields DEF LeaveWrite, UpToDate
  <2>2. CASE q.last
    <3>1. CASE Active \ {q.user} = {}
      <4>1. Active' = {}
        BY <1>0, <1>5, <3>1, LeaveWriteRows DEF Active
      <4> QED
        BY <4>1 DEF AdminRemains
    <3>2. CASE Active \ {q.user} # {}
      <4>1. PICK s \in Active \ {q.user} :
              q.loaded[s].role # "admin" \/ q.loaded[s] = member[s]
                => member'[s].role = "admin"
        BY <1>0, <1>5, <2>2, <3>2, LeaveWriteRows
      <4>2. s \in Users /\ member'[s].active /\ member'[s].role = "admin"
        BY <1>0, <1>5, <2>1, <4>1, LeaveWriteRows DEF Active
      <4> QED
        BY <4>2, StillAdmin
    <3> QED
      BY <3>1, <3>2
  <2>3. CASE ~ q.last
    <3>1. PICK b \in Admins : b # q.user
      <4>1. PICK a : a \in Admins
        BY <2>1 DEF AdminRemains
      <4> QED
        BY <2>1, <2>3, <4>1, AnotherAdmin
    <3>2. member'[b].active /\ member'[b].role = "admin"
      BY <1>0, <1>1, <1>5, <3>1, LeaveWriteRows
    <3> QED
      BY <1>1, <3>1, <3>2, StillAdmin
  <2> QED
    BY <2>2, <2>3
<1>6. CASE AddWrite(r)
  <2>1. PICK b : b \in Admins
    BY <1>0, <1>6 DEF AddWrite, UpToDate
  <2>2. q.target \in Users /\ q.loaded = member[q.target]
    BY <1>0, <1>6, RequestFields DEF AddWrite, UpToDate
  <2>3. CASE q.loaded.active
    BY <1>0, <1>2, <1>6, <2>2, <2>3 DEF AddWrite, Proceed
  <2>4. CASE ~ q.loaded.active
    <3>1. b # q.target
      BY <1>1, <2>1, <2>2, <2>4
    <3>2. member'[b] = member[b]
      BY <1>0, <1>1, <1>6, <2>1, <2>2, <3>1 DEF AddWrite, Commit, Proceed
    <3> QED
      BY <1>1, <2>1, <3>2, StillAdmin
  <2> QED
    BY <2>3, <2>4
<1> QED
  BY <1>2, <1>3, <1>4, <1>5, <1>6, StepKinds

\* A step that changes the table is the last or the last but one of its request.
LEMMA WritesEnd ==
    ASSUME IInv, NEW r \in Requests, Handle(r), member' # member
    PROVE  req'[r] # req[r]
<1>1. RoleWrite(r) \/ RemoveWrite(r) \/ LeaveWrite(r) \/ AddWrite(r)
  BY StepKinds
<1>2. \E s \in {Idle, [step |-> "view"]} : \E table : Commit(r, table, s) \/ Proceed(r, s)
  <2>1. CASE RoleWrite(r)
    BY <2>1 DEF RoleWrite
  <2>2. CASE RemoveWrite(r)
    BY <2>2 DEF RemoveWrite
  <2>3. CASE LeaveWrite(r)
    BY <2>3 DEF LeaveWrite
  <2>4. CASE AddWrite(r)
    BY <2>4 DEF AddWrite
  <2> QED
    BY <1>1, <2>1, <2>2, <2>3, <2>4
<1>3. req'[r].step \in {"idle", "view"}
  BY <1>2 DEF IInv, TypeOK, Commit, Proceed, Idle
<1> QED
  BY <1>1, <1>3 DEF RoleWrite, RemoveWrite, LeaveWrite, AddWrite

\* A group loses its last admin only to a request that decided on a table that
\* changed under it: one request after another, there is always an admin.
THEOREM AdminsLostOnlyToOverlap == Spec => OnlyOverlapLosesAdmins
<1>1. IInv /\ [Next]_vars
         => [AdminRemains /\ ~ AdminRemains'
               => \E r \in Requests : outdated[r] /\ req'[r] # req[r]]_vars
  <2> SUFFICES ASSUME IInv, AdminRemains, ~ AdminRemains', NEW r \in Requests, Handle(r)
               PROVE  outdated[r] /\ req'[r] # req[r]
    BY DEF Next
  <2>1. outdated[r]
    BY UpToDateKeepsAdmins
  <2>2. member' # member
    BY SameTable DEF AdminRemains
  <2> QED
    BY <2>1, <2>2, WritesEnd
<1> QED
  BY <1>1, Invariant, PTL DEF Spec, OnlyOverlapLosesAdmins

-------------------------------------------------------------------------------
(* Only a request whose reads are outdated brings an old role back *)

\* A request whose reads are not outdated takes nobody back as an admin.
LEMMA UpToDateReturnsPlain ==
    ASSUME IInv, NEW r \in Requests, Handle(r), ~ outdated[r],
           NEW u \in Users, ~ member[u].active, member'[u].active
    PROVE  member'[u].role # "admin"
<1> DEFINE q == req[r]
<1>0. /\ member \in [Users -> Member] /\ q \in Request /\ UpToDate(r) /\ TypeOK
      /\ \A v \in Users : member[v] \in Member
      /\ \A v \in Users : member[v].active => member[v].known
  BY DEF IInv, TypeOK, RowsExist
<1>1. CASE UNCHANGED member
  BY <1>1
<1>2. CASE RoleWrite(r)
  BY <1>0, <1>2, RequestFields DEF RoleWrite, Commit, Member
<1>3. CASE RemoveWrite(r)
  BY <1>0, <1>3, RequestFields DEF RemoveWrite, Commit, Member
<1>4. CASE LeaveWrite(r)
  BY <1>0, <1>4, LeaveWriteRows DEF Active, UpToDate, LeaveWrite
<1>5. CASE AddWrite(r)
  <2>1. q.target \in Users /\ q.loaded = member[q.target]
    BY <1>0, <1>5, RequestFields DEF AddWrite, UpToDate
  <2>2. u = q.target
    BY <1>0, <1>5, <2>1 DEF AddWrite, Commit, Proceed
  <2>3. CASE ~ q.loaded.known
    BY <1>0, <1>5, <2>1, <2>2, <2>3 DEF AddWrite, Commit, Proceed, Plain
  <2>4. CASE q.loaded.known
    BY <1>0, <1>5, <2>1, <2>2, <2>4 DEF AddWrite, Commit, Proceed, Member, Roles
  <2> QED
    BY <2>3, <2>4
<1> QED
  BY <1>1, <1>2, <1>3, <1>4, <1>5, StepKinds

\* Who comes back comes back as a plain member, unless the request that brings
\* it back has loaded a row that changed since.
THEOREM RolesReturnOnlyByOverlap == Spec => OnlyOverlapReturnsRoles
<1>1. IInv /\ [Next]_vars
         => [\A u \in Users :
                ~ member[u].active /\ member'[u].active /\ member'[u].role = "admin"
                => \E r \in Requests : outdated[r] /\ req'[r] # req[r]]_vars
  <2> SUFFICES ASSUME IInv, NEW r \in Requests, Handle(r), NEW u \in Users,
                      ~ member[u].active, member'[u].active, member'[u].role = "admin"
               PROVE  outdated[r] /\ req'[r] # req[r]
    BY DEF Next
  <2>1. outdated[r]
    BY UpToDateReturnsPlain
  <2>2. member' # member
    OBVIOUS
  <2> QED
    BY <2>1, <2>2, WritesEnd
<1> QED
  BY <1>1, Invariant, PTL DEF Spec, OnlyOverlapReturnsRoles

===============================================================================
