---------------------------- MODULE GroupMembership ----------------------------
(***************************************************************************)
(* Who belongs to one group and who administers it, as ConversationService *)
(* (conversation_service.py) decides it while requests overlap.            *)
(*                                                                         *)
(* Every SELECT before the first write is a step of its own, the write and *)
(* the commit are one step (see MessageService).  A row is read again by   *)
(* each query of set_role, remove_member and add_members; in leave the     *)
(* conversation object keeps all its members loaded, so the whole request  *)
(* goes by the rows as they were when it began.                            *)
(*                                                                         *)
(* Abstracted: joined_at.  leave promotes the other member who joined      *)
(* first; here any other member may be the one.  One user is added at a    *)
(* time.  The router sends a removal of oneself to leave.                  *)
(*                                                                         *)
(* A definition named Bug... is the next one with a plausible mistake in   *)
(* it; no other definition uses it, see "mutants" in PROJECT.json.         *)
(***************************************************************************)
EXTENDS Naturals, FiniteSets

CONSTANTS Users,     \* accounts
          Creator,   \* who created the group
          Requests   \* slots for the requests in flight

ASSUME CreatorAssumption == Creator \in Users

VARIABLES member,    \* conversation_members: the row of each user
          req,       \* what each request in flight will do next
          outdated   \* history: did the table change since the request began?

vars == <<member, req, outdated>>

Roles == {"admin", "member"}
Member == [known : BOOLEAN, active : BOOLEAN, role : Roles]

Absent == [known |-> FALSE, active |-> FALSE, role |-> "member"]
Plain  == [known |-> TRUE, active |-> TRUE, role |-> "member"]

Idle == [step |-> "idle"]

Request ==
         [step : {"idle", "view"}]
    \cup [step : {"roleLoad"}, actor : Users, target : Users, role : Roles]
    \cup [step : {"roleCount", "roleWrite"}, target : Users, role : Roles, loaded : Member]
    \cup [step : {"removeLoad", "removeWrite"}, actor : Users, target : Users]
    \cup [step : {"leaveCount"}, user : Users, loaded : [Users -> Member]]
    \cup [step : {"leaveWrite"}, user : Users, loaded : [Users -> Member], last : BOOLEAN]
    \cup [step : {"addLoad"}, target : Users]
    \cup [step : {"addWrite"}, target : Users, loaded : Member]

Active == {u \in Users : member[u].active}
Admins == {u \in Active : member[u].role = "admin"}

\* The request goes on without a write.
Proceed(r, request) ==
    /\ req' = [req EXCEPT ![r] = request]
    /\ UNCHANGED member
    /\ outdated' = [outdated EXCEPT ![r] = @ /\ request # Idle]

\* The request commits the table; what the others have read of it is outdated.
Commit(r, table, request) ==
    /\ member' = table
    /\ req' = [req EXCEPT ![r] = request]
    /\ outdated' = [q \in Requests |->
          q # r /\ req[q] # Idle /\ (outdated[q] \/ table # member)]

Init ==
    /\ \E others \in SUBSET (Users \ {Creator}) :
          member = [u \in Users |-> IF u = Creator THEN [Plain EXCEPT !.role = "admin"]
                                    ELSE IF u \in others THEN Plain ELSE Absent]
    /\ req = [r \in Requests |-> Idle]
    /\ outdated = [r \in Requests |-> FALSE]

-------------------------------------------------------------------------------
(* set_role *)

RoleBegin(r) ==
    /\ req[r].step = "idle"
    /\ \E a \in Admins, t \in Users, role \in Roles :
          Proceed(r, [step |-> "roleLoad", actor |-> a, target |-> t, role |-> role])

RoleLoad(r) ==
    LET q == req[r]
        demotion == member[q.target].role = "admin" /\ q.role = "member"
    IN  /\ q.step = "roleLoad"
        /\ \/ /\ q.target \notin Active
              /\ Proceed(r, Idle)
           \/ /\ q.target \in Active
              /\ Proceed(r, [step |-> IF demotion THEN "roleCount" ELSE "roleWrite",
                             target |-> q.target, role |-> q.role,
                             loaded |-> member[q.target]])

BugRoleNoCount(r) ==
    /\ req[r].step = "roleCount"
    /\ Proceed(r, [req[r] EXCEPT !.step = "roleWrite"])

\* "A group must keep at least one admin."
RoleCount(r) ==
    /\ req[r].step = "roleCount"
    /\ Proceed(r, IF Cardinality(Admins) = 1 THEN Idle
                  ELSE [req[r] EXCEPT !.step = "roleWrite"])

\* The ORM writes the role only where it differs from the loaded one.
RoleWrite(r) ==
    LET q == req[r]
    IN  /\ q.step = "roleWrite"
        /\ Commit(r, [member EXCEPT ![q.target].role = IF q.role # q.loaded.role
                                                         THEN q.role ELSE @],
                  [step |-> "view"])

-------------------------------------------------------------------------------
(* remove_member and leave *)

RemoveBegin(r) ==
    /\ req[r].step = "idle"
    /\ \E a \in Admins : \E t \in Users \ {a} :
          Proceed(r, [step |-> "removeLoad", actor |-> a, target |-> t])

RemoveLoad(r) ==
    /\ req[r].step = "removeLoad"
    /\ Proceed(r, IF req[r].target \in Active THEN [req[r] EXCEPT !.step = "removeWrite"]
                                              ELSE Idle)

RemoveWrite(r) ==
    /\ req[r].step = "removeWrite"
    /\ Commit(r, [member EXCEPT ![req[r].target].active = FALSE], Idle)

\* An admin's departure has the admins counted, another's is written at once.
LeaveBegin(r) ==
    /\ req[r].step = "idle"
    /\ \E u \in Active :
          Proceed(r, IF u \in Admins
                       THEN [step |-> "leaveCount", user |-> u, loaded |-> member]
                       ELSE [step |-> "leaveWrite", user |-> u, loaded |-> member,
                             last |-> FALSE])

LeaveCount(r) ==
    /\ req[r].step = "leaveCount"
    /\ Proceed(r, [step |-> "leaveWrite", user |-> req[r].user,
                   loaded |-> req[r].loaded, last |-> Cardinality(Admins) = 1])

\* The last admin hands over.  The successor is chosen among the rows as they
\* are now, but is only written where the role loaded at the start was not
\* already admin.
LeaveWrite(r) ==
    LET q      == req[r]
        gone   == [member EXCEPT ![q.user].active = FALSE]
        others == Active \ {q.user}
    IN  /\ q.step = "leaveWrite"
        /\ \/ /\ ~ q.last \/ others = {}
              /\ Commit(r, gone, Idle)
           \/ /\ q.last
              /\ \E s \in others :
                    Commit(r, [gone EXCEPT ![s].role =
                                 IF q.loaded[s].known /\ q.loaded[s].role = "admin"
                                   THEN @ ELSE "admin"], Idle)

-------------------------------------------------------------------------------
(* add_members *)

AddBegin(r) ==
    /\ req[r].step = "idle"
    /\ Admins # {}
    /\ \E t \in Users : Proceed(r, [step |-> "addLoad", target |-> t])

AddLoad(r) ==
    /\ req[r].step = "addLoad"
    /\ Proceed(r, [step |-> "addWrite", target |-> req[r].target,
                   loaded |-> member[req[r].target]])

BugReturnKeepsRole(r) ==
    LET t == req[r].target
    IN  /\ req[r].step = "addWrite"
        /\ ~ req[r].loaded.active
        /\ Commit(r, [member EXCEPT ![t].active = TRUE], [step |-> "view"])

\* A row that has appeared since is a primary-key conflict; a departed member
\* comes back as a plain one; of an active member nothing is written.
AddWrite(r) ==
    LET t   == req[r].target
        old == req[r].loaded
    IN  /\ req[r].step = "addWrite"
        /\ \/ /\ ~ old.known /\ ~ member[t].known
              /\ Commit(r, [member EXCEPT ![t] = Plain], [step |-> "view"])
           \/ /\ ~ old.known /\ member[t].known
              /\ Proceed(r, Idle)
           \/ /\ old.known /\ ~ old.active
              /\ Commit(r, [member EXCEPT ![t].active = TRUE,
                                          ![t].role = IF old.role # "member"
                                                        THEN "member" ELSE @],
                        [step |-> "view"])
           \/ /\ old.active
              /\ Proceed(r, [step |-> "view"])

-------------------------------------------------------------------------------
(* get, and what ends a request early *)

BugViewCommits(r) ==
    /\ req[r].step = "view"
    /\ Commit(r, [u \in Users |-> IF member[u].active THEN member[u] ELSE Absent], Idle)

\* get() drops the departed from conversation.members, which deletes their rows
\* as orphans when the session flushes; it never commits, so they stay.
View(r) ==
    /\ req[r].step = "view"
    /\ Proceed(r, Idle)

\* SQLite stays locked for longer than busy_timeout: the request ends in an
\* error and is rolled back.
Fail(r) ==
    /\ req[r].step \in {"roleWrite", "removeWrite", "leaveWrite", "addWrite"}
    /\ Proceed(r, Idle)

-------------------------------------------------------------------------------

Handle(r) ==
    \/ RoleBegin(r) \/ RoleLoad(r) \/ RoleCount(r) \/ RoleWrite(r)
    \/ RemoveBegin(r) \/ RemoveLoad(r) \/ RemoveWrite(r)
    \/ LeaveBegin(r) \/ LeaveCount(r) \/ LeaveWrite(r)
    \/ AddBegin(r) \/ AddLoad(r) \/ AddWrite(r)
    \/ View(r) \/ Fail(r)

Next == \E r \in Requests : Handle(r)

Spec == Init /\ [][Next]_vars

-------------------------------------------------------------------------------
(* Properties *)

TypeOK ==
    /\ member \in [Users -> Member]
    /\ req \in [Requests -> Request]
    /\ outdated \in [Requests -> BOOLEAN]

\* "A group must keep at least one admin" (set_role), as long as it has a member.
AdminRemains == Active # {} => Admins # {}

\* Who belongs to the group has a row, and a row once loaded is still there.
RowsExist ==
    /\ \A u \in Users : member[u].active => member[u].known
    /\ \A r \in Requests : req[r].step = "addWrite" /\ req[r].loaded.known
                           => member[req[r].target].known

\* What a request in flight relies on, if the table is still as it read it.
UpToDate(r) ==
    LET q == req[r]
    IN  /\ q.step \in {"roleCount", "roleWrite"} =>
              q.target \in Active /\ q.loaded = member[q.target]
        /\ q.step = "roleWrite" /\ q.role = "member" /\ q.target \in Admins =>
              Cardinality(Admins) # 1
        /\ q.step \in {"removeLoad", "removeWrite"} =>
              q.actor \in Admins /\ q.actor # q.target
        /\ q.step \in {"leaveCount", "leaveWrite"} =>
              q.loaded = member /\ q.user \in Active
        /\ q.step = "leaveWrite" /\ ~ q.last /\ q.user \in Admins =>
              Cardinality(Admins) # 1
        /\ q.step \in {"addLoad", "addWrite"} => Admins # {}
        /\ q.step = "addWrite" => q.loaded = member[q.target]

\* The inductive invariant: a request's reads hold until it is outdated.
IInv ==
    /\ TypeOK
    /\ RowsExist
    /\ \A r \in Requests : ~ outdated[r] => UpToDate(r)

\* A group loses its last admin only to a request that was deciding on a table
\* that changed under it.
OnlyOverlapLosesAdmins ==
    [][AdminRemains /\ ~ AdminRemains'
       => \E r \in Requests : outdated[r] /\ req'[r] # req[r]]_vars

\* README: "Departures, not removals": no row is ever taken away, so that the
\* messages of a departed member keep an author.
DeparturesKeepTheirRow ==
    [][\A u \in Users : member[u].known => member'[u].known]_vars

\* Who comes back comes back as a plain member, unless the request that brings
\* it back has loaded a row that changed since.
OnlyOverlapReturnsRoles ==
    [][\A u \in Users : ~ member[u].active /\ member'[u].active /\ member'[u].role = "admin"
         => \E r \in Requests : outdated[r] /\ req'[r] # req[r]]_vars

===============================================================================
