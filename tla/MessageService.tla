---------------------------- MODULE MessageService ----------------------------
(***************************************************************************)
(* One conversation as MessageService (message_service.py) keeps it in     *)
(* SQLite, with any number of HTTP requests and socket frames in flight.   *)
(*                                                                         *)
(* Grain of the actions.  A SELECT that precedes the first write of a      *)
(* request runs in autocommit mode: it is a step of its own and what it    *)
(* loaded is kept in the request (`loaded').  The first write opens the    *)
(* transaction and takes SQLite's single write lock, so everything from    *)
(* there to commit() is one step.  The event is published after the        *)
(* commit, in a further step.                                              *)
(*                                                                         *)
(* The ORM skips an assignment that does not change the loaded value and   *)
(* writes only the columns that changed; both matter to the cursors and    *)
(* are modelled.                                                           *)
(*                                                                         *)
(* Abstracted: bodies, kinds, reply and attachment contents, timestamps.   *)
(* What can go wrong in them before the commit is the action Fail.         *)
(*                                                                         *)
(* A definition named Bug... is the next one with a plausible mistake in   *)
(* it; no other definition uses it, see "mutants" in PROJECT.json.         *)
(***************************************************************************)
EXTENDS Naturals, FiniteSets

CONSTANTS Users,      \* accounts
          Keys,       \* client_message_ids
          Requests,   \* slots for the requests in flight
          Senders,    \* the users whose clients send
          Readers,    \* the users whose clients acknowledge and read
          Deleters,   \* the users who delete what they sent
          Leavers,    \* the users who may leave and come back
          MaxSeq,     \* bound on the number of messages
          NoMessage   \* last_message_id = None

Row == [seq : Nat, sender : Users, key : Keys]

ASSUME ServiceAssumption ==
    /\ Senders \cup Readers \cup Deleters \cup Leavers \subseteq Users
    /\ MaxSeq \in Nat
    /\ NoMessage \notin Row

VARIABLES messages,    \* the rows of the conversation
          deleted,     \* those with deleted_at set
          lastSeq,     \* conversations.last_seq
          lastMessage, \* conversations.last_message_id
          member,      \* conversation_members, by user
          req,         \* what each request in flight will do next
          published,   \* message events that reached the bus
          receipt,     \* the receipt.updated of each member published last
          answered,    \* sends answered 201: <<sender, key>>
          refused,     \* sends that ended in an IntegrityError
          reported     \* history: the newest seq a user said to have read, or wrote

vars == <<messages, deleted, lastSeq, lastMessage, member, req, published,
          receipt, answered, refused, reported>>

tables == <<messages, deleted, lastSeq, lastMessage>>
outcome == <<published, receipt, answered, refused>>

Member == [read : Nat, delivered : Nat, unread : Nat, active : BOOLEAN]

Idle == [step |-> "idle"]

Request ==
         [step : {"idle"}]
    \cup [step : {"lookup", "insert"}, user : Users, key : Keys]
    \cup [step : {"read", "ack"}, user : Users, seq : Nat, loaded : Member]
    \cup [step : {"recount"}, user : Users, loaded : Member, count : Nat]
    \cup [step : {"delete", "created", "retracted"}, row : Row]
    \cup [step : {"receipt"}, user : Users, read : Nat, delivered : Nat]

Newer(a, b) == IF a > b THEN a ELSE b

\* _count_unread: what others wrote beyond a read cursor and did not delete.
CountUnread(u, read) ==
    Cardinality({m \in messages \ deleted : m.seq > read /\ m.sender # u})

BugPeers(u) == {v \in Users \ {u} : ~ member[v].active}

\* peer_ids: who an event caused by u is addressed to.
Peers(u) == {v \in Users \ {u} : member[v].active}

Stored(u, k) == \E m \in messages : m.sender = u /\ m.key = k

To(r, request) == req' = [req EXCEPT ![r] = request]

Event(kind, row) ==
    published' = IF Peers(row.sender) = {} THEN published
                                           ELSE published \cup {<<kind, row>>}

Init ==
    /\ messages = {}
    /\ deleted = {}
    /\ lastSeq = 0
    /\ lastMessage = NoMessage
    /\ \E absent \in SUBSET Leavers :
          member = [u \in Users |-> [read |-> 0, delivered |-> 0, unread |-> 0,
                                     active |-> u \notin absent]]
    /\ req = [r \in Requests |-> Idle]
    /\ published = {}
    /\ receipt = [u \in Users |-> [read |-> 0, delivered |-> 0]]
    /\ answered = {}
    /\ refused = {}
    /\ reported = [u \in Users |-> 0]

-------------------------------------------------------------------------------
(* send *)

SendBegin(r) ==
    /\ req[r].step = "idle"
    /\ \E u \in Senders, k \in Keys :
          /\ member[u].active
          /\ To(r, [step |-> "lookup", user |-> u, key |-> k])
    /\ UNCHANGED <<tables, member, outcome, reported>>

\* The lookup finds the row: the retry is answered with it.
SendDuplicate(r) ==
    /\ req[r].step = "lookup"
    /\ Stored(req[r].user, req[r].key)
    /\ To(r, Idle)
    /\ answered' = answered \cup {<<req[r].user, req[r].key>>}
    /\ UNCHANGED <<tables, member, published, receipt, refused, reported>>

SendFresh(r) ==
    /\ req[r].step = "lookup"
    /\ ~ Stored(req[r].user, req[r].key)
    /\ To(r, [req[r] EXCEPT !.step = "insert"])
    /\ UNCHANGED <<tables, member, outcome, reported>>

BugConflictBurnsSeq(r) ==
    /\ req[r].step = "insert"
    /\ Stored(req[r].user, req[r].key)
    /\ lastSeq' = lastSeq + 1
    /\ To(r, Idle)
    /\ UNCHANGED <<messages, deleted, lastMessage, member, outcome, reported>>

\* The row appeared since the lookup: flush() raises before the try block that
\* looks the winner up, the transaction and its seq are rolled back.
SendConflict(r) ==
    /\ req[r].step = "insert"
    /\ Stored(req[r].user, req[r].key)
    /\ To(r, Idle)
    /\ refused' = refused \cup {<<req[r].user, req[r].key>>}
    /\ UNCHANGED <<tables, member, published, receipt, answered, reported>>

\* UQ(sender_id, client_message_id), checked by SQLite at the INSERT.
BugNoUniqueKey(u, k) == TRUE
KeyIsFree(u, k) == ~ Stored(u, k)

\* _bump_unread and _advance_sender_cursors.
BugNoBump(u, seq) ==
    [member EXCEPT ![u] = [@ EXCEPT !.read = seq, !.delivered = seq, !.unread = 0]]
MembersAfterSend(u, seq) ==
    [v \in Users |->
        IF v = u
          THEN [member[v] EXCEPT !.read = seq, !.delivered = seq, !.unread = 0]
          ELSE [member[v] EXCEPT !.unread = IF member[v].active THEN @ + 1 ELSE @]]

\* One transaction: _next_seq, the row, last_message_id, the members.
SendCommit(r) ==
    LET u   == req[r].user
        seq == lastSeq + 1
        row == [seq |-> seq, sender |-> u, key |-> req[r].key]
    IN  /\ req[r].step = "insert"
        /\ KeyIsFree(u, req[r].key)
        /\ lastSeq < MaxSeq
        /\ lastSeq' = seq
        /\ messages' = messages \cup {row}
        /\ lastMessage' = row
        /\ member' = MembersAfterSend(u, seq)
        /\ reported' = [reported EXCEPT ![u] = Newer(@, seq)]
        /\ To(r, [step |-> "created", row |-> row])
        /\ UNCHANGED <<deleted, outcome>>

PublishCreated(r) ==
    /\ req[r].step = "created"
    /\ Event("created", req[r].row)
    /\ answered' = answered \cup {<<req[r].row.sender, req[r].row.key>>}
    /\ To(r, Idle)
    /\ UNCHANGED <<tables, member, receipt, refused, reported>>

-------------------------------------------------------------------------------
(* mark_read and mark_delivered *)

ReadBegin(r) ==
    /\ req[r].step = "idle"
    /\ \E u \in Readers, s \in 1..lastSeq :
          /\ member[u].active
          /\ To(r, [step |-> "read", user |-> u, seq |-> s, loaded |-> member[u]])
          /\ reported' = [reported EXCEPT ![u] = Newer(@, s)]
    /\ UNCHANGED <<tables, member, outcome>>

\* A cursor moves against the loaded row: the autoflush before the count opens
\* the transaction, so the count is exact.  A column equal to the loaded value
\* is left as the database has it now.
ReadCommit(r) ==
    LET u     == req[r].user
        s     == req[r].seq
        old   == req[r].loaded
        read  == Newer(s, old.read)
        count == CountUnread(u, read)
    IN  /\ req[r].step = "read"
        /\ s > old.read \/ s > old.delivered
        /\ member' = [member EXCEPT
              ![u].read      = IF s > old.read THEN s ELSE @,
              ![u].delivered = IF s > old.delivered THEN s ELSE @,
              ![u].unread    = IF count # old.unread THEN count ELSE @]
        /\ To(r, [step |-> "receipt", user |-> u, read |-> read,
                  delivered |-> Newer(s, old.delivered)])
        /\ UNCHANGED <<tables, outcome, reported>>

\* No cursor moves: nothing is flushed and the count runs outside a transaction.
ReadCount(r) ==
    /\ req[r].step = "read"
    /\ req[r].seq <= req[r].loaded.read
    /\ req[r].seq <= req[r].loaded.delivered
    /\ To(r, [step |-> "recount", user |-> req[r].user, loaded |-> req[r].loaded,
              count |-> CountUnread(req[r].user, req[r].loaded.read)])
    /\ UNCHANGED <<tables, member, outcome, reported>>

RecountCommit(r) ==
    LET old == req[r].loaded
    IN  /\ req[r].step = "recount"
        /\ member' = [member EXCEPT ![req[r].user].unread =
                        IF req[r].count # old.unread THEN req[r].count ELSE @]
        /\ To(r, [step |-> "receipt", user |-> req[r].user, read |-> old.read,
                  delivered |-> old.delivered])
        /\ UNCHANGED <<tables, outcome, reported>>

AckBegin(r) ==
    /\ req[r].step = "idle"
    /\ \E u \in Readers, s \in 1..lastSeq :
          /\ member[u].active
          /\ To(r, [step |-> "ack", user |-> u, seq |-> s, loaded |-> member[u]])
    /\ UNCHANGED <<tables, member, outcome, reported>>

BugAckUnguarded(r) ==
    /\ req[r].step = "ack"
    /\ member' = [member EXCEPT ![req[r].user].delivered = req[r].seq]
    /\ To(r, Idle)
    /\ UNCHANGED <<tables, outcome, reported>>
BugAckReads(r) ==
    LET u == req[r].user
        s == req[r].seq
    IN  /\ req[r].step = "ack"
        /\ s > req[r].loaded.delivered
        /\ member' = [member EXCEPT ![u].delivered = s, ![u].read = s]
        /\ To(r, [step |-> "receipt", user |-> u, read |-> s, delivered |-> s])
        /\ UNCHANGED <<tables, outcome, reported>>

AckCommit(r) ==
    LET u == req[r].user
        s == req[r].seq
    IN  /\ req[r].step = "ack"
        /\ s > req[r].loaded.delivered
        /\ member' = [member EXCEPT ![u].delivered = s]
        /\ To(r, [step |-> "receipt", user |-> u, read |-> req[r].loaded.read,
                  delivered |-> s])
        /\ UNCHANGED <<tables, outcome, reported>>

AckNothingNew(r) ==
    /\ req[r].step = "ack"
    /\ req[r].seq <= req[r].loaded.delivered
    /\ To(r, Idle)
    /\ UNCHANGED <<tables, member, outcome, reported>>

\* The payload is the request's own copy of the row, not the row as it is now;
\* a client replaces what it knew of that member by it.
PublishReceipt(r) ==
    /\ req[r].step = "receipt"
    /\ receipt' = IF Peers(req[r].user) = {} THEN receipt
                  ELSE [receipt EXCEPT ![req[r].user] =
                          [read |-> req[r].read, delivered |-> req[r].delivered]]
    /\ To(r, Idle)
    /\ UNCHANGED <<tables, member, published, answered, refused, reported>>

-------------------------------------------------------------------------------
(* delete *)

DeleteBegin(r) ==
    /\ req[r].step = "idle"
    /\ \E m \in messages \ deleted :
          /\ m.sender \in Deleters
          /\ member[m.sender].active
          /\ To(r, [step |-> "delete", row |-> m])
    /\ UNCHANGED <<tables, member, outcome, reported>>

DeleteCommit(r) ==
    /\ req[r].step = "delete"
    /\ deleted' = deleted \cup {req[r].row}
    /\ To(r, [req[r] EXCEPT !.step = "retracted"])
    /\ UNCHANGED <<messages, outcome, lastSeq, lastMessage, member, reported>>

PublishDeleted(r) ==
    /\ req[r].step = "retracted"
    /\ Event("deleted", req[r].row)
    /\ To(r, Idle)
    /\ UNCHANGED <<tables, member, receipt, answered, refused, reported>>

-------------------------------------------------------------------------------
(* What happens around the service *)

BugFailSwallowed(r) ==
    /\ req[r].step = "insert"
    /\ To(r, Idle)
    /\ answered' = answered \cup {<<req[r].user, req[r].key>>}
    /\ UNCHANGED <<tables, member, published, receipt, refused, reported>>

\* A request ends before its commit: an empty body, a foreign reply, a refused
\* attachment, or SQLite's busy_timeout.  Everything is rolled back.
Fail(r) ==
    /\ req[r].step \in {"insert", "read", "ack", "recount", "delete"}
    /\ To(r, Idle)
    /\ UNCHANGED <<tables, member, outcome, reported>>

\* The effect here of ConversationService.leave or remove_member; cursors stay.
MemberLeaves(u) ==
    /\ member[u].active
    /\ member' = [member EXCEPT ![u].active = FALSE]
    /\ UNCHANGED <<tables, req, outcome, reported>>

\* The effect here of ConversationService.add_members, first time or again.
MemberReturns(u) ==
    /\ ~ member[u].active
    /\ member' = [member EXCEPT ![u].active = TRUE]
    /\ UNCHANGED <<tables, req, outcome, reported>>

\* The process stops and starts again: the requests in flight are gone, with
\* the events they had not published; the database is as committed.
Restart ==
    /\ \E r \in Requests : req[r] # Idle
    /\ req' = [r \in Requests |-> Idle]
    /\ UNCHANGED <<tables, member, outcome, reported>>

-------------------------------------------------------------------------------

Arrive(r) == SendBegin(r) \/ ReadBegin(r) \/ AckBegin(r) \/ DeleteBegin(r)

\* Every way a request in flight can go on.
Handle(r) ==
    \/ SendDuplicate(r) \/ SendFresh(r) \/ SendConflict(r) \/ SendCommit(r)
    \/ PublishCreated(r)
    \/ ReadCommit(r) \/ ReadCount(r) \/ RecountCommit(r)
    \/ AckCommit(r) \/ AckNothingNew(r)
    \/ PublishReceipt(r)
    \/ DeleteCommit(r) \/ PublishDeleted(r)
    \/ Fail(r)

Step ==
    \/ \E r \in Requests : Arrive(r) \/ Handle(r)
    \/ \E u \in Leavers : MemberLeaves(u) \/ MemberReturns(u)

Next == Step \/ Restart

Spec == Init /\ [][Next]_vars

\* A server that is not restarted; a request that was taken up is carried on.
FairSpec == Init /\ [][Step]_vars /\ \A r \in Requests : WF_vars(Handle(r))

-------------------------------------------------------------------------------
(* Properties *)

TypeOK ==
    /\ messages \subseteq Row
    /\ deleted \subseteq Row
    /\ lastSeq \in Nat
    /\ lastMessage \in Row \cup {NoMessage}
    /\ member \in [Users -> Member]
    /\ req \in [Requests -> Request]
    /\ published \subseteq {"created", "deleted"} \X Row
    /\ receipt \in [Users -> [read : Nat, delivered : Nat]]
    /\ answered \subseteq Users \X Keys
    /\ refused \subseteq Users \X Keys
    /\ reported \in [Users -> Nat]

\* Sends that overlap, fail, are retried or lose the unique-key race leave no
\* hole and no repetition in 1..last_seq, and the list preview is the newest row.
SeqGapless ==
    /\ {m.seq : m \in messages} = 1..lastSeq
    /\ \A m, n \in messages : m.seq = n.seq => m = n
    /\ IF lastSeq = 0 THEN lastMessage = NoMessage
                      ELSE lastMessage \in messages /\ lastMessage.seq = lastSeq

\* The same client_message_id twice yields one row, however the two overlap.
OneRowPerKey ==
    \A m, n \in messages : m.sender = n.sender /\ m.key = n.key => m = n

\* No member is told of a message that was rolled back, or of a deletion that was.
NoPhantomEvent ==
    \A e \in published : e[2] \in (IF e[1] = "created" THEN messages ELSE deleted)

\* A send answered with success is in the conversation, whatever failed or
\* restarted around it.
AnsweredIsStored ==
    \A a \in answered : Stored(a[1], a[2])

\* "Read" is never shown for a message beyond what the member's own client
\* reported or wrote: neither by the stored cursor nor by a published receipt.
ReadTicksHonest ==
    \A u \in Users :
        /\ member[u].read <= reported[u]
        /\ receipt[u].read <= reported[u]

\* What a request in flight remembers of the tables is still there, and what is
\* deleted is still a row.
PendingRows ==
    /\ deleted \subseteq messages
    /\ \A r \in Requests :
          /\ req[r].step \in {"delete", "created", "retracted"} => req[r].row \in messages
          /\ req[r].step = "retracted" => req[r].row \in deleted

\* No request in flight carries a read position its user did not report.
PendingReads ==
    \A r \in Requests :
        /\ req[r].step \in {"read", "recount", "ack"} =>
              req[r].loaded.read <= reported[req[r].user]
        /\ req[r].step = "read" => req[r].seq <= reported[req[r].user]
        /\ req[r].step = "receipt" => req[r].read <= reported[req[r].user]

\* The inductive invariant: the properties above and what they need of the
\* requests in flight.
IInv ==
    /\ TypeOK
    /\ IsFiniteSet(messages)
    /\ SeqGapless
    /\ OneRowPerKey
    /\ NoPhantomEvent
    /\ AnsweredIsStored
    /\ ReadTicksHonest
    /\ PendingRows
    /\ PendingReads

\* The columns a request's assignments are compared with.
Stale(r) == req[r].loaded # member[req[r].user]

\* A cursor is only moved back by a mark whose copy of the row is out of date:
\* by a mark of the same member that overlapped with another write of the row.
OnlyOverlapMovesBack ==
    [][\A u \in Users :
          \/ member'[u].read < member[u].read
          \/ member'[u].delivered < member[u].delivered
          => \E r \in Requests : /\ req[r].step \in {"read", "ack"}
                                 /\ req[r].user = u
                                 /\ Stale(r)]_vars

Hides(u) == member[u].active /\ member[u].unread < CountUnread(u, member[u].read)

\* The unread messages were counted before others were sent or deleted.
Outcounted(r) ==
    /\ req[r].step = "recount"
    /\ req[r].count # CountUnread(req[r].user, req[r].loaded.read)

\* The badge of a member comes to show less than the unread messages only when a
\* mark wrote from an out-of-date copy of the row or from an out-of-date count (the
\* row may be the same again when the count is not), or when a departed member
\* came back.
OnlyOverlapHidesUnread ==
    [][\A u \in Users :
          Hides(u)' /\ ~ Hides(u)
          => \/ ~ member[u].active
             \/ \E r \in Requests : /\ req[r].step \in {"read", "recount"}
                                    /\ req[r].user = u
                                    /\ Stale(r) \/ Outcounted(r)]_vars

EntryAt(i) == LET m == CHOOSE m \in messages : m.seq = i IN <<m.sender, m.key>>

Log == INSTANCE MessageLog WITH
    log       <- [i \in 1..lastSeq |-> EntryAt(i)],
    gone      <- {m.seq : m \in deleted},
    confirmed <- answered,
    told      <- {<<e[1], e[2].seq>> : e \in published}

\* The tables and the bus behave as the log of MessageLog.
ImplementsLog == Log!Spec

\* Every committed message is announced to the other members in the end.
CommittedIsAnnounced ==
    \A s \in 1..MaxSeq :
        (lastSeq >= s) ~> (\E e \in published : e[1] = "created" /\ e[2].seq = s)

\* Every committed deletion is announced in the end.
DeletionIsAnnounced ==
    \A s \in 1..MaxSeq :
        (\E m \in deleted : m.seq = s)
            ~> (\E e \in published : e[1] = "deleted" /\ e[2].seq = s)

\* README: "Every durable mutation is an idempotent REST call -- retryable": a
\* send whose row exists is answered with that row, never with an error.
RetryIsAnswered == \A a \in refused : ~ Stored(a[1], a[2])

===============================================================================
