------------------------- MODULE MessageServiceProofs -------------------------
(***************************************************************************)
(* Proofs about MessageService, for every set of users, keys and requests  *)
(* and every bound.                                                        *)
(***************************************************************************)
EXTENDS MessageService, SequenceTheorems, FiniteSetTheorems, TLAPS

-------------------------------------------------------------------------------
(* Lemmas about the operators *)

\* A request with a given step has the fields that go with that step.
LEMMA RequestFields ==
    ASSUME NEW q \in Request
    PROVE  /\ q.step \in {"lookup", "insert"} => q.user \in Users /\ q.key \in Keys
           /\ q.step \in {"read", "ack"} =>
                 q.user \in Users /\ q.seq \in Nat /\ q.loaded \in Member
           /\ q.step = "recount" =>
                 q.user \in Users /\ q.loaded \in Member /\ q.count \in Nat
           /\ q.step \in {"delete", "created", "retracted"} => q.row \in Row
           /\ q.step = "receipt" => q.user \in Users /\ q.read \in Nat /\ q.delivered \in Nat
  BY DEF Request

\* Counting the rows beyond a cursor yields a number.
LEMMA CountUnreadType ==
    ASSUME IsFiniteSet(messages), NEW u, NEW read
    PROVE  CountUnread(u, read) \in Nat
<1> DEFINE S == {m \in messages \ deleted : m.seq > read /\ m.sender # u}
<1>1. S \subseteq messages
  OBVIOUS
<1>2. IsFiniteSet(S)
  BY <1>1, FS_Subset
<1> QED
  BY <1>2, FS_CardinalityType DEF CountUnread

\* The newer of two positions is one of them and at least each.
LEMMA NewerBounds ==
    ASSUME NEW a \in Nat, NEW b \in Nat
    PROVE  /\ Newer(a, b) \in Nat
           /\ Newer(a, b) >= a
           /\ Newer(a, b) >= b
           /\ Newer(a, b) = a \/ Newer(a, b) = b
  BY DEF Newer

\* The columns sent to the members by a send are well typed.
LEMMA MembersAfterSendType ==
    ASSUME member \in [Users -> Member], NEW u \in Users, NEW seq \in Nat
    PROVE  MembersAfterSend(u, seq) \in [Users -> Member]
<1> DEFINE row(v) ==
       IF v = u
         THEN [member[v] EXCEPT !.read = seq, !.delivered = seq, !.unread = 0]
         ELSE [member[v] EXCEPT !.unread = IF member[v].active THEN @ + 1 ELSE @]
<1>1. ASSUME NEW v \in Users PROVE row(v) \in Member
  <2>1. member[v] \in Member
    OBVIOUS
  <2>2. CASE v = u
    BY <2>1, <2>2 DEF Member
  <2>3. CASE v # u
    BY <2>1, <2>3 DEF Member
  <2> QED
    BY <2>2, <2>3
<1>2. MembersAfterSend(u, seq) = [v \in Users |-> row(v)]
  BY DEF MembersAfterSend
<1> QED
  BY <1>1, <1>2

-------------------------------------------------------------------------------
(* Type correctness *)

\* The types hold at the start, and no message is stored.
LEMMA InitType == Init => TypeOK /\ IsFiniteSet(messages)
<1> SUFFICES ASSUME Init PROVE TypeOK /\ IsFiniteSet(messages)
  OBVIOUS
<1>1. IsFiniteSet(messages)
  BY FS_EmptySet DEF Init
<1>2. member \in [Users -> Member]
  BY DEF Init, Member
<1>3. req \in [Requests -> Request]
  BY DEF Init, Idle, Request
<1> QED
  BY <1>1, <1>2, <1>3 DEF Init, TypeOK

\* Requests arrive with the types.
LEMMA ArriveType ==
    ASSUME TypeOK, NEW r \in Requests, Arrive(r)
    PROVE  TypeOK'
<1>1. CASE SendBegin(r)
  <2>1. PICK u \in Users, k \in Keys : To(r, [step |-> "lookup", user |-> u, key |-> k])
    BY <1>1, ServiceAssumption DEF SendBegin
  <2>2. [step |-> "lookup", user |-> u, key |-> k] \in Request
    BY DEF Request
  <2> QED
    BY <1>1, <2>1, <2>2 DEF SendBegin, TypeOK, To, tables, outcome
<1>2. CASE ReadBegin(r)
  <2>1. PICK u \in Users, s \in 1..lastSeq :
           /\ To(r, [step |-> "read", user |-> u, seq |-> s, loaded |-> member[u]])
           /\ reported' = [reported EXCEPT ![u] = Newer(@, s)]
    BY <1>2, ServiceAssumption DEF ReadBegin
  <2>2. [step |-> "read", user |-> u, seq |-> s, loaded |-> member[u]] \in Request
    BY DEF Request, TypeOK
  <2>3. reported' \in [Users -> Nat]
    BY <2>1, NewerBounds DEF TypeOK
  <2> QED
    BY <1>2, <2>1, <2>2, <2>3 DEF ReadBegin, TypeOK, To, tables, outcome
<1>3. CASE AckBegin(r)
  <2>1. PICK u \in Users, s \in 1..lastSeq :
           To(r, [step |-> "ack", user |-> u, seq |-> s, loaded |-> member[u]])
    BY <1>3, ServiceAssumption DEF AckBegin
  <2>2. [step |-> "ack", user |-> u, seq |-> s, loaded |-> member[u]] \in Request
    BY DEF Request, TypeOK
  <2> QED
    BY <1>3, <2>1, <2>2 DEF AckBegin, TypeOK, To, tables, outcome
<1>4. CASE DeleteBegin(r)
  <2>1. PICK m \in messages : To(r, [step |-> "delete", row |-> m])
    BY <1>4 DEF DeleteBegin
  <2>2. [step |-> "delete", row |-> m] \in Request
    BY DEF Request, TypeOK
  <2> QED
    BY <1>4, <2>1, <2>2 DEF DeleteBegin, TypeOK, To, tables, outcome
<1> QED
  BY <1>1, <1>2, <1>3, <1>4 DEF Arrive

\* The commit of a send keeps the types.
LEMMA SendCommitType ==
    ASSUME TypeOK, NEW r \in Requests, SendCommit(r)
    PROVE  TypeOK'
<1> DEFINE u   == req[r].user
           row == [seq |-> lastSeq + 1, sender |-> u, key |-> req[r].key]
<1>1. u \in Users /\ req[r].key \in Keys
  BY RequestFields DEF TypeOK, SendCommit
<1>2. row \in Row
  BY <1>1 DEF Row, TypeOK
<1>3. /\ messages' = messages \cup {row}
      /\ lastMessage' = row
      /\ lastSeq' = lastSeq + 1
      /\ member' = MembersAfterSend(u, lastSeq + 1)
      /\ reported' = [reported EXCEPT ![u] = Newer(@, lastSeq + 1)]
      /\ req' = [req EXCEPT ![r] = [step |-> "created", row |-> row]]
      /\ UNCHANGED <<deleted, outcome>>
  BY DEF SendCommit, To
<1> HIDE DEF row, u
<1>4. member' \in [Users -> Member]
  <2>1. lastSeq + 1 \in Nat /\ member \in [Users -> Member]
    BY DEF TypeOK
  <2> QED
    BY <1>1, <1>3, <2>1, MembersAfterSendType
<1>5. [step |-> "created", row |-> row] \in Request
  BY <1>2 DEF Request
<1>6. reported' \in [Users -> Nat]
  BY <1>1, <1>3, NewerBounds DEF TypeOK
<1> QED
  BY <1>2, <1>3, <1>4, <1>5, <1>6 DEF TypeOK, outcome

\* Writing a member's columns from typed values keeps the table typed.
LEMMA MemberWriteType ==
    ASSUME member \in [Users -> Member], NEW u \in Users,
           NEW a \in Nat, NEW b \in Nat, NEW c \in Nat
    PROVE  [member EXCEPT ![u].read = a, ![u].delivered = b, ![u].unread = c]
             \in [Users -> Member]
<1>1. member[u] \in Member
  OBVIOUS
<1>2. [member[u] EXCEPT !.read = a, !.delivered = b, !.unread = c] \in Member
  BY <1>1 DEF Member
<1>3. [member EXCEPT ![u].read = a, ![u].delivered = b, ![u].unread = c]
        = [member EXCEPT ![u] = [member[u] EXCEPT !.read = a, !.delivered = b, !.unread = c]]
  OBVIOUS
<1> QED
  BY <1>2, <1>3

\* So do the steps of mark_read and mark_delivered.
LEMMA MarkType ==
    ASSUME TypeOK, IsFiniteSet(messages), NEW r \in Requests,
           \/ ReadCommit(r) \/ ReadCount(r) \/ RecountCommit(r)
           \/ AckCommit(r) \/ AckNothingNew(r) \/ PublishReceipt(r)
    PROVE  TypeOK'
<1> DEFINE u   == req[r].user
           s   == req[r].seq
           old == req[r].loaded
<1>0. /\ req \in [Requests -> Request]
      /\ member \in [Users -> Member]
      /\ req[r] \in Request
  BY DEF TypeOK
<1>1. CASE ReadCommit(r)
  <2> DEFINE read  == Newer(s, old.read)
             deliv == Newer(s, old.delivered)
             count == CountUnread(u, read)
  <2>1. u \in Users /\ s \in Nat /\ old \in Member
    BY <1>0, <1>1, RequestFields DEF ReadCommit
  <2>2. read \in Nat /\ deliv \in Nat /\ count \in Nat
    BY <2>1, NewerBounds, CountUnreadType DEF Member
  <2>3. member[u] \in Member
    BY <1>0, <2>1
  <2>4. [step |-> "receipt", user |-> u, read |-> read, delivered |-> deliv] \in Request
    BY <2>1, <2>2 DEF Request
  <2>5. /\ member' = [member EXCEPT
              ![u].read      = IF s > old.read THEN s ELSE @,
              ![u].delivered = IF s > old.delivered THEN s ELSE @,
              ![u].unread    = IF count # old.unread THEN count ELSE @]
        /\ req' = [req EXCEPT ![r] =
              [step |-> "receipt", user |-> u, read |-> read, delivered |-> deliv]]
        /\ UNCHANGED <<tables, outcome, reported>>
    BY <1>1 DEF ReadCommit, To
  <2> HIDE DEF u, s, old, read, deliv, count
  <2>6. member' = [member EXCEPT
              ![u].read      = IF s > old.read THEN s ELSE member[u].read,
              ![u].delivered = IF s > old.delivered THEN s ELSE member[u].delivered,
              ![u].unread    = IF count # old.unread THEN count ELSE member[u].unread]
    BY <1>0, <2>1, <2>5
  <2>7. member' \in [Users -> Member]
    BY <1>0, <2>1, <2>2, <2>3, <2>6, MemberWriteType DEF Member
  <2> QED
    BY <2>4, <2>5, <2>7 DEF TypeOK, tables, outcome
<1>2. CASE ReadCount(r)
  <2>1. u \in Users /\ old \in Member
    BY <1>0, <1>2, RequestFields DEF ReadCount
  <2>2. [step |-> "recount", user |-> u, loaded |-> old,
         count |-> CountUnread(u, old.read)] \in Request
    BY <2>1, CountUnreadType DEF Request
  <2> QED
    BY <1>2, <2>2 DEF TypeOK, ReadCount, To, tables, outcome
<1>3. CASE RecountCommit(r)
  <2>1. u \in Users /\ old \in Member /\ req[r].count \in Nat
    BY <1>0, <1>3, RequestFields DEF RecountCommit
  <2>2. [step |-> "receipt", user |-> u, read |-> old.read,
         delivered |-> old.delivered] \in Request
    BY <2>1 DEF Request, Member
  <2>3. member[u] \in Member
    BY <1>0, <2>1
  <2>4. member' \in [Users -> Member]
    BY <1>0, <1>3, <2>1, <2>3 DEF RecountCommit, Member
  <2> QED
    BY <1>3, <2>2, <2>4 DEF TypeOK, RecountCommit, To, tables, outcome
<1>4. CASE AckCommit(r)
  <2>1. u \in Users /\ old \in Member /\ s \in Nat
    BY <1>0, <1>4, RequestFields DEF AckCommit
  <2>2. [step |-> "receipt", user |-> u, read |-> old.read, delivered |-> s] \in Request
    BY <2>1 DEF Request, Member
  <2>3. member[u] \in Member
    BY <1>0, <2>1
  <2>4. member' \in [Users -> Member]
    BY <1>0, <1>4, <2>1, <2>3 DEF AckCommit, Member
  <2> QED
    BY <1>4, <2>2, <2>4 DEF TypeOK, AckCommit, To, tables, outcome
<1>5. CASE AckNothingNew(r)
  <2>1. Idle \in Request
    BY DEF Idle, Request
  <2> QED
    BY <1>5, <2>1 DEF TypeOK, AckNothingNew, To, tables, outcome
<1>6. CASE PublishReceipt(r)
  <2>1. Idle \in Request
    BY DEF Idle, Request
  <2>2. u \in Users /\ req[r].read \in Nat /\ req[r].delivered \in Nat
    BY <1>0, <1>6, RequestFields DEF PublishReceipt
  <2>3. receipt' \in [Users -> [read : Nat, delivered : Nat]]
    BY <1>6, <2>2 DEF PublishReceipt, TypeOK
  <2> QED
    BY <1>6, <2>1, <2>3 DEF TypeOK, PublishReceipt, To, tables
<1> QED
  BY <1>1, <1>2, <1>3, <1>4, <1>5, <1>6

\* So do the other steps of a request.
LEMMA OtherType ==
    ASSUME TypeOK, NEW r \in Requests,
           \/ SendDuplicate(r) \/ SendFresh(r) \/ SendConflict(r) \/ PublishCreated(r)
           \/ DeleteCommit(r) \/ PublishDeleted(r) \/ Fail(r)
    PROVE  TypeOK'
<1>1. Idle \in Request
  BY DEF Idle, Request
<1>2. req[r] \in Request
  BY DEF TypeOK
<1>3. CASE SendDuplicate(r)
  BY <1>1, <1>2, <1>3, RequestFields DEF SendDuplicate, TypeOK, To, tables
<1>4. CASE SendFresh(r)
  <2>1. [req[r] EXCEPT !.step = "insert"] \in Request
    BY <1>2, <1>4 DEF SendFresh, Request
  <2> QED
    BY <1>4, <2>1 DEF SendFresh, TypeOK, To, tables, outcome
<1>5. CASE SendConflict(r)
  BY <1>1, <1>2, <1>5, RequestFields DEF SendConflict, TypeOK, To, tables
<1>6. CASE PublishCreated(r)
  <2>1. req[r].row \in Row
    BY <1>2, <1>6, RequestFields DEF PublishCreated
  <2>2. published' \subseteq {"created", "deleted"} \X Row
    BY <1>6, <2>1 DEF PublishCreated, Event, TypeOK
  <2> QED
    BY <1>1, <1>6, <2>1, <2>2 DEF PublishCreated, TypeOK, To, tables, Row
<1>7. CASE DeleteCommit(r)
  <2>1. req[r].row \in Row /\ [req[r] EXCEPT !.step = "retracted"] \in Request
    BY <1>2, <1>7 DEF DeleteCommit, Request
  <2> QED
    BY <1>7, <2>1 DEF DeleteCommit, TypeOK, To, outcome
<1>8. CASE PublishDeleted(r)
  <2>1. req[r].row \in Row
    BY <1>2, <1>8, RequestFields DEF PublishDeleted
  <2>2. published' \subseteq {"created", "deleted"} \X Row
    BY <1>8, <2>1 DEF PublishDeleted, Event, TypeOK
  <2> QED
    BY <1>1, <1>8, <2>2 DEF PublishDeleted, TypeOK, To, tables
<1>9. CASE Fail(r)
  BY <1>1, <1>9 DEF Fail, TypeOK, To, tables, outcome
<1> QED
  BY <1>3, <1>4, <1>5, <1>6, <1>7, <1>8, <1>9

\* So do members who leave or return, and restarts.
LEMMA SurroundingsType ==
    ASSUME TypeOK, \/ \E u \in Leavers : MemberLeaves(u) \/ MemberReturns(u)
                   \/ Restart
    PROVE  TypeOK'
<1>1. ASSUME NEW u \in Leavers, MemberLeaves(u) \/ MemberReturns(u)
      PROVE  TypeOK'
  <2>1. u \in Users
    BY ServiceAssumption
  <2>2. member[u] \in Member
    BY <2>1 DEF TypeOK
  <2>3. PICK b \in BOOLEAN : member' = [member EXCEPT ![u].active = b]
    BY <1>1 DEF MemberLeaves, MemberReturns
  <2>4. [member[u] EXCEPT !.active = b] \in Member
    BY <2>2 DEF Member
  <2>5. member' \in [Users -> Member]
    BY <2>1, <2>3, <2>4 DEF TypeOK
  <2> QED
    BY <1>1, <2>5 DEF MemberLeaves, MemberReturns, TypeOK, tables, outcome
<1>2. ASSUME Restart PROVE TypeOK'
  <2>1. Idle \in Request
    BY DEF Idle, Request
  <2> QED
    BY <1>2, <2>1 DEF Restart, TypeOK, tables, outcome
<1> QED
  BY <1>1, <1>2

\* Messages are only ever added, one by one.
LEMMA MessagesFinite ==
    ASSUME IsFiniteSet(messages), [Next]_vars
    PROVE  IsFiniteSet(messages')
<1>1. \/ messages' = messages
      \/ \E row : messages' = messages \cup {row}
  <2>1. ASSUME NEW r \in Requests, SendCommit(r) PROVE \E row : messages' = messages \cup {row}
    BY <2>1 DEF SendCommit
  <2> QED
    BY <2>1 DEF Next, Step, Arrive, Handle, SendBegin, SendDuplicate, SendFresh,
         SendConflict, PublishCreated, ReadBegin, ReadCommit, ReadCount,
         RecountCommit, AckBegin, AckCommit, AckNothingNew, PublishReceipt,
         DeleteBegin, DeleteCommit, PublishDeleted, Fail, MemberLeaves,
         MemberReturns, Restart, tables, vars
<1> QED
  BY <1>1, FS_AddElement

\* So does every step.
LEMMA NextType ==
    ASSUME TypeOK, IsFiniteSet(messages), [Next]_vars
    PROVE  TypeOK'
<1>1. ASSUME NEW r \in Requests, Handle(r) PROVE TypeOK'
  BY <1>1, SendCommitType, MarkType, OtherType DEF Handle
<1>2. ASSUME UNCHANGED vars PROVE TypeOK'
  BY <1>2 DEF vars, TypeOK
<1> QED
  BY <1>1, <1>2, ArriveType, SurroundingsType DEF Next, Step

\* Every variable of the service always has its type.
THEOREM TypeCorrect == Spec => []TypeOK
<1> DEFINE Typed == TypeOK /\ IsFiniteSet(messages)
<1>1. Init => Typed
  BY InitType
<1>2. Typed /\ [Next]_vars => Typed'
  BY NextType, MessagesFinite
<1>3. Typed => TypeOK
  OBVIOUS
<1> QED
  BY <1>1, <1>2, <1>3, PTL DEF Spec

-------------------------------------------------------------------------------
(* Which actions change which part of the state *)

\* The steps that change messages, conversation and deletions.
LEMMA TablesChange ==
    ASSUME [Next]_vars
    PROVE  /\ \/ UNCHANGED <<messages, lastSeq, lastMessage>>
              \/ \E r \in Requests : SendCommit(r)
           /\ \/ deleted' = deleted
              \/ \E r \in Requests : DeleteCommit(r)
<1>1. ASSUME NEW r \in Requests, Arrive(r)
      PROVE  UNCHANGED tables
  BY <1>1 DEF Arrive, SendBegin, ReadBegin, AckBegin, DeleteBegin
<1>2. ASSUME NEW r \in Requests, Handle(r)
      PROVE  \/ UNCHANGED tables
             \/ SendCommit(r) /\ deleted' = deleted
             \/ DeleteCommit(r) /\ UNCHANGED <<messages, lastSeq, lastMessage>>
  BY <1>2 DEF Handle, SendDuplicate, SendFresh, SendConflict, SendCommit, PublishCreated,
       ReadCommit, ReadCount, RecountCommit, AckCommit, AckNothingNew,
       PublishReceipt, DeleteCommit, PublishDeleted, Fail
<1>3. ASSUME NEW u \in Leavers, MemberLeaves(u) \/ MemberReturns(u)
      PROVE  UNCHANGED tables
  BY <1>3 DEF MemberLeaves, MemberReturns
<1>4. CASE Restart
  BY <1>4 DEF Restart, tables
<1>5. CASE UNCHANGED vars
  BY <1>5 DEF vars
<1> QED
  BY <1>1, <1>2, <1>3, <1>4, <1>5 DEF Next, Step, tables

\* The steps that answer, refuse or announce.
LEMMA OutcomeChange ==
    ASSUME [Next]_vars
    PROVE  \/ UNCHANGED <<published, answered>>
           \/ \E r \in Requests : SendDuplicate(r) \/ PublishCreated(r) \/ PublishDeleted(r)
<1>1. ASSUME NEW r \in Requests, Arrive(r)
      PROVE  UNCHANGED outcome
  BY <1>1 DEF Arrive, SendBegin, ReadBegin, AckBegin, DeleteBegin
<1>2. ASSUME NEW r \in Requests, Handle(r)
      PROVE  \/ UNCHANGED <<published, answered>>
             \/ SendDuplicate(r) \/ PublishCreated(r) \/ PublishDeleted(r)
  BY <1>2 DEF Handle, SendFresh, SendConflict, SendCommit,
       ReadCommit, ReadCount, RecountCommit, AckCommit, AckNothingNew,
       PublishReceipt, DeleteCommit, Fail, outcome
<1>3. ASSUME NEW u \in Leavers, MemberLeaves(u) \/ MemberReturns(u)
      PROVE  UNCHANGED outcome
  BY <1>3 DEF MemberLeaves, MemberReturns
<1>4. CASE Restart
  BY <1>4 DEF Restart, outcome
<1>5. CASE UNCHANGED vars
  BY <1>5 DEF vars
<1> QED
  BY <1>1, <1>2, <1>3, <1>4, <1>5 DEF Next, Step, outcome

-------------------------------------------------------------------------------
(* The log: positions, keys, events and answers *)

\* A send takes the next position and repeats neither a position nor a key.
LEMMA SendExtends ==
    ASSUME TypeOK, SeqGapless, OneRowPerKey, NEW r \in Requests, SendCommit(r)
    PROVE  SeqGapless' /\ OneRowPerKey'
<1> DEFINE row == [seq |-> lastSeq + 1, sender |-> req[r].user, key |-> req[r].key]
<1>1. /\ messages' = messages \cup {row}
      /\ lastSeq' = lastSeq + 1
      /\ lastMessage' = row
      /\ ~ Stored(req[r].user, req[r].key)
  BY DEF SendCommit, KeyIsFree
<1>2. /\ row.seq = lastSeq + 1
      /\ row.sender = req[r].user
      /\ row.key = req[r].key
  OBVIOUS
<1>3. lastSeq \in Nat /\ \A m \in messages : m.seq \in 1..lastSeq
  BY DEF TypeOK, SeqGapless
<1> HIDE DEF row
<1>4. OneRowPerKey'
  BY <1>1, <1>2 DEF OneRowPerKey, Stored
<1>5. {m.seq : m \in messages'} = {m.seq : m \in messages} \cup {lastSeq + 1}
  BY <1>1, <1>2
<1>6. {m.seq : m \in messages'} = 1..lastSeq'
  BY <1>1, <1>3, <1>5 DEF SeqGapless
<1>7. \A m, n \in messages' : m.seq = n.seq => m = n
  BY <1>1, <1>2, <1>3 DEF SeqGapless
<1>8. lastSeq' # 0 /\ lastMessage' \in messages' /\ lastMessage'.seq = lastSeq'
  BY <1>1, <1>2, <1>3
<1> QED
  BY <1>4, <1>6, <1>7, <1>8 DEF SeqGapless

\* Every step keeps the log whole.
LEMMA LogNext ==
    ASSUME TypeOK, SeqGapless, OneRowPerKey, [Next]_vars
    PROVE  SeqGapless' /\ OneRowPerKey'
<1>1. CASE UNCHANGED <<messages, lastSeq, lastMessage>>
  BY <1>1 DEF SeqGapless, OneRowPerKey
<1> QED
  BY <1>1, TablesChange, SendExtends

\* Rows and tombstones are never taken away.
LEMMA RowsStay ==
    ASSUME [Next]_vars
    PROVE  messages \subseteq messages' /\ deleted \subseteq deleted'
<1>1. ASSUME NEW r \in Requests, SendCommit(r) PROVE messages \subseteq messages'
  BY <1>1 DEF SendCommit
<1>2. ASSUME NEW r \in Requests, DeleteCommit(r) PROVE deleted \subseteq deleted'
  BY <1>2 DEF DeleteCommit
<1> QED
  BY <1>1, <1>2, TablesChange

\* Every step announces and confirms only what is stored.
LEMMA EventsNext ==
    ASSUME TypeOK, PendingRows, NoPhantomEvent, AnsweredIsStored, [Next]_vars
    PROVE  NoPhantomEvent' /\ AnsweredIsStored'
<1>1. messages \subseteq messages' /\ deleted \subseteq deleted'
  BY RowsStay
<1>2. CASE UNCHANGED <<published, answered>>
  BY <1>1, <1>2 DEF NoPhantomEvent, AnsweredIsStored, Stored
<1>3. ASSUME NEW r \in Requests, SendDuplicate(r)
      PROVE  NoPhantomEvent' /\ AnsweredIsStored'
  BY <1>1, <1>3 DEF SendDuplicate, NoPhantomEvent, AnsweredIsStored, Stored
<1>4. ASSUME NEW r \in Requests, PublishCreated(r)
      PROVE  NoPhantomEvent' /\ AnsweredIsStored'
  <2>1. req[r].row \in messages
    BY <1>4 DEF PublishCreated, PendingRows
  <2> QED
    BY <1>1, <1>4, <2>1 DEF PublishCreated, Event, NoPhantomEvent, AnsweredIsStored, Stored
<1>5. ASSUME NEW r \in Requests, PublishDeleted(r)
      PROVE  NoPhantomEvent' /\ AnsweredIsStored'
  <2>1. req[r].row \in deleted
    BY <1>5 DEF PublishDeleted, PendingRows
  <2> QED
    BY <1>1, <1>5, <2>1 DEF PublishDeleted, Event, NoPhantomEvent, AnsweredIsStored, Stored
<1> QED
  BY <1>2, <1>3, <1>4, <1>5, OutcomeChange

-------------------------------------------------------------------------------
(* What the requests in flight remember *)

\* Deleting needs a row that exists, and rows stay.
LEMMA DeletedAreRows ==
    ASSUME PendingRows, [Next]_vars
    PROVE  deleted' \subseteq messages'
<1>1. messages \subseteq messages' /\ deleted \subseteq messages
  BY RowsStay DEF PendingRows
<1>2. ASSUME NEW r \in Requests, DeleteCommit(r) PROVE deleted' \subseteq messages'
  <2>1. req[r].row \in messages
    BY <1>2 DEF DeleteCommit, PendingRows
  <2> QED
    BY <1>1, <1>2, <2>1 DEF DeleteCommit
<1> QED
  BY <1>1, <1>2, TablesChange

\* One request moves on; what the others remember is still there.
LEMMA PendingRowsTo ==
    ASSUME TypeOK, PendingRows, [Next]_vars, NEW r \in Requests, NEW q,
           To(r, q),
           q.step \in {"delete", "created", "retracted"} => q.row \in messages',
           q.step = "retracted" => q.row \in deleted'
    PROVE  PendingRows'
<1>1. messages \subseteq messages' /\ deleted \subseteq deleted' /\ deleted' \subseteq messages'
  BY RowsStay, DeletedAreRows
<1>2. req' = [req EXCEPT ![r] = q] /\ req \in [Requests -> Request]
  BY DEF To, TypeOK
<1>3. ASSUME NEW p \in Requests
      PROVE  /\ req'[p].step \in {"delete", "created", "retracted"} => req'[p].row \in messages'
             /\ req'[p].step = "retracted" => req'[p].row \in deleted'
  <2>1. CASE p = r
    BY <1>2, <2>1
  <2>2. CASE p # r
    BY <1>1, <1>2, <2>2 DEF PendingRows
  <2> QED
    BY <2>1, <2>2
<1> QED
  BY <1>1, <1>3 DEF PendingRows

\* Every step keeps what the requests in flight know of the rows.
LEMMA PendingRowsNext ==
    ASSUME TypeOK, PendingRows, [Next]_vars
    PROVE  PendingRows'
<1>0. /\ messages \subseteq messages'
      /\ deleted \subseteq deleted'
      /\ deleted' \subseteq messages'
  BY RowsStay, DeletedAreRows
<1>1. ASSUME NEW r \in Requests, Arrive(r) PROVE PendingRows'
  <2>1. CASE SendBegin(r)
    BY <2>1, PendingRowsTo DEF SendBegin
  <2>2. CASE ReadBegin(r)
    BY <2>2, PendingRowsTo DEF ReadBegin
  <2>3. CASE AckBegin(r)
    BY <2>3, PendingRowsTo DEF AckBegin
  <2>4. CASE DeleteBegin(r)
    BY <1>0, <2>4, PendingRowsTo DEF DeleteBegin
  <2> QED
    BY <1>1, <2>1, <2>2, <2>3, <2>4 DEF Arrive
<1>2. ASSUME NEW r \in Requests, To(r, Idle) PROVE PendingRows'
  BY <1>2, PendingRowsTo DEF Idle
<1>3. ASSUME NEW r \in Requests, Handle(r) PROVE PendingRows'
  <2>1. CASE SendFresh(r)
    <3>1. [req[r] EXCEPT !.step = "insert"].step = "insert"
      <4>1. req[r] \in Request
        BY DEF TypeOK
      <4> QED
        BY <2>1, <4>1 DEF SendFresh, Request
    <3> QED
      BY <2>1, <3>1, PendingRowsTo DEF SendFresh
  <2>2. CASE SendCommit(r)
    <3> DEFINE row == [seq |-> lastSeq + 1, sender |-> req[r].user, key |-> req[r].key]
    <3>1. row \in messages' /\ To(r, [step |-> "created", row |-> row])
      BY <2>2 DEF SendCommit
    <3> HIDE DEF row
    <3> QED
      BY <3>1, PendingRowsTo
  <2>3. CASE ReadCommit(r)
    BY <2>3, PendingRowsTo DEF ReadCommit
  <2>4. CASE ReadCount(r)
    BY <2>4, PendingRowsTo DEF ReadCount
  <2>5. CASE RecountCommit(r)
    BY <2>5, PendingRowsTo DEF RecountCommit
  <2>6. CASE AckCommit(r)
    BY <2>6, PendingRowsTo DEF AckCommit
  <2>7. CASE DeleteCommit(r)
    <3> DEFINE q == [req[r] EXCEPT !.step = "retracted"]
    <3>1. req[r] \in Request /\ req[r].step = "delete"
      BY <2>7 DEF DeleteCommit, TypeOK
    <3>2. q.step = "retracted" /\ q.row = req[r].row
      BY <3>1 DEF Request
    <3>3. q.row \in deleted' /\ To(r, q)
      BY <2>7, <3>2 DEF DeleteCommit
    <3> HIDE DEF q
    <3> QED
      BY <1>0, <3>2, <3>3, PendingRowsTo
  <2> QED
    BY <1>2, <1>3, <2>1, <2>2, <2>3, <2>4, <2>5, <2>6, <2>7
    DEF Handle, SendDuplicate, SendConflict, PublishCreated, AckNothingNew,
        PublishReceipt, PublishDeleted, Fail
<1>4. ASSUME NEW u \in Leavers, MemberLeaves(u) \/ MemberReturns(u) PROVE PendingRows'
  BY <1>0, <1>4 DEF MemberLeaves, MemberReturns, PendingRows
<1>5. CASE Restart
  BY <1>0, <1>5 DEF Restart, PendingRows, Idle
<1>6. CASE UNCHANGED vars
  BY <1>0, <1>6 DEF vars, PendingRows
<1> QED
  BY <1>1, <1>3, <1>4, <1>5, <1>6 DEF Next, Step

-------------------------------------------------------------------------------
(* Read positions *)

\* What a client has reported is never taken back.
LEMMA ReportedGrows ==
    ASSUME TypeOK, [Next]_vars
    PROVE  \A u \in Users : reported'[u] >= reported[u]
<1>1. ASSUME NEW r \in Requests, Arrive(r), NEW u \in Users
      PROVE  reported'[u] >= reported[u]
  <2>1. CASE ReadBegin(r)
    <3>1. PICK v \in Readers, s \in 1..lastSeq : reported' = [reported EXCEPT ![v] = Newer(@, s)]
      BY <2>1 DEF ReadBegin
    <3> QED
      BY <3>1, NewerBounds DEF TypeOK
  <2> QED
    BY <1>1, <2>1 DEF Arrive, SendBegin, AckBegin, DeleteBegin, TypeOK
<1>2. ASSUME NEW r \in Requests, Handle(r), NEW u \in Users
      PROVE  reported'[u] >= reported[u]
  <2>1. CASE SendCommit(r)
    <3>1. reported' = [reported EXCEPT ![req[r].user] = Newer(@, lastSeq + 1)]
      BY <2>1 DEF SendCommit
    <3>2. lastSeq + 1 \in Nat /\ reported[u] \in Nat /\ reported \in [Users -> Nat]
      BY DEF TypeOK
    <3> QED
      BY <3>1, <3>2, NewerBounds
  <2>2. CASE UNCHANGED reported
    BY <2>2 DEF TypeOK
  <2> QED
    BY <1>2, <2>1, <2>2
    DEF Handle, SendDuplicate, SendFresh, SendConflict, PublishCreated,
        ReadCommit, ReadCount, RecountCommit, AckCommit, AckNothingNew,
        PublishReceipt, DeleteCommit, PublishDeleted, Fail
<1>3. CASE UNCHANGED reported
  BY <1>3 DEF TypeOK
<1> QED
  BY <1>1, <1>2, <1>3 DEF Next, Step, MemberLeaves, MemberReturns, Restart, vars

\* What PendingReads says of one request, against given reports.
ReadsReported(q, rep) ==
    /\ q.step \in {"read", "recount", "ack"} => q.loaded.read <= rep[q.user]
    /\ q.step = "read" => q.seq <= rep[q.user]
    /\ q.step = "receipt" => q.read <= rep[q.user]

\* One request moves on; reports only grow under the others.
LEMMA PendingReadsTo ==
    ASSUME TypeOK, TypeOK', PendingReads, [Next]_vars, NEW r \in Requests, NEW q,
           To(r, q), ReadsReported(q, reported')
    PROVE  PendingReads'
<1>1. \A u \in Users : reported[u] \in Nat /\ reported'[u] \in Nat /\ reported'[u] >= reported[u]
  BY ReportedGrows DEF TypeOK
<1>2. req' = [req EXCEPT ![r] = q] /\ req \in [Requests -> Request]
  BY DEF To, TypeOK
<1>3. ASSUME NEW p \in Requests PROVE ReadsReported(req'[p], reported')
  <2>1. CASE p = r
    BY <1>2, <2>1
  <2>2. CASE p # r
    <3>1. req'[p] = req[p] /\ req[p] \in Request
      BY <1>2, <2>2
    <3>2. ReadsReported(req[p], reported)
      BY DEF PendingReads, ReadsReported
    <3>3. CASE req[p].step \in {"read", "recount", "ack"}
      <4>1. /\ req[p].user \in Users
            /\ req[p].loaded.read \in Nat
            /\ req[p].step = "read" => req[p].seq \in Nat
        BY <3>1, <3>3, RequestFields DEF Member
      <4> QED
        BY <1>1, <3>1, <3>2, <3>3, <4>1 DEF ReadsReported
    <3>4. CASE req[p].step = "receipt"
      <4>1. req[p].user \in Users /\ req[p].read \in Nat
        BY <3>1, <3>4, RequestFields
      <4> QED
        BY <1>1, <3>1, <3>2, <3>4, <4>1 DEF ReadsReported
    <3> QED
      BY <3>1, <3>3, <3>4 DEF ReadsReported
  <2> QED
    BY <2>1, <2>2
<1> QED
  BY <1>3 DEF PendingReads, ReadsReported

\* Every step keeps the marks in flight honest.
LEMMA PendingReadsNext ==
    ASSUME TypeOK, TypeOK', PendingReads, ReadTicksHonest, [Next]_vars
    PROVE  PendingReads'
<1>0. req \in [Requests -> Request] /\ member \in [Users -> Member]
  BY DEF TypeOK
<1>1. ASSUME NEW r \in Requests, NEW q, To(r, q),
             q.step \notin {"read", "recount", "ack", "receipt"}
      PROVE  PendingReads'
  BY <1>1, PendingReadsTo DEF ReadsReported
<1>2. ASSUME NEW r \in Requests, Arrive(r) PROVE PendingReads'
  <2>1. CASE SendBegin(r)
    BY <1>1, <2>1 DEF SendBegin
  <2>2. CASE DeleteBegin(r)
    BY <1>1, <2>2 DEF DeleteBegin
  <2>3. CASE ReadBegin(r)
    <3>1. PICK u \in Users, s \in 1..lastSeq :
             /\ To(r, [step |-> "read", user |-> u, seq |-> s, loaded |-> member[u]])
             /\ reported' = [reported EXCEPT ![u] = Newer(@, s)]
      BY <2>3, ServiceAssumption DEF ReadBegin
    <3>2. /\ s \in Nat
          /\ reported[u] \in Nat
          /\ member[u].read \in Nat
          /\ member[u].read <= reported[u]
      BY <1>0 DEF TypeOK, ReadTicksHonest, Member
    <3>3. reported'[u] = Newer(reported[u], s)
      BY <3>1 DEF TypeOK
    <3>4. reported'[u] \in Nat /\ reported'[u] >= s /\ reported'[u] >= member[u].read
      BY <3>2, <3>3, NewerBounds
    <3> QED
      BY <3>1, <3>2, <3>4, PendingReadsTo DEF ReadsReported
  <2>4. CASE AckBegin(r)
    <3>1. PICK u \in Users, s \in 1..lastSeq :
             To(r, [step |-> "ack", user |-> u, seq |-> s, loaded |-> member[u]])
      BY <2>4, ServiceAssumption DEF AckBegin
    <3>2. reported' = reported /\ member[u].read <= reported[u]
      BY <2>4 DEF AckBegin, ReadTicksHonest
    <3> QED
      BY <3>1, <3>2, PendingReadsTo DEF ReadsReported
  <2> QED
    BY <1>2, <2>1, <2>2, <2>3, <2>4 DEF Arrive
<1>3. ASSUME NEW r \in Requests, Handle(r) PROVE PendingReads'
  <2> DEFINE u   == req[r].user
             s   == req[r].seq
             old == req[r].loaded
  <2>0. req[r] \in Request
    BY <1>0
  <2>1. CASE To(r, Idle)
    BY <1>1, <2>1 DEF Idle
  <2>2. CASE SendFresh(r)
    <3>1. [req[r] EXCEPT !.step = "insert"].step = "insert"
      BY <2>0, <2>2 DEF SendFresh, Request
    <3> QED
      BY <1>1, <2>2, <3>1 DEF SendFresh
  <2>3. CASE SendCommit(r)
    BY <1>1, <2>3 DEF SendCommit
  <2>4. CASE DeleteCommit(r)
    <3>1. [req[r] EXCEPT !.step = "retracted"].step = "retracted"
      BY <2>0, <2>4 DEF DeleteCommit, Request
    <3> QED
      BY <1>1, <2>4, <3>1 DEF DeleteCommit
  <2>5. CASE ReadCommit(r)
    <3>1. /\ s \in Nat
          /\ old.read \in Nat
          /\ old.read <= reported[u]
          /\ s <= reported[u]
          /\ reported' = reported
      BY <2>0, <2>5, RequestFields DEF ReadCommit, PendingReads, Member
    <3>2. Newer(s, old.read) <= reported'[u]
      BY <3>1, NewerBounds
    <3>3. To(r, [step |-> "receipt", user |-> u, read |-> Newer(s, old.read),
                 delivered |-> Newer(s, old.delivered)])
      BY <2>5 DEF ReadCommit
    <3> QED
      BY <3>2, <3>3, PendingReadsTo DEF ReadsReported
  <2>6. CASE ReadCount(r)
    <3>1. old.read <= reported'[u]
      BY <2>6 DEF ReadCount, PendingReads
    <3> QED
      BY <2>6, <3>1, PendingReadsTo DEF ReadCount, ReadsReported
  <2>7. CASE RecountCommit(r)
    <3>1. old.read <= reported'[u]
      BY <2>7 DEF RecountCommit, PendingReads
    <3> QED
      BY <2>7, <3>1, PendingReadsTo DEF RecountCommit, ReadsReported
  <2>8. CASE AckCommit(r)
    <3>1. old.read <= reported'[u]
      BY <2>8 DEF AckCommit, PendingReads
    <3> QED
      BY <2>8, <3>1, PendingReadsTo DEF AckCommit, ReadsReported
  <2> QED
    BY <1>3, <2>1, <2>2, <2>3, <2>4, <2>5, <2>6, <2>7, <2>8
    DEF Handle, SendDuplicate, SendConflict, PublishCreated, AckNothingNew,
        PublishReceipt, PublishDeleted, Fail
<1>4. ASSUME NEW v \in Leavers, MemberLeaves(v) \/ MemberReturns(v) PROVE PendingReads'
  BY <1>4 DEF MemberLeaves, MemberReturns, PendingReads
<1>5. CASE Restart
  BY <1>5 DEF Restart, PendingReads, Idle
<1>6. CASE UNCHANGED vars
  BY <1>6 DEF vars, PendingReads
<1> QED
  BY <1>2, <1>3, <1>4, <1>5, <1>6 DEF Next, Step

\* Every step keeps cursors and receipts honest.
LEMMA ReadTicksNext ==
    ASSUME TypeOK, TypeOK', PendingReads, ReadTicksHonest, [Next]_vars
    PROVE  ReadTicksHonest'
<1>0. /\ req \in [Requests -> Request]
      /\ \A v \in Users :
            /\ reported[v] \in Nat /\ reported'[v] \in Nat
            /\ reported'[v] >= reported[v]
            /\ member[v] \in Member /\ member'[v] \in Member
            /\ member[v].read \in Nat /\ member'[v].read \in Nat
            /\ receipt[v].read \in Nat
            /\ member[v].read <= reported[v]
            /\ receipt[v].read <= reported[v]
  BY ReportedGrows DEF TypeOK, ReadTicksHonest, Member
<1>1. ASSUME UNCHANGED receipt, \A v \in Users : member'[v].read = member[v].read
      PROVE  ReadTicksHonest'
  BY <1>0, <1>1 DEF ReadTicksHonest
<1>2. ASSUME NEW r \in Requests, SendCommit(r) PROVE ReadTicksHonest'
  <2>1. req[r].user \in Users
    BY <1>0, <1>2, RequestFields DEF SendCommit
  <2>2. /\ receipt' = receipt
        /\ member' = MembersAfterSend(req[r].user, lastSeq + 1)
        /\ reported' = [reported EXCEPT ![req[r].user] = Newer(@, lastSeq + 1)]
    BY <1>2 DEF SendCommit, outcome
  <2>3. ASSUME NEW v \in Users PROVE member'[v].read <= reported'[v]
    <3>1. CASE v = req[r].user
      <4>0. member'[v] = [member[v] EXCEPT !.read = lastSeq + 1, !.delivered = lastSeq + 1,
                                           !.unread = 0]
        BY <2>2, <3>1 DEF MembersAfterSend
      <4>1. member'[v].read = lastSeq + 1
        BY <1>0, <4>0 DEF Member
      <4>2. lastSeq + 1 \in Nat /\ reported'[v] = Newer(reported[v], lastSeq + 1)
        BY <2>2, <3>1 DEF TypeOK
      <4>3. reported[v] \in Nat
        BY <1>0
      <4>4. Newer(reported[v], lastSeq + 1) >= lastSeq + 1
        BY <4>2, <4>3, NewerBounds
      <4> QED
        BY <4>1, <4>2, <4>4
    <3>2. CASE v # req[r].user
      <4>1. member'[v].read = member[v].read
        BY <1>0, <2>2, <3>2 DEF MembersAfterSend, Member
      <4> QED
        BY <1>0, <4>1
    <3> QED
      BY <3>1, <3>2
  <2> QED
    BY <1>0, <2>2, <2>3 DEF ReadTicksHonest
<1>3. ASSUME NEW r \in Requests, ReadCommit(r) PROVE ReadTicksHonest'
  <2> DEFINE u == req[r].user
             s == req[r].seq
  <2>1. u \in Users /\ s \in Nat /\ s <= reported[u]
    BY <1>0, <1>3, RequestFields DEF ReadCommit, PendingReads
  <2>2. /\ receipt' = receipt
        /\ \A v \in Users : \/ member'[v].read = member[v].read
                            \/ v = u /\ member'[v].read = s
    BY <1>0, <1>3, <2>1 DEF ReadCommit, outcome, TypeOK, Member
  <2> QED
    BY <1>0, <2>1, <2>2 DEF ReadTicksHonest
<1>4. ASSUME NEW r \in Requests, RecountCommit(r) \/ AckCommit(r)
      PROVE  ReadTicksHonest'
  <2>1. member \in [Users -> Member]
    BY DEF TypeOK
  <2>2. ASSUME RecountCommit(r), NEW v \in Users PROVE member'[v].read = member[v].read
    BY <2>1, <2>2 DEF RecountCommit, Member
  <2>3. ASSUME AckCommit(r), NEW v \in Users PROVE member'[v].read = member[v].read
    BY <2>1, <2>3 DEF AckCommit, Member
  <2>4. \A v \in Users : member'[v].read = member[v].read
    BY <1>4, <2>2, <2>3
  <2> QED
    BY <1>1, <1>4, <2>4 DEF RecountCommit, AckCommit, outcome
<1>5. ASSUME NEW r \in Requests, PublishReceipt(r) PROVE ReadTicksHonest'
  <2>1. /\ req[r].user \in Users
        /\ req[r].read <= reported[req[r].user]
    BY <1>0, <1>5, RequestFields DEF PublishReceipt, PendingReads
  <2>2. /\ member' = member /\ reported' = reported
        /\ \A v \in Users : \/ receipt'[v] = receipt[v]
                            \/ v = req[r].user /\ receipt'[v].read = req[r].read
    BY <1>5 DEF PublishReceipt, TypeOK
  <2> QED
    BY <1>0, <2>1, <2>2 DEF ReadTicksHonest
<1>6. ASSUME NEW v \in Leavers, MemberLeaves(v) \/ MemberReturns(v) PROVE ReadTicksHonest'
  <2>1. \A w \in Users : member'[w].read = member[w].read
    BY <1>0, <1>6 DEF MemberLeaves, MemberReturns, TypeOK, Member
  <2> QED
    BY <1>1, <1>6, <2>1 DEF MemberLeaves, MemberReturns, outcome
<1>7. CASE UNCHANGED <<member, receipt>>
  BY <1>1, <1>7
<1>8. ASSUME NEW r \in Requests, Arrive(r) PROVE ReadTicksHonest'
  BY <1>7, <1>8 DEF Arrive, SendBegin, ReadBegin, AckBegin, DeleteBegin, outcome
<1>9. ASSUME NEW r \in Requests, Handle(r) PROVE ReadTicksHonest'
  BY <1>2, <1>3, <1>4, <1>5, <1>7, <1>9
  DEF Handle, SendDuplicate, SendFresh, SendConflict, PublishCreated, ReadCount,
      AckNothingNew, DeleteCommit, PublishDeleted, Fail, outcome
<1> QED
  BY <1>6, <1>7, <1>8, <1>9 DEF Next, Step, Restart, outcome, vars

-------------------------------------------------------------------------------
(* The invariant *)

\* The invariant holds at the start.
LEMMA InitInvariant == Init => IInv
<1> SUFFICES ASSUME Init PROVE IInv
  OBVIOUS
<1>1. TypeOK /\ IsFiniteSet(messages)
  BY InitType
<1>2. SeqGapless /\ OneRowPerKey
  BY DEF Init, SeqGapless, OneRowPerKey
<1>3. NoPhantomEvent /\ AnsweredIsStored
  BY DEF Init, NoPhantomEvent, AnsweredIsStored
<1>4. ReadTicksHonest
  <2>1. PICK absent \in SUBSET Leavers :
           member = [u \in Users |-> [read |-> 0, delivered |-> 0, unread |-> 0,
                                      active |-> u \notin absent]]
    BY DEF Init
  <2> QED
    BY <2>1 DEF Init, ReadTicksHonest
<1>5. PendingRows /\ PendingReads
  BY DEF Init, PendingRows, PendingReads, Idle
<1> QED
  BY <1>1, <1>2, <1>3, <1>4, <1>5 DEF IInv

\* Every step keeps the invariant.
LEMMA NextInvariant == IInv /\ [Next]_vars => IInv'
<1> SUFFICES ASSUME IInv, [Next]_vars PROVE IInv'
  OBVIOUS
<1>1. TypeOK'
  BY NextType DEF IInv
<1>2. IsFiniteSet(messages)'
  BY MessagesFinite DEF IInv
<1>3. SeqGapless' /\ OneRowPerKey'
  BY LogNext DEF IInv
<1>4. NoPhantomEvent' /\ AnsweredIsStored'
  BY EventsNext DEF IInv
<1>5. PendingRows'
  BY PendingRowsNext DEF IInv
<1>6. PendingReads' /\ ReadTicksHonest'
  BY <1>1, PendingReadsNext, ReadTicksNext DEF IInv
<1> QED
  BY <1>1, <1>2, <1>3, <1>4, <1>5, <1>6 DEF IInv

\* The invariant holds for any number of users, keys and overlapping requests.
THEOREM Invariant == Spec => []IInv
  BY InitInvariant, NextInvariant, PTL DEF Spec

\* Positions stay whole under any overlap of sends, retries, failures and restarts.
THEOREM LogIsWhole == Spec => []SeqGapless
<1>1. IInv => SeqGapless
  BY DEF IInv
<1> QED
  BY <1>1, Invariant, PTL

\* A client_message_id has one row, however a send and its retries overlap.
THEOREM KeysAreSingle == Spec => []OneRowPerKey
<1>1. IInv => OneRowPerKey
  BY DEF IInv
<1> QED
  BY <1>1, Invariant, PTL

\* What members are told is in the database.
THEOREM NothingInvented == Spec => []NoPhantomEvent
<1>1. IInv => NoPhantomEvent
  BY DEF IInv
<1> QED
  BY <1>1, Invariant, PTL

\* What senders are answered is in the database.
THEOREM AnswersAreKept == Spec => []AnsweredIsStored
<1>1. IInv => AnsweredIsStored
  BY DEF IInv
<1> QED
  BY <1>1, Invariant, PTL

\* Lost updates and stale receipts may make a read tick late, never premature.
THEOREM ReadTicksAreHonest == Spec => []ReadTicksHonest
<1>1. IInv => ReadTicksHonest
  BY DEF IInv
<1> QED
  BY <1>1, Invariant, PTL

-------------------------------------------------------------------------------
(* Refinement of MessageLog *)

\* The entry at the position of a row is that row's sender and key.
LEMMA EntryAtRow ==
    ASSUME SeqGapless, NEW m \in messages
    PROVE  EntryAt(m.seq) = <<m.sender, m.key>>
<1>1. \A n \in messages : n.seq = m.seq => n = m
  BY DEF SeqGapless
<1>2. (CHOOSE n \in messages : n.seq = m.seq) = m
  BY <1>1
<1> QED
  BY <1>2 DEF EntryAt

logOf == [i \in 1..lastSeq |-> EntryAt(i)]

\* The positions of the log are those of the rows.
LEMMA LogPositions ==
    ASSUME TypeOK, SeqGapless
    PROVE  /\ Len(logOf) = lastSeq
           /\ \A m \in messages : m.seq \in 1..Len(logOf) /\ logOf[m.seq] = <<m.sender, m.key>>
           /\ \A i \in 1..lastSeq : \E m \in messages : m.seq = i
<1>1. lastSeq \in Nat /\ DOMAIN logOf = 1..lastSeq
  BY DEF TypeOK, logOf
<1>2. Len(logOf) = lastSeq
  BY <1>1 DEF logOf
<1>3. \A m \in messages : m.seq \in 1..lastSeq
  BY DEF SeqGapless
<1>4. \A i \in 1..lastSeq : \E m \in messages : m.seq = i
  BY DEF SeqGapless
<1> QED
  BY <1>2, <1>3, <1>4, EntryAtRow DEF logOf

\* The log is a sequence of senders and keys.
LEMMA LogType ==
    ASSUME TypeOK, SeqGapless
    PROVE  logOf \in Seq(Users \X Keys)
<1>1. \A i \in 1..lastSeq : EntryAt(i) \in Users \X Keys
  <2> TAKE i \in 1..lastSeq
  <2>1. PICK m \in messages : m.seq = i
    BY LogPositions
  <2>2. m.sender \in Users /\ m.key \in Keys
    BY DEF TypeOK, Row
  <2> QED
    BY <2>1, <2>2, EntryAtRow
<1> QED
  BY <1>1 DEF logOf, TypeOK

goneOf == {m.seq : m \in deleted}
toldOf == {<<e[1], e[2].seq>> : e \in published}

\* While the tables stay, so does the log; other messages do not move entries.
LEMMA LogSame ==
    ASSUME UNCHANGED <<messages, lastSeq>>
    PROVE  logOf' = logOf
  BY DEF logOf, EntryAt

\* The commit of a send appends to the log.
LEMMA SendRefines ==
    ASSUME IInv, IInv', NEW r \in Requests, SendCommit(r)
    PROVE  \E e \in Log!Entry : Log!Write(e)
<1> DEFINE row == [seq |-> lastSeq + 1, sender |-> req[r].user, key |-> req[r].key]
           e   == <<req[r].user, req[r].key>>
<1>1. /\ TypeOK /\ SeqGapless /\ TypeOK' /\ SeqGapless'
      /\ lastSeq \in Nat
      /\ req[r] \in Request
  BY DEF IInv, TypeOK
<1>2. /\ messages' = messages \cup {row}
      /\ lastSeq' = lastSeq + 1
      /\ ~ Stored(req[r].user, req[r].key)
      /\ UNCHANGED <<deleted, published, answered>>
  BY DEF SendCommit, KeyIsFree, outcome
<1>3. row.seq = lastSeq + 1 /\ row.sender = req[r].user /\ row.key = req[r].key
  OBVIOUS
<1>4. e \in Users \X Keys
  BY <1>1, RequestFields DEF SendCommit
<1> HIDE DEF row
<1>5. \A i \in 1..lastSeq : EntryAt(i)' = EntryAt(i)
  <2> TAKE i \in 1..lastSeq
  <2>1. PICK m \in messages : m.seq = i
    BY <1>1, LogPositions
  <2>2. m \in messages' /\ m.seq = i
    BY <1>2, <2>1
  <2>3. EntryAt(i)' = <<m.sender, m.key>>
    <3>1. \A n \in messages' : n.seq = i => n = m
      BY <1>1, <2>2 DEF SeqGapless
    <3>2. (CHOOSE n \in messages' : n.seq = i) = m
      BY <2>2, <3>1
    <3> QED
      BY <3>2 DEF EntryAt
  <2>4. EntryAt(i) = <<m.sender, m.key>>
    BY <1>1, <2>1, EntryAtRow
  <2> QED
    BY <2>3, <2>4
<1>6. ASSUME NEW i, i = lastSeq + 1 PROVE EntryAt(i)' = e
  <2>1. row \in messages' /\ row.seq = i
    BY <1>2, <1>3, <1>6
  <2>2. \A n \in messages' : n.seq = i => n = row
    BY <1>1, <2>1 DEF SeqGapless
  <2>3. (CHOOSE n \in messages' : n.seq = i) = row
    BY <2>1, <2>2
  <2> QED
    BY <1>3, <2>3 DEF EntryAt
<1> HIDE DEF e
<1>7. /\ logOf \in Seq(Users \X Keys)
      /\ logOf' \in Seq(Users \X Keys)
      /\ Len(logOf) = lastSeq
      /\ Len(logOf') = lastSeq + 1
  <2>1. logOf \in Seq(Users \X Keys) /\ Len(logOf) = lastSeq
    BY <1>1, LogType, LogPositions
  <2>2. logOf' = [i \in 1..(lastSeq + 1) |-> EntryAt(i)']
    BY <1>2 DEF logOf
  <2>3. \A i \in 1..(lastSeq + 1) : EntryAt(i)' \in Users \X Keys
    <3> TAKE i \in 1..(lastSeq + 1)
    <3>1. CASE i \in 1..lastSeq
      <4>1. logOf[i] \in Users \X Keys
        BY <2>1, <3>1
      <4> QED
        BY <1>5, <3>1, <4>1 DEF logOf
    <3>2. CASE i = lastSeq + 1
      BY <1>4, <1>6, <3>2
    <3> QED
      BY <1>1, <3>1, <3>2
  <2>4. logOf' \in Seq(Users \X Keys)
    BY <1>1, <2>2, <2>3
  <2>5. Len(logOf') = lastSeq + 1
    BY <1>1, <2>2, <2>4
  <2> QED
    BY <2>1, <2>4, <2>5
<1>8. logOf' = Append(logOf, e)
  <2>1. /\ Append(logOf, e) \in Seq(Users \X Keys)
        /\ Len(Append(logOf, e)) = lastSeq + 1
        /\ \A i \in 1..lastSeq : Append(logOf, e)[i] = logOf[i]
        /\ Append(logOf, e)[lastSeq + 1] = e
    BY <1>4, <1>7, AppendProperties
  <2>2. \A i \in 1..(lastSeq + 1) : logOf'[i] = Append(logOf, e)[i]
    <3> TAKE i \in 1..(lastSeq + 1)
    <3>1. logOf'[i] = EntryAt(i)'
      BY <1>2 DEF logOf
    <3>2. CASE i \in 1..lastSeq
      <4>1. logOf[i] = EntryAt(i)
        BY <3>2 DEF logOf
      <4> QED
        BY <1>5, <2>1, <3>1, <3>2, <4>1
    <3>3. CASE i = lastSeq + 1
      BY <1>6, <2>1, <3>1, <3>3
    <3>4. i \in 1..lastSeq \/ i = lastSeq + 1
      BY <1>1
    <3> QED
      BY <3>2, <3>3, <3>4
  <2> QED
    BY <1>7, <2>1, <2>2, SeqEqual
<1>9. \A i \in 1..Len(logOf) : logOf[i] # e
  <2> TAKE i \in 1..Len(logOf)
  <2>1. PICK m \in messages : m.seq = i
    BY <1>1, LogPositions
  <2>2. logOf[i] = <<m.sender, m.key>>
    BY <1>1, <2>1, LogPositions
  <2> QED
    BY <1>2, <2>1, <2>2 DEF Stored, e
<1>10. UNCHANGED <<goneOf, answered, toldOf>>
  BY <1>2 DEF goneOf, toldOf
<1> QED
  BY <1>4, <1>8, <1>9, <1>10 DEF Log!Entry, Log!Write, logOf, goneOf, toldOf

\* The answer to a send, with or without an event: Confirm at its position.
LEMMA ConfirmRefines ==
    ASSUME IInv, NEW m \in messages,
           UNCHANGED <<messages, lastSeq, deleted>>,
           answered' = answered \cup {<<m.sender, m.key>>},
           \/ published' = published
           \/ published' = published \cup {<<"created", m>>}
    PROVE  \E i \in 1..Len(logOf) : Log!Confirm(i)
<1>1. TypeOK /\ SeqGapless
  BY DEF IInv
<1>2. m.seq \in 1..Len(logOf) /\ logOf[m.seq] = <<m.sender, m.key>>
  BY <1>1, LogPositions
<1>3. toldOf' \in {toldOf, toldOf \cup {<<"created", m.seq>>}}
  <2>1. CASE published' = published
    BY <2>1 DEF toldOf
  <2>2. CASE published' = published \cup {<<"created", m>>}
    <3> DEFINE e == <<"created", m>>
    <3>1. toldOf' = toldOf \cup {<<e[1], e[2].seq>>}
      BY <2>2 DEF toldOf
    <3>2. e[1] = "created" /\ e[2] = m
      OBVIOUS
    <3> QED
      BY <3>1, <3>2
  <2> QED
    BY <2>1, <2>2
<1>4. logOf' = logOf /\ goneOf' = goneOf
  BY LogSame DEF goneOf
<1>5. answered' = answered \cup {logOf[m.seq]}
  BY <1>2
<1>6. Log!Confirm(m.seq)
  BY <1>3, <1>4, <1>5 DEF Log!Confirm, logOf, goneOf, toldOf
<1> QED
  BY <1>2, <1>6

\* The commit of a deletion deletes in the log.
LEMMA DeleteRefines ==
    ASSUME IInv, NEW r \in Requests, DeleteCommit(r)
    PROVE  \E i \in 1..Len(logOf) : Log!Retract(i)
<1>1. TypeOK /\ SeqGapless /\ req[r].row \in messages
  BY DEF IInv, PendingRows, DeleteCommit
<1>2. PICK i \in 1..Len(logOf) : i = req[r].row.seq
  BY <1>1, LogPositions
<1>3. logOf' = logOf /\ UNCHANGED <<published, answered>>
  BY LogSame DEF DeleteCommit, outcome
<1>4. goneOf' = goneOf \cup {req[r].row.seq}
  BY DEF DeleteCommit, goneOf
<1>5. toldOf' = toldOf
  BY <1>3 DEF toldOf
<1>6. Log!Retract(i)
  BY <1>2, <1>3, <1>4, <1>5 DEF Log!Retract, logOf, goneOf, toldOf
<1> QED
  BY <1>6

\* The announcement of a deletion is one of the log.
LEMMA TellGoneRefines ==
    ASSUME IInv, NEW r \in Requests, PublishDeleted(r)
    PROVE  (\E i \in 1..Len(logOf) : Log!TellGone(i)) \/ UNCHANGED Log!logVars
<1> DEFINE m == req[r].row
<1>1. TypeOK /\ SeqGapless /\ m \in messages /\ m \in deleted
  BY DEF IInv, PendingRows, PublishDeleted
<1>2. PICK i \in 1..Len(logOf) : i = m.seq /\ i \in goneOf
  BY <1>1, LogPositions DEF goneOf
<1>3. logOf' = logOf /\ goneOf' = goneOf /\ answered' = answered
  BY LogSame DEF PublishDeleted, tables, goneOf
<1>4. CASE published' = published
  <2>1. toldOf' = toldOf
    BY <1>4 DEF toldOf
  <2> QED
    BY <1>3, <2>1 DEF Log!logVars, logOf, goneOf, toldOf
<1>5. CASE published' = published \cup {<<"deleted", m>>}
  <2> DEFINE e == <<"deleted", m>>
  <2>1. toldOf' = toldOf \cup {<<e[1], e[2].seq>>}
    BY <1>5 DEF toldOf
  <2>2. e[1] = "deleted" /\ e[2] = m
    OBVIOUS
  <2>3. toldOf' = toldOf \cup {<<"deleted", m.seq>>}
    BY <2>1, <2>2
  <2>4. Log!TellGone(i)
    BY <1>2, <1>3, <2>3 DEF Log!TellGone, logOf, goneOf, toldOf
  <2> QED
    BY <2>4
<1> QED
  BY <1>4, <1>5 DEF PublishDeleted, Event

\* The initial tables are the empty log.
LEMMA InitRefines == Init => Log!Init
<1> SUFFICES ASSUME Init PROVE Log!Init
  OBVIOUS
<1>1. messages = {} /\ deleted = {} /\ lastSeq = 0 /\ published = {} /\ answered = {}
  BY DEF Init
<1>2. logOf = << >>
  BY <1>1 DEF logOf
<1>3. goneOf = {} /\ toldOf = {}
  BY <1>1 DEF goneOf, toldOf
<1> QED
  BY <1>1, <1>2, <1>3 DEF Log!Init, logOf, goneOf, toldOf

\* Every step is a step of the log or leaves it alone.
LEMMA NextRefines ==
    ASSUME IInv, IInv', [Next]_vars
    PROVE  [Log!Next]_(Log!logVars)
<1>1. ASSUME NEW r \in Requests, SendCommit(r) PROVE Log!Next
  BY <1>1, SendRefines DEF Log!Next
<1>2. ASSUME NEW r \in Requests, DeleteCommit(r) PROVE Log!Next
  BY <1>2, DeleteRefines DEF Log!Next, logOf
<1>3. ASSUME NEW r \in Requests, PublishDeleted(r) PROVE [Log!Next]_(Log!logVars)
  BY <1>3, TellGoneRefines DEF Log!Next, logOf
<1>4. ASSUME NEW r \in Requests, SendDuplicate(r) PROVE Log!Next
  <2>1. PICK m \in messages : m.sender = req[r].user /\ m.key = req[r].key
    BY <1>4 DEF SendDuplicate, Stored
  <2>2. \E i \in 1..Len(logOf) : Log!Confirm(i)
    BY <1>4, <2>1, ConfirmRefines DEF SendDuplicate, tables
  <2> QED
    BY <2>2 DEF Log!Next, logOf
<1>5. ASSUME NEW r \in Requests, PublishCreated(r) PROVE Log!Next
  <2>1. req[r].row \in messages
    BY <1>5 DEF IInv, PendingRows, PublishCreated
  <2>2. \E i \in 1..Len(logOf) : Log!Confirm(i)
    BY <1>5, <2>1, ConfirmRefines DEF PublishCreated, Event, tables
  <2> QED
    BY <2>2 DEF Log!Next, logOf
<1>6. CASE UNCHANGED <<messages, lastSeq, deleted, published, answered>>
  <2>1. logOf' = logOf /\ goneOf' = goneOf /\ toldOf' = toldOf /\ answered' = answered
    BY <1>6, LogSame DEF goneOf, toldOf
  <2> QED
    BY <2>1 DEF Log!logVars, logOf, goneOf, toldOf
<1> QED
  BY <1>1, <1>2, <1>3, <1>4, <1>5, <1>6, TablesChange, OutcomeChange

\* The tables and the bus, under every overlap and restart, are the log that
\* MessageLog promises.
THEOREM Refinement == Spec => ImplementsLog
<1>1. Init => Log!Init
  BY InitRefines
<1>2. IInv /\ IInv' /\ [Next]_vars => [Log!Next]_(Log!logVars)
  BY NextRefines
<1> QED
  BY <1>1, <1>2, Invariant, PTL DEF Spec, ImplementsLog, Log!Spec

-------------------------------------------------------------------------------
(* Cursors and badges *)

\* No cursor and no mark in flight is beyond the newest message.
InRange ==
    /\ \A u \in Users : member[u].read <= lastSeq /\ member[u].delivered <= lastSeq
    /\ \A r \in Requests : req[r].step \in {"read", "ack"} => req[r].seq <= lastSeq

\* The steps that write a membership row.
LEMMA MemberChange ==
    ASSUME [Next]_vars
    PROVE  \/ member' = member
           \/ \E r \in Requests :
                 SendCommit(r) \/ ReadCommit(r) \/ RecountCommit(r) \/ AckCommit(r)
           \/ \E u \in Leavers : MemberLeaves(u) \/ MemberReturns(u)
<1>1. ASSUME NEW r \in Requests, Arrive(r) PROVE member' = member
  BY <1>1 DEF Arrive, SendBegin, ReadBegin, AckBegin, DeleteBegin
<1>2. ASSUME NEW r \in Requests, Handle(r)
      PROVE  \/ member' = member
             \/ SendCommit(r) \/ ReadCommit(r) \/ RecountCommit(r) \/ AckCommit(r)
  BY <1>2 DEF Handle, SendDuplicate, SendFresh, SendConflict, PublishCreated, ReadCount,
       AckNothingNew, PublishReceipt, DeleteCommit, PublishDeleted, Fail
<1> QED
  BY <1>1, <1>2 DEF Next, Step, Restart, vars

\* The columns a send writes.
LEMMA SendEffect ==
    ASSUME TypeOK, NEW r \in Requests, SendCommit(r), NEW v \in Users
    PROVE  /\ lastSeq' = lastSeq + 1
           /\ v = req[r].user => /\ member'[v].read = lastSeq + 1
                                 /\ member'[v].delivered = lastSeq + 1
                                 /\ member'[v].unread = 0
           /\ v # req[r].user =>
                 /\ member'[v].read = member[v].read
                 /\ member'[v].delivered = member[v].delivered
                 /\ member'[v].active = member[v].active
                 /\ member[v].active => member'[v].unread = member[v].unread + 1
<1>1. member[v] \in Member /\ member' = MembersAfterSend(req[r].user, lastSeq + 1)
  BY DEF TypeOK, SendCommit
<1>2. v = req[r].user => member'[v] = [member[v] EXCEPT !.read = lastSeq + 1,
                                          !.delivered = lastSeq + 1, !.unread = 0]
  BY <1>1 DEF MembersAfterSend
<1>3. v # req[r].user =>
         member'[v] = [member[v] EXCEPT !.unread = IF member[v].active THEN @ + 1 ELSE @]
  BY <1>1 DEF MembersAfterSend
<1> QED
  BY <1>1, <1>2, <1>3 DEF Member, SendCommit

\* The columns mark_read writes.
LEMMA ReadEffect ==
    ASSUME TypeOK, NEW r \in Requests, ReadCommit(r),
           NEW u, u = req[r].user, NEW s, s = req[r].seq, NEW old, old = req[r].loaded
    PROVE  /\ u \in Users /\ s \in Nat /\ old \in Member /\ member[u] \in Member
           /\ member'[u].read = IF s > old.read THEN s ELSE member[u].read
           /\ member'[u].delivered = IF s > old.delivered THEN s ELSE member[u].delivered
           /\ member'[u].unread = LET count == CountUnread(u, Newer(s, old.read))
                                  IN  IF count # old.unread THEN count ELSE member[u].unread
           /\ \A v \in Users : v # u => member'[v] = member[v]
           /\ UNCHANGED tables
<1>1. u \in Users /\ s \in Nat /\ old \in Member /\ member[u] \in Member
  BY RequestFields DEF TypeOK, ReadCommit
<1> DEFINE count == CountUnread(u, Newer(s, old.read))
           rd == IF s > old.read THEN s ELSE member[u].read
           dl == IF s > old.delivered THEN s ELSE member[u].delivered
           un == IF count # old.unread THEN count ELSE member[u].unread
<1>2. member' = [member EXCEPT ![u].read = rd, ![u].delivered = dl, ![u].unread = un]
  BY DEF ReadCommit
<1>3. UNCHANGED tables
  BY DEF ReadCommit
<1> HIDE DEF rd, dl, un
<1>4. /\ member'[u].read = rd /\ member'[u].delivered = dl /\ member'[u].unread = un
      /\ \A v \in Users : v # u => member'[v] = member[v]
  BY <1>1, <1>2 DEF TypeOK, Member
<1> QED
  BY <1>1, <1>3, <1>4 DEF rd, dl, un

\* The column that is written where no cursor moves.
LEMMA RecountEffect ==
    ASSUME TypeOK, NEW r \in Requests, RecountCommit(r),
           NEW u, u = req[r].user, NEW old, old = req[r].loaded
    PROVE  /\ u \in Users /\ old \in Member /\ req[r].count \in Nat /\ member[u] \in Member
           /\ member'[u].read = member[u].read
           /\ member'[u].delivered = member[u].delivered
           /\ member'[u].unread = IF req[r].count # old.unread THEN req[r].count
                                  ELSE member[u].unread
           /\ \A v \in Users : v # u => member'[v] = member[v]
           /\ UNCHANGED tables
<1>1. u \in Users /\ old \in Member /\ req[r].count \in Nat /\ member[u] \in Member
  BY RequestFields DEF TypeOK, RecountCommit
<1>2. /\ member' = [member EXCEPT ![u].unread =
                       IF req[r].count # old.unread THEN req[r].count ELSE @]
      /\ UNCHANGED tables
  BY DEF RecountCommit
<1> QED
  BY <1>1, <1>2 DEF TypeOK, Member

\* The column mark_delivered writes.
LEMMA AckEffect ==
    ASSUME TypeOK, NEW r \in Requests, AckCommit(r), NEW u, u = req[r].user
    PROVE  /\ u \in Users /\ req[r].seq \in Nat /\ req[r].loaded \in Member
           /\ member[u] \in Member
           /\ req[r].seq > req[r].loaded.delivered
           /\ member'[u].read = member[u].read
           /\ member'[u].delivered = req[r].seq
           /\ member'[u].unread = member[u].unread
           /\ \A v \in Users : v # u => member'[v] = member[v]
           /\ UNCHANGED tables
<1>1. u \in Users /\ req[r].seq \in Nat /\ req[r].loaded \in Member /\ member[u] \in Member
  BY RequestFields DEF TypeOK, AckCommit
<1>2. /\ member' = [member EXCEPT ![u].delivered = req[r].seq]
      /\ req[r].seq > req[r].loaded.delivered
      /\ UNCHANGED tables
  BY DEF AckCommit
<1> QED
  BY <1>1, <1>2 DEF TypeOK, Member

\* A departure or a return writes no cursor and no badge.
LEMMA PresenceEffect ==
    ASSUME TypeOK, NEW u \in Leavers, MemberLeaves(u) \/ MemberReturns(u), NEW v \in Users
    PROVE  /\ member'[v].read = member[v].read
           /\ member'[v].delivered = member[v].delivered
           /\ member'[v].unread = member[v].unread
           /\ v # u => member'[v] = member[v]
           /\ UNCHANGED tables
<1>1. member[v] \in Member
  BY DEF TypeOK
<1> QED
  BY <1>1 DEF TypeOK, Member, MemberLeaves, MemberReturns

\* Cursors and marks stay in range.
LEMMA InRangeNext ==
    ASSUME TypeOK, TypeOK', InRange, [Next]_vars
    PROVE  InRange'
<1>0. /\ lastSeq \in Nat /\ lastSeq' \in Nat
      /\ \A u \in Users : /\ member[u] \in Member /\ member'[u] \in Member
                          /\ member[u].read <= lastSeq /\ member[u].delivered <= lastSeq
                          /\ member[u].read \in Nat /\ member[u].delivered \in Nat
      /\ \A r \in Requests : req[r] \in Request
  BY DEF TypeOK, InRange, Member
<1>1. lastSeq <= lastSeq'
  <2>1. ASSUME NEW r \in Requests, SendCommit(r) PROVE lastSeq <= lastSeq'
    BY <1>0, <2>1 DEF SendCommit
  <2> QED
    BY <1>0, <2>1, TablesChange
<1>2. \A u \in Users : member'[u].read <= lastSeq' /\ member'[u].delivered <= lastSeq'
  <2>1. CASE member' = member
    BY <1>0, <1>1, <2>1
  <2>2. ASSUME NEW r \in Requests, SendCommit(r), NEW u \in Users
        PROVE  member'[u].read <= lastSeq' /\ member'[u].delivered <= lastSeq'
    BY <1>0, <2>2, SendEffect
  <2>3. ASSUME NEW r \in Requests, ReadCommit(r), NEW u \in Users
        PROVE  member'[u].read <= lastSeq' /\ member'[u].delivered <= lastSeq'
    <3>1. req[r].seq <= lastSeq
      BY <2>3 DEF InRange, ReadCommit
    <3> QED
      BY <1>0, <1>1, <2>3, <3>1, ReadEffect
  <2>4. ASSUME NEW r \in Requests, RecountCommit(r), NEW u \in Users
        PROVE  member'[u].read <= lastSeq' /\ member'[u].delivered <= lastSeq'
    BY <1>0, <1>1, <2>4, RecountEffect
  <2>5. ASSUME NEW r \in Requests, AckCommit(r), NEW u \in Users
        PROVE  member'[u].read <= lastSeq' /\ member'[u].delivered <= lastSeq'
    <3>1. req[r].seq <= lastSeq
      BY <2>5 DEF InRange, AckCommit
    <3> QED
      BY <1>0, <1>1, <2>5, <3>1, AckEffect
  <2>6. ASSUME NEW w \in Leavers, MemberLeaves(w) \/ MemberReturns(w), NEW u \in Users
        PROVE  member'[u].read <= lastSeq' /\ member'[u].delivered <= lastSeq'
    BY <1>0, <1>1, <2>6, PresenceEffect
  <2> QED
    BY <2>1, <2>2, <2>3, <2>4, <2>5, <2>6, MemberChange
<1>3. \A r \in Requests : req'[r].step \in {"read", "ack"} => req'[r].seq <= lastSeq'
  <2>1. ASSUME NEW r \in Requests, NEW q, To(r, q),
               q.step \in {"read", "ack"} => q.seq \in Nat /\ q.seq <= lastSeq'
        PROVE  \A p \in Requests : req'[p].step \in {"read", "ack"} => req'[p].seq <= lastSeq'
    <3>1. \A p \in Requests : req'[p] = IF p = r THEN q ELSE req[p]
      BY <2>1 DEF To, TypeOK
    <3>2. \A p \in Requests :
             req[p].step \in {"read", "ack"} => req[p].seq \in Nat /\ req[p].seq <= lastSeq
      BY <1>0, RequestFields DEF InRange
    <3> QED
      BY <1>0, <1>1, <2>1, <3>1, <3>2
  <2>2. ASSUME NEW r \in Requests, NEW q, To(r, q), q.step \notin {"read", "ack"}
        PROVE  \A p \in Requests : req'[p].step \in {"read", "ack"} => req'[p].seq <= lastSeq'
    BY <2>1, <2>2
  <2>3. CASE req' = req
    BY <1>0, <1>1, <2>3, RequestFields DEF InRange
  <2>4. ASSUME NEW r \in Requests, Arrive(r)
        PROVE  \A p \in Requests : req'[p].step \in {"read", "ack"} => req'[p].seq <= lastSeq'
    <3>1. CASE SendBegin(r) \/ DeleteBegin(r)
      BY <2>2, <3>1 DEF SendBegin, DeleteBegin
    <3>2. CASE ReadBegin(r)
      <4>1. PICK u \in Users, s \in 1..lastSeq :
               To(r, [step |-> "read", user |-> u, seq |-> s, loaded |-> member[u]])
        BY <3>2, ServiceAssumption DEF ReadBegin
      <4> QED
        BY <1>0, <1>1, <2>1, <4>1
    <3>3. CASE AckBegin(r)
      <4>1. PICK u \in Users, s \in 1..lastSeq :
               To(r, [step |-> "ack", user |-> u, seq |-> s, loaded |-> member[u]])
        BY <3>3, ServiceAssumption DEF AckBegin
      <4> QED
        BY <1>0, <1>1, <2>1, <4>1
    <3> QED
      BY <2>4, <3>1, <3>2, <3>3 DEF Arrive
  <2>5. ASSUME NEW r \in Requests, Handle(r) PROVE \E q : To(r, q) /\ q.step \notin {"read", "ack"}
    <3>1. CASE SendDuplicate(r) \/ SendConflict(r) \/ PublishCreated(r) \/ AckNothingNew(r)
                 \/ PublishReceipt(r) \/ PublishDeleted(r) \/ Fail(r)
      BY <3>1 DEF SendDuplicate, SendConflict, PublishCreated, AckNothingNew, PublishReceipt,
                  PublishDeleted, Fail, Idle
    <3>2. CASE SendFresh(r)
      <4>1. [req[r] EXCEPT !.step = "insert"].step = "insert"
        BY <1>0 DEF Request
      <4> QED
        BY <3>2, <4>1 DEF SendFresh
    <3>3. CASE DeleteCommit(r)
      <4>1. [req[r] EXCEPT !.step = "retracted"].step = "retracted"
        BY <1>0 DEF Request
      <4> QED
        BY <3>3, <4>1 DEF DeleteCommit
    <3>4. CASE SendCommit(r) \/ ReadCommit(r) \/ ReadCount(r) \/ RecountCommit(r) \/ AckCommit(r)
      BY <3>4 DEF SendCommit, ReadCommit, ReadCount, RecountCommit, AckCommit
    <3> QED
      BY <2>5, <3>1, <3>2, <3>3, <3>4 DEF Handle
  <2>6. CASE Restart
    BY <2>6 DEF Restart, Idle
  <2> QED
    BY <2>2, <2>3, <2>4, <2>5, <2>6 DEF Next, Step, MemberLeaves, MemberReturns, vars
<1> QED
  BY <1>2, <1>3 DEF InRange

\* In every state no cursor and no mark is beyond the newest message.
LEMMA CursorsInRange == Spec => []InRange
<1>1. Init => InRange
  BY DEF Init, InRange, Idle
<1>2. IInv /\ IInv' /\ InRange /\ [Next]_vars => InRange'
  BY InRangeNext DEF IInv
<1> QED
  BY <1>1, <1>2, Invariant, PTL DEF Spec

\* A cursor moves back only in a mark whose copy of the row is out of date.
LEMMA MovesBackNext ==
    ASSUME TypeOK, InRange, [Next]_vars, NEW u \in Users,
           member'[u].read < member[u].read \/ member'[u].delivered < member[u].delivered
    PROVE  \E r \in Requests : req[r].step \in {"read", "ack"} /\ req[r].user = u /\ Stale(r)
<1>0. /\ lastSeq \in Nat /\ member[u] \in Member
      /\ member[u].read \in Nat /\ member[u].read <= lastSeq
      /\ member[u].delivered \in Nat /\ member[u].delivered <= lastSeq
  BY DEF TypeOK, InRange, Member
<1>1. ASSUME NEW r \in Requests, SendCommit(r) PROVE FALSE
  BY <1>0, <1>1, SendEffect
<1>2. ASSUME NEW r \in Requests, ReadCommit(r)
      PROVE  req[r].step = "read" /\ req[r].user = u /\ Stale(r)
  <2>1. req[r].step = "read"
    BY <1>2 DEF ReadCommit
  <2>2. req[r].user = u
    BY <1>0, <1>2, ReadEffect
  <2>3. req[r].loaded # member[u]
    BY <1>0, <1>2, <2>2, ReadEffect
  <2> QED
    BY <2>1, <2>2, <2>3 DEF Stale
<1>3. ASSUME NEW r \in Requests, RecountCommit(r) PROVE FALSE
  BY <1>0, <1>3, RecountEffect
<1>4. ASSUME NEW r \in Requests, AckCommit(r)
      PROVE  req[r].step = "ack" /\ req[r].user = u /\ Stale(r)
  <2>1. req[r].step = "ack"
    BY <1>4 DEF AckCommit
  <2>2. req[r].user = u
    BY <1>0, <1>4, AckEffect
  <2>3. req[r].loaded # member[u]
    BY <1>0, <1>4, <2>2, AckEffect
  <2> QED
    BY <2>1, <2>2, <2>3 DEF Stale
<1>5. ASSUME NEW v \in Leavers, MemberLeaves(v) \/ MemberReturns(v) PROVE FALSE
  BY <1>0, <1>5, PresenceEffect
<1>6. CASE member' = member
  BY <1>0, <1>6
<1> QED
  BY <1>1, <1>2, <1>3, <1>4, <1>5, <1>6, MemberChange

\* Delivered and read cursors go forward unless marks of the same member overlap,
\* for any number of requests.
THEOREM CursorsGoForward == Spec => OnlyOverlapMovesBack
<1> DEFINE Forward == \A u \in Users :
        \/ member'[u].read < member[u].read
        \/ member'[u].delivered < member[u].delivered
        => \E r \in Requests : /\ req[r].step \in {"read", "ack"}
                               /\ req[r].user = u
                               /\ Stale(r)
<1>1. IInv /\ InRange /\ [Next]_vars => [Forward]_vars
  BY MovesBackNext DEF IInv
<1>2. Spec => [][Forward]_vars
  BY <1>1, Invariant, CursorsInRange, PTL DEF Spec
<1> QED
  BY <1>2 DEF OnlyOverlapMovesBack

\* What CountUnread counts.
Unread(ms, ds, u, read) == {m \in ms \ ds : m.seq > read /\ m.sender # u}

\* The count now and after a step.
LEMMA CountIsUnread ==
    /\ \A u, read : CountUnread(u, read) = Cardinality(Unread(messages, deleted, u, read))
    /\ \A u : Hides(u)' <=>
          /\ member'[u].active
          /\ member'[u].unread < Cardinality(Unread(messages', deleted', u, member'[u].read))
  BY DEF CountUnread, Unread, Hides

\* A deletion makes no member have more to read.
LEMMA DeletionLowersCount ==
    ASSUME IsFiniteSet(messages), deleted \subseteq deleted', messages' = messages,
           NEW u, NEW read
    PROVE  /\ CountUnread(u, read) \in Nat
           /\ Cardinality(Unread(messages', deleted', u, read)) \in Nat
           /\ Cardinality(Unread(messages', deleted', u, read)) <= CountUnread(u, read)
<1> DEFINE S == Unread(messages, deleted, u, read)
           T == Unread(messages', deleted', u, read)
<1>1. S \subseteq messages /\ T \in SUBSET S
  BY DEF Unread
<1>2. IsFiniteSet(S)
  BY <1>1, FS_Subset
<1>3. Cardinality(T) <= Cardinality(S) /\ IsFiniteSet(T)
  BY <1>1, <1>2, FS_Subset
<1>4. Cardinality(S) \in Nat /\ Cardinality(T) \in Nat
  BY <1>2, <1>3, FS_CardinalityType
<1> QED
  BY <1>3, <1>4, CountIsUnread

\* A new row makes a member have at most one more to read, and its sender none.
LEMMA SendRaisesCount ==
    ASSUME IsFiniteSet(messages), TypeOK, SeqGapless,
           NEW r \in Requests, SendCommit(r), NEW u, NEW read
    PROVE  /\ CountUnread(u, read) \in Nat
           /\ Cardinality(Unread(messages', deleted', u, read)) \in Nat
           /\ Cardinality(Unread(messages', deleted', u, read)) <= CountUnread(u, read) + 1
           /\ Cardinality(Unread(messages', deleted', u, lastSeq + 1)) = 0
<1> DEFINE row == [seq |-> lastSeq + 1, sender |-> req[r].user, key |-> req[r].key]
           S == Unread(messages, deleted, u, read)
           T == Unread(messages', deleted', u, read)
<1>1. messages' = messages \cup {row} /\ deleted' = deleted /\ row.seq = lastSeq + 1
  BY DEF SendCommit
<1> HIDE DEF row
<1>2. S \subseteq messages /\ T \in SUBSET (S \cup {row})
  BY <1>1 DEF Unread
<1>3. IsFiniteSet(S)
  BY <1>2, FS_Subset
<1>4. /\ IsFiniteSet(S \cup {row})
      /\ Cardinality(S) \in Nat
      /\ Cardinality(S \cup {row}) <= Cardinality(S) + 1
  <2> HIDE DEF S
  <2>1. /\ IsFiniteSet(S \cup {row})
        /\ Cardinality(S \cup {row}) =
              IF row \in S THEN Cardinality(S) ELSE Cardinality(S) + 1
    BY <1>3, FS_AddElement
  <2>2. Cardinality(S) \in Nat
    BY <1>3, FS_CardinalityType
  <2> QED
    BY <2>1, <2>2
<1>5. IsFiniteSet(T) /\ Cardinality(T) <= Cardinality(S \cup {row})
  BY <1>2, <1>4, FS_Subset
<1>6. Cardinality(T) \in Nat /\ Cardinality(S \cup {row}) \in Nat
  BY <1>4, <1>5, FS_CardinalityType
<1>7. Unread(messages', deleted', u, lastSeq + 1) = {}
  <2>1. lastSeq \in Nat /\ \A m \in messages : m.seq \in 1..lastSeq
    BY DEF SeqGapless, TypeOK
  <2>2. \A m \in messages' : ~ (m.seq > lastSeq + 1)
    BY <1>1, <2>1
  <2> QED
    BY <2>2 DEF Unread
<1>8. Cardinality(Unread(messages', deleted', u, lastSeq + 1)) = 0
  BY <1>7, FS_EmptySet
<1> QED
  BY <1>4, <1>5, <1>6, <1>8, CountIsUnread

\* A badge comes to hide unread messages only through a mark that is out of date,
\* or when a departed member comes back.
LEMMA HidesNext ==
    ASSUME IInv, [Next]_vars, NEW u \in Users, Hides(u)', ~ Hides(u), member[u].active
    PROVE  \E r \in Requests : /\ req[r].step \in {"read", "recount"}
                               /\ req[r].user = u
                               /\ Stale(r) \/ Outcounted(r)
<1> DEFINE After(read) == Cardinality(Unread(messages', deleted', u, read))
<1>0. /\ TypeOK /\ IsFiniteSet(messages) /\ SeqGapless
      /\ member[u] \in Member /\ lastSeq \in Nat
      /\ member[u].unread \in Nat /\ member[u].read \in Nat
  BY DEF IInv, TypeOK, Member
<1>1. member'[u].active /\ member'[u].unread < After(member'[u].read)
  BY CountIsUnread
<1>2. member[u].unread >= CountUnread(u, member[u].read)
      /\ CountUnread(u, member[u].read) \in Nat
  BY <1>0, CountUnreadType DEF Hides
<1>3. ASSUME NEW r \in Requests, SendCommit(r) PROVE FALSE
  <2>1. CASE req[r].user = u
    <3>1. member'[u].read = lastSeq + 1 /\ member'[u].unread = 0
      BY <1>0, <1>3, <2>1, SendEffect
    <3>2. After(lastSeq + 1) = 0
      BY <1>0, <1>3, SendRaisesCount
    <3> QED
      BY <1>1, <3>1, <3>2
  <2>2. CASE req[r].user # u
    <3>1. member'[u].read = member[u].read /\ member'[u].unread = member[u].unread + 1
      BY <1>0, <1>3, <2>2, SendEffect
    <3>2. /\ After(member[u].read) \in Nat
          /\ After(member[u].read) <= CountUnread(u, member[u].read) + 1
      BY <1>0, <1>3, SendRaisesCount
    <3> HIDE DEF After
    <3>3. member'[u].unread < After(member[u].read)
      BY <1>1, <3>1
    <3> QED
      BY <1>0, <1>2, <3>1, <3>2, <3>3
  <2> QED
    BY <2>1, <2>2
<1>4. ASSUME UNCHANGED messages
      PROVE  \A read : /\ After(read) \in Nat /\ CountUnread(u, read) \in Nat
                       /\ After(read) <= CountUnread(u, read)
  BY <1>0, <1>4, RowsStay, DeletionLowersCount
<1>5. ASSUME UNCHANGED messages, member'[u].read = member[u].read,
             member'[u].unread = member[u].unread
      PROVE  FALSE
  <2>1. /\ After(member[u].read) \in Nat
        /\ After(member[u].read) <= CountUnread(u, member[u].read)
    BY <1>4, <1>5
  <2> HIDE DEF After
  <2>2. member[u].unread < After(member[u].read)
    BY <1>1, <1>5
  <2> QED
    BY <1>0, <1>2, <2>1, <2>2
<1>6. ASSUME NEW r \in Requests, ReadCommit(r)
      PROVE  req[r].step = "read" /\ req[r].user = u /\ Stale(r)
  <2> DEFINE s == req[r].seq
             old == req[r].loaded
  <2>1. req[r].step = "read" /\ UNCHANGED messages
    BY <1>6 DEF ReadCommit, tables
  <2>2. req[r].user = u
    BY <1>0, <1>5, <1>6, <2>1, ReadEffect
  <2>3. ASSUME old = member[u] PROVE FALSE
    <3>1. s \in Nat /\ member'[u].read = Newer(s, member[u].read)
      BY <1>0, <1>6, <2>2, <2>3, ReadEffect DEF Newer
    <3>2. member'[u].unread = CountUnread(u, Newer(s, member[u].read))
      BY <1>0, <1>6, <2>2, <2>3, ReadEffect
    <3>3. /\ After(member'[u].read) \in Nat
          /\ CountUnread(u, member'[u].read) \in Nat
          /\ After(member'[u].read) <= CountUnread(u, member'[u].read)
      BY <1>4, <2>1
    <3> HIDE DEF After
    <3> QED
      BY <1>1, <3>1, <3>2, <3>3
  <2> QED
    BY <2>1, <2>2, <2>3 DEF Stale
<1>7. ASSUME NEW r \in Requests, RecountCommit(r)
      PROVE  req[r].step = "recount" /\ req[r].user = u /\ (Stale(r) \/ Outcounted(r))
  <2>1. req[r].step = "recount" /\ UNCHANGED messages
    BY <1>7 DEF RecountCommit, tables
  <2>2. req[r].user = u
    BY <1>0, <1>5, <1>7, <2>1, RecountEffect
  <2>3. ASSUME req[r].loaded = member[u], req[r].count = CountUnread(u, member[u].read)
        PROVE  FALSE
    <3>1. /\ member'[u].read = member[u].read
          /\ member'[u].unread = CountUnread(u, member[u].read)
      BY <1>0, <1>7, <2>2, <2>3, RecountEffect
    <3>2. /\ After(member[u].read) \in Nat
          /\ After(member[u].read) <= CountUnread(u, member[u].read)
      BY <1>4, <2>1
    <3> HIDE DEF After
    <3> QED
      BY <1>1, <1>2, <3>1, <3>2
  <2> QED
    BY <2>1, <2>2, <2>3 DEF Stale, Outcounted
<1>8. ASSUME NEW r \in Requests, AckCommit(r) PROVE FALSE
  <2>1. UNCHANGED messages
    BY <1>8 DEF AckCommit, tables
  <2> QED
    BY <1>0, <1>5, <1>8, <2>1, AckEffect
<1>9. ASSUME NEW v \in Leavers, MemberLeaves(v) \/ MemberReturns(v) PROVE FALSE
  <2>1. UNCHANGED messages
    BY <1>9 DEF MemberLeaves, MemberReturns, tables
  <2> QED
    BY <1>0, <1>5, <1>9, <2>1, PresenceEffect
<1>10. CASE member' = member
  BY <1>3, <1>5, <1>10, TablesChange
<1> QED
  BY <1>3, <1>6, <1>7, <1>8, <1>9, <1>10, MemberChange

\* A badge never falls behind the unread messages of a member who is there, but by
\* marks that overlap, for any number of requests.
THEOREM BadgesHideNothing == Spec => OnlyOverlapHidesUnread
<1> DEFINE Excused == \A u \in Users :
        Hides(u)' /\ ~ Hides(u)
        => \/ ~ member[u].active
           \/ \E r \in Requests : /\ req[r].step \in {"read", "recount"}
                                  /\ req[r].user = u
                                  /\ Stale(r) \/ Outcounted(r)
<1>1. IInv /\ [Next]_vars => [Excused]_vars
  BY HidesNext
<1>2. Spec => [][Excused]_vars
  BY <1>1, Invariant, PTL DEF Spec
<1> QED
  BY <1>2 DEF OnlyOverlapHidesUnread

===============================================================================
