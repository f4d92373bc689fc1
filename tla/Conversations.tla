----------------------------- MODULE Conversations -----------------------------
(***************************************************************************)
(* The list of conversations of a tab (store/chat.ts), the calls that the  *)
(* views make to change one (ConversationDetails.tsx, the dialogs), and    *)
(* the ticks that are drawn from it (conversation.ts).  The server sends   *)
(* events for messages and receipts only: what others do to a conversation *)
(* is seen when the list is loaded again.                                  *)
(*                                                                         *)
(* A step is what runs between two awaits.  A message is its seq.          *)
(*                                                                         *)
(* Abstracted: the members, roles and names of a conversation are its      *)
(* version; who may change it is GroupMembership's, so a call may be       *)
(* refused at any time; unread counts; conversations beyond the first      *)
(* page of the list; the order of the list.                                *)
(*                                                                         *)
(* A definition named Bug... is the next one with a plausible mistake in   *)
(* it; the runs use it only to show that a property can fail.              *)
(***************************************************************************)
EXTENDS Naturals

CONSTANTS Convs, Peers,
          Calls,    \* slots for calls in flight
          MaxSeq,   \* bound on the messages of a conversation
          MaxVer    \* bound on its changes

VARIABLES member,   \* server: the viewer is a member
          ver,      \* server: version; 0 is a conversation not yet created
          seq,      \* server: the newest message
          read,     \* server: last_read_seq of each peer
          list,     \* conversations
          events,   \* published and not handled
          call,     \* the calls in flight
          dirty,    \* history: per call, what has changed since it was made
          behind    \* history: conversations that are known not to be shown right

server == <<member, ver, seq, read>>
vars == <<server, list, events, call, dirty, behind>>

Entry == [ver : 0..MaxVer, last : 0..MaxSeq, read : [Peers -> 0..MaxSeq]]
Snap(c) == [ver |-> ver[c], last |-> seq[c], read |-> read[c]]
Page == [c \in {x \in Convs : member[x]} |-> Snap(c)]
Put(f, c, e) == [x \in DOMAIN f \cup {c} |-> IF x = c THEN e ELSE f[x]]
Without(f, c) == [x \in DOMAIN f \ {c} |-> f[x]]

Idle == [step |-> "idle"]
Active == {k \in Calls : call[k] # Idle}
Become(k, next) == call' = [call EXCEPT ![k] = next]

\* c has changed, so a call in flight may bring it as it was.
Dirty(c) == dirty' = [k \in Calls |-> IF k \in Active THEN dirty[k] \cup {c} ELSE dirty[k]]

-------------------------------------------------------------------------------
(* What others do *)

\* Another member changes the conversation, its membership of the viewer
\* included, or creates one with him: no event.
OthersChange(c) ==
    /\ ver[c] < MaxVer
    /\ ver' = [ver EXCEPT ![c] = @ + 1]
    /\ \E m \in BOOLEAN : member' = [member EXCEPT ![c] = m]
    /\ behind' = behind \cup {c}
    /\ Dirty(c)
    /\ UNCHANGED <<seq, read, list, events, call>>

PeerSends(c) ==
    /\ member[c]
    /\ seq[c] < MaxSeq
    /\ seq' = [seq EXCEPT ![c] = @ + 1]
    /\ events' = events \cup {[type |-> "message.created", conv |-> c, seq |-> seq[c] + 1]}
    /\ Dirty(c)
    /\ UNCHANGED <<member, ver, read, list, call, behind>>

PeerReads(c, p) ==
    /\ member[c]
    /\ \E n \in read[c][p] + 1..seq[c] :
          /\ read' = [read EXCEPT ![c][p] = n]
          /\ events' = events \cup {[type |-> "receipt.updated", conv |-> c, peer |-> p, seq |-> n]}
    /\ Dirty(c)
    /\ UNCHANGED <<member, ver, seq, list, call, behind>>

-------------------------------------------------------------------------------
(* Events *)

\* The conversation is shown as it was before if the message or receipt is older.
Applied(c, n) ==
    /\ list' = IF c \in DOMAIN list THEN [list EXCEPT ![c].last = n] ELSE list
    /\ behind' = IF c \in DOMAIN list /\ n < list[c].last THEN behind \cup {c} ELSE behind

ApplyReceipt(c, p, n) ==
    /\ list' = IF c \in DOMAIN list THEN [list EXCEPT ![c].read[p] = n] ELSE list
    /\ behind' = IF c \in DOMAIN list /\ n < list[c].read[p] THEN behind \cup {c} ELSE behind

Handle(e) ==
    /\ IF e.type = "message.created"
       THEN Applied(e.conv, e.seq)
       ELSE ApplyReceipt(e.conv, e.peer, e.seq)
    /\ events' = events \ {e}
    /\ Dirty(e.conv)
    /\ UNCHANGED <<server, call>>

\* The socket is down: the events are not delivered.
Miss ==
    /\ events # {}
    /\ events' = {}
    /\ behind' = behind \cup {e.conv : e \in events}
    /\ UNCHANGED <<server, list, call, dirty>>

-------------------------------------------------------------------------------
(* Calls *)

Ask(k, op, c) ==
    /\ call[k] = Idle
    /\ Become(k, [step |-> "asked", op |-> op, conv |-> c])
    /\ dirty' = [dirty EXCEPT ![k] = {}]
    /\ UNCHANGED <<server, list, events, behind>>

\* loadConversations, when the list is shown and on every open of the socket
LoadConversations(k) == Ask(k, "load", "all")

\* startDirect and startGroup
Start(k, c) == Ask(k, "start", c)

\* renameGroup, addMembers, setMemberRole, removeMember, and the calls whose answer
\* is a message: a send, or ("react") a reaction, a deletion, the messages missed.
ChangeIt(k, c) ==
    /\ c \in DOMAIN list
    /\ \E op \in {"change", "remove", "leave", "send", "react"} : Ask(k, op, c)

Answer(k, answer) == Become(k, [step |-> "answered", op |-> call[k].op, conv |-> call[k].conv,
                                answer |-> answer])

\* What a call itself changes it also brings.
DirtyOthers(k, c) ==
    dirty' = [x \in Calls |-> IF x \in Active \ {k} THEN dirty[x] \cup {c}
                              ELSE IF call'[x] = Idle THEN {} ELSE dirty[x]]

ServeRead(k) ==
    /\ call[k].step = "asked"
    /\ LET c == call[k].conv
       IN  \/ call[k].op = "load" /\ Answer(k, Page)
           \/ call[k].op = "get" /\ member[c] /\ Answer(k, [x \in {c} |-> Snap(x)])
           \/ call[k].op = "start" /\ member[c] /\ Answer(k, [x \in {c} |-> Snap(x)])
           \/ call[k].op = "react" /\ \E n \in 1..seq[c] : Answer(k, n)
    /\ UNCHANGED <<server, list, events, dirty, behind>>

ServeChange(k) ==
    /\ call[k].step = "asked"
    /\ LET c == call[k].conv
       IN  /\ \/ call[k].op \in {"change", "remove", "leave"} /\ member[c]
              \/ call[k].op = "start" /\ ver[c] = 0
           /\ ver[c] < MaxVer
           /\ ver' = [ver EXCEPT ![c] = @ + 1]
           /\ member' = [member EXCEPT ![c] = call[k].op # "leave"]
           /\ Answer(k, [x \in {c} |-> [Snap(c) EXCEPT !.ver = @ + 1]])
           /\ DirtyOthers(k, c)
    /\ UNCHANGED <<seq, read, list, events, behind>>

ServeSend(k) ==
    /\ call[k].step = "asked"
    /\ call[k].op = "send"
    /\ LET c == call[k].conv
       IN  /\ member[c]
           /\ seq[c] < MaxSeq
           /\ seq' = [seq EXCEPT ![c] = @ + 1]
           /\ Answer(k, seq[c] + 1)
           /\ DirtyOthers(k, c)
    /\ UNCHANGED <<member, ver, read, list, events, behind>>

\* The call is refused or lost, or its answer is: nobody knows what it did.
Fail(k) ==
    /\ call[k].step \in {"asked", "answered"}
    /\ call[k].op # "get"
    /\ Become(k, Idle)
    /\ behind' = IF call[k].step = "answered" /\ call[k].op \notin {"load", "react"}
                 THEN behind \cup {call[k].conv} ELSE behind
    /\ dirty' = [dirty EXCEPT ![k] = {}]
    /\ UNCHANGED <<server, list, events>>

\* An answer shows what it brings; what has changed meanwhile it may undo.
Known(k, convs) == behind' = (behind \ convs) \cup (convs \cap dirty[k])

Loaded(k) ==
    /\ call[k].step = "answered"
    /\ call[k].op = "load"
    /\ list' = call[k].answer
    /\ Known(k, Convs)
    /\ Become(k, Idle)
    /\ dirty' = [x \in Calls |-> IF x \in Active \ {k} THEN Convs ELSE {}]
    /\ UNCHANGED <<server, events>>

\* upsertConversation
Upserted(k) ==
    /\ call[k].step = "answered"
    /\ call[k].op \in {"start", "change", "get"}
    /\ LET c == call[k].conv
       IN  /\ list' = Put(list, c, call[k].answer[c])
           /\ Known(k, {c})
    /\ Become(k, Idle)
    /\ DirtyOthers(k, call[k].conv)
    /\ UNCHANGED <<server, events>>

BugRemoved(k) ==
    /\ call[k].step = "answered"
    /\ call[k].op \in {"remove", "leave"}
    /\ list' = Without(list, call[k].conv)
    /\ Become(k, Idle)
    /\ DirtyOthers(k, call[k].conv)
    /\ UNCHANGED <<server, events, behind>>

\* removeMember: the conversation is read again.
Removed(k) ==
    /\ call[k].step = "answered"
    /\ call[k].op \in {"remove", "leave"}
    /\ Become(k, [step |-> "asked", op |-> "get", conv |-> call[k].conv])
    /\ UNCHANGED <<server, list, events, dirty, behind>>

BugGetFails(k) ==
    /\ call[k].step \in {"asked", "answered"}
    /\ call[k].op = "get"
    /\ Become(k, Idle)
    /\ behind' = behind \ {call[k].conv}
    /\ dirty' = [dirty EXCEPT ![k] = {}]
    /\ UNCHANGED <<server, events, list>>

\* forgetConversation, whatever the reason why it could not be read
GetFails(k) ==
    /\ call[k].step \in {"asked", "answered"}
    /\ call[k].op = "get"
    /\ LET c == call[k].conv
       IN  /\ list' = Without(list, c)
           /\ behind' = IF member[c] THEN behind \cup {c} ELSE behind \ {c}
    /\ Become(k, Idle)
    /\ DirtyOthers(k, call[k].conv)
    /\ UNCHANGED <<server, events>>

\* applyIncomingMessage, of a new message or of one that was reacted to
Saved(k) ==
    /\ call[k].step = "answered"
    /\ call[k].op \in {"send", "react"}
    /\ Applied(call[k].conv, call[k].answer)
    /\ Become(k, Idle)
    /\ DirtyOthers(k, call[k].conv)
    /\ UNCHANGED <<server, events>>

-------------------------------------------------------------------------------

Init ==
    /\ member = [c \in Convs |-> FALSE]
    /\ ver = [c \in Convs |-> 0]
    /\ seq = [c \in Convs |-> 0]
    /\ read = [c \in Convs |-> [p \in Peers |-> 0]]
    /\ list = [c \in {} |-> 0]
    /\ events = {}
    /\ call = [k \in Calls |-> Idle]
    /\ dirty = [k \in Calls |-> {}]
    /\ behind = {}

CallStep(k) ==
    \/ LoadConversations(k) \/ \E c \in Convs : Start(k, c) \/ ChangeIt(k, c)
    \/ ServeRead(k) \/ ServeChange(k) \/ ServeSend(k)
    \/ Fail(k) \/ Loaded(k) \/ Upserted(k) \/ Removed(k) \/ GetFails(k) \/ Saved(k)

Next ==
    \/ \E k \in Calls : CallStep(k)
    \/ \E c \in Convs : OthersChange(c) \/ PeerSends(c) \/ \E p \in Peers : PeerReads(c, p)
    \/ \E e \in events : Handle(e)
    \/ Miss

Spec == Init /\ [][Next]_vars

-------------------------------------------------------------------------------
(* Properties *)

BugStatusOf(c, n) == IF \A p \in Peers : list[c].read[p] + 1 >= n THEN "read" ELSE "sent"

\* statusOf: the ticks of the viewer's own message n
StatusOf(c, n) ==
    IF Peers # {} /\ \A p \in Peers : list[c].read[p] >= n THEN "read" ELSE "sent"

\* Two blue ticks are never drawn for a message that somebody has not read.
TicksAreTrue ==
    \A c \in DOMAIN list : \A n \in 1..MaxSeq :
        StatusOf(c, n) = "read" => \A p \in Peers : read[c][p] >= n

Pending(c) == (\E e \in events : e.conv = c) \/ Active # {}

\* Outside the cases that behind lists, what the viewer sees when nothing is
\* pending is what the server has: his own calls need no reload.
RightWhenQuiet ==
    \A c \in Convs \ behind :
        \/ Pending(c)
        \/ IF member[c] THEN c \in DOMAIN list /\ list[c] = Snap(c) ELSE c \notin DOMAIN list

Back(c) ==
    /\ c \in DOMAIN list
    /\ IF c \in DOMAIN list'
       THEN \/ list'[c].ver < list[c].ver \/ list'[c].last < list[c].last
            \/ \E p \in Peers : list'[c].read[p] < list[c].read[p]
       ELSE member[c]

\* Nothing the viewer has seen of a conversation is silently taken back.
NoSilentUndo == [][\A c \in Convs : Back(c) => c \in behind']_vars
===============================================================================
