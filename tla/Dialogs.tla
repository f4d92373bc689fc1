-------------------------------- MODULE Dialogs --------------------------------
(***************************************************************************)
(* The dialogs in which a chat or a group is begun (NewChatModal.tsx,      *)
(* NewGroupModal.tsx, Modal.tsx), the layout that shows one of them at a   *)
(* time (chats/layout.tsx, useShortcuts.ts), and the two search boxes:     *)
(* "people" in the dialog for a chat, "chats" above the list of            *)
(* conversations (ConversationList.tsx, SearchResults.tsx).                *)
(*                                                                         *)
(* A step is an event handler, a timeout, or what runs between two awaits. *)
(* A call outlives the dialog that made it.                                *)
(*                                                                         *)
(* Abstracted: a term stands for all that the server searches, and is long *)
(* enough to be searched; what the local filter shows; the names, and who  *)
(* is selected for a group; nobody changes the user's contacts on another  *)
(* device.                                                                 *)
(*                                                                         *)
(* The specification and its parts are named so that one module can extend *)
(* this one and Composer, the other views.                                 *)
(*                                                                         *)
(* A definition named Bug... is the next one with a plausible mistake in   *)
(* it; the runs use it only to show that a property can fail.              *)
(***************************************************************************)
EXTENDS Naturals

CONSTANTS Users, Terms, NoTerm,
          Found,    \* who the server finds for a term
          Calls     \* slots for calls in flight

Boxes == {"people", "chats"}
Many == 2                 \* made is not counted further

VARIABLES compose,  \* the dialog that is shown
          needle,   \* per box: what is typed
          timer,    \* per box: the search of that is waiting for its timeout
          result,   \* per box: the last answer and its term
          contacts, \* how often each user is in the dialog's contacts
          friends,  \* server: the user's contacts
          opening,  \* busyId, a set of at most one
          busy,     \* a group is being created
          call,     \* the calls in flight
          answered, \* history: people has had an answer for what is typed
          made,     \* history: groups this dialog has created
          unsure    \* history: what this dialog shows or made may be out of step

search == <<needle, timer, result, answered>>
dialog == <<contacts, opening, busy, made, unsure>>
dialogsVars == <<compose, search, friends, dialog, call>>

Idle == [op |-> "idle"]
Nothing == [term |-> NoTerm, users |-> {}]

\* The calls there are; alive: the component that made it is still shown.
Awaited(op) == {k \in Calls : call[k].op = op}
Begin(k, c) == call[k] = Idle /\ call' = [call EXCEPT ![k] = c]
Became(k, c) == call' = [call EXCEPT ![k] = c]
Request(op, users) == [op |-> op, users |-> users, step |-> "asked", alive |-> TRUE]
Query(b) == [op |-> "search", box |-> b, term |-> needle[b], alive |-> TRUE]

-------------------------------------------------------------------------------
(* Dialogs *)

\* The calls of a dialog that is taken away go on; its search box is gone.
Orphaned(k) ==
    IF call[k] # Idle /\ ~ (call[k].op = "search" /\ call[k].box = "chats")
    THEN [call[k] EXCEPT !.alive = FALSE] ELSE call[k]

Clear ==
    /\ needle' = [needle EXCEPT !["people"] = NoTerm]
    /\ timer' = [timer EXCEPT !["people"] = FALSE]
    /\ result' = [result EXCEPT !["people"] = Nothing]
    /\ answered' = FALSE
    /\ contacts' = [u \in Users |-> 0]
    /\ opening' = {}
    /\ busy' = FALSE
    /\ made' = 0

\* "New chat" and its shortcut, "New group": the dialog asks for the contacts.
Show(k, kind) ==
    /\ compose # kind
    /\ kind = "group" => compose = "chat"
    /\ call[k] = Idle
    /\ compose' = kind
    /\ Clear
    /\ unsure' = (Awaited("add") # {})
    /\ call' = [x \in Calls |-> IF x = k THEN Request("contacts", {}) ELSE Orphaned(x)]
    /\ UNCHANGED friends

Closed(k, next) ==
    /\ compose' = "none"
    /\ Clear
    /\ unsure' = FALSE
    /\ call' = [x \in Calls |-> IF x = k THEN next ELSE Orphaned(x)]

\* Escape, the backdrop, or the button: also while a call is in flight.
Close ==
    /\ compose # "none"
    /\ \E k \in Calls : Closed(k, Orphaned(k))
    /\ UNCHANGED friends

-------------------------------------------------------------------------------
(* Search boxes *)

\* Each change of the text takes the last timeout back and sets a new one.
OnChange(b, t) ==
    /\ b = "people" => compose = "chat"
    /\ needle' = [needle EXCEPT ![b] = t]
    /\ timer' = [timer EXCEPT ![b] = t # NoTerm]
    /\ answered' = (answered /\ b # "people")
    /\ UNCHANGED <<compose, result, friends, dialog, call>>

BugSearch(k, b) ==
    /\ timer[b]
    /\ timer' = [timer EXCEPT ![b] = FALSE]
    /\ result[b].term # needle[b] /\ Awaited("search") = {}
    /\ Begin(k, Query(b))
    /\ UNCHANGED <<compose, needle, result, answered, friends, dialog>>

Search(k, b) ==
    /\ timer[b]
    /\ timer' = [timer EXCEPT ![b] = FALSE]
    /\ Begin(k, Query(b))
    /\ UNCHANGED <<compose, needle, result, answered, friends, dialog>>

\* The answer is kept with its term, whatever has been typed since: an older one
\* that comes last stays.  A failure finds nobody in the dialog, and changes
\* nothing above the list.
Searched(k) ==
    /\ call[k].op = "search"
    /\ LET b == call[k].box  t == call[k].term
       IN  /\ \E users \in {Found[t], {}} :
                 result' = IF call[k].alive /\ (b = "people" \/ users = Found[t])
                           THEN [result EXCEPT ![b] = [term |-> t, users |-> users]] ELSE result
           /\ answered' = (answered \/ (call[k].alive /\ b = "people" /\ needle[b] = t))
    /\ Became(k, Idle)
    /\ UNCHANGED <<compose, needle, timer, friends, dialog>>

BugShown(b) == IF needle[b] # NoTerm THEN result[b].users ELSE {}

\* showing, and the condition under which SearchResults is rendered
Shown(b) == IF needle[b] # NoTerm /\ result[b].term = needle[b] THEN result[b].users ELSE {}

\* A hit above the list leads to its chat, and the box is emptied.
Navigate == Shown("chats") # {} /\ OnChange("chats", NoTerm)

-------------------------------------------------------------------------------
(* Contacts *)

\* "Add", beside a user who is shown and not among the contacts
AddContact(k, u) ==
    /\ compose = "chat"
    /\ u \in Shown("people")
    /\ contacts[u] = 0
    /\ Begin(k, Request("add", {u}))
    /\ unsure' = (unsure \/ Awaited("contacts") # {})
    /\ UNCHANGED <<compose, search, friends, contacts, opening, busy, made>>

ServeContacts(k) ==
    /\ call[k].op = "contacts" /\ call[k].step = "asked"
    /\ Became(k, [call[k] EXCEPT !.step = "answered", !.users = friends])
    /\ UNCHANGED <<compose, search, friends, dialog>>

GotContacts(k) ==
    /\ call[k].op = "contacts" /\ call[k].step = "answered"
    /\ contacts' = IF call[k].alive THEN [u \in Users |-> IF u \in call[k].users THEN 1 ELSE 0]
                   ELSE contacts
    /\ Became(k, Idle)
    /\ UNCHANGED <<compose, search, friends, opening, busy, made, unsure>>

\* The server refuses a contact that is there already.
ServeAdd(k) ==
    /\ call[k].op = "add" /\ call[k].step = "asked"
    /\ call[k].users \cap friends = {}
    /\ friends' = friends \cup call[k].users
    /\ Became(k, [call[k] EXCEPT !.step = "answered"])
    /\ UNCHANGED <<compose, search, dialog>>

BugAdded(k) ==
    /\ call[k].op = "add" /\ call[k].step = "answered"
    /\ Became(k, Idle)
    /\ UNCHANGED <<compose, search, friends, dialog>>

Added(k) ==
    /\ call[k].op = "add" /\ call[k].step = "answered"
    /\ contacts' = [u \in Users |-> IF call[k].alive /\ u \in call[k].users THEN contacts[u] + 1
                                    ELSE contacts[u]]
    /\ Became(k, Idle)
    /\ UNCHANGED <<compose, search, friends, opening, busy, made, unsure>>

\* Refused or lost, before or after it was done.
ContactCallFails(k) ==
    /\ call[k].op \in {"contacts", "add"}
    /\ Became(k, Idle)
    /\ unsure' = (unsure \/ call[k].op = "contacts" \/ call[k].step = "answered")
    /\ UNCHANGED <<compose, search, friends, contacts, opening, busy, made>>

-------------------------------------------------------------------------------
(* Beginning a conversation *)

\* "Message": open, once at a time for a user.
OpenChat(k, u) ==
    /\ compose = "chat"
    /\ u \in Shown("people") \/ (needle["people"] = NoTerm /\ contacts[u] > 0)
    /\ u \notin opening
    /\ Begin(k, Request("open", {u}))
    /\ opening' = {u}
    /\ UNCHANGED <<compose, search, friends, contacts, busy, made, unsure>>

BugCreate(k) ==
    /\ compose = "group"
    /\ \E u \in Users : contacts[u] > 0
    /\ Begin(k, Request("create", {}))
    /\ busy' = TRUE
    /\ UNCHANGED <<compose, search, friends, contacts, opening, made, unsure>>

\* "Create group", with somebody selected.
Create(k) ==
    /\ compose = "group"
    /\ ~ busy
    /\ \E u \in Users : contacts[u] > 0
    /\ Begin(k, Request("create", {}))
    /\ busy' = TRUE
    /\ UNCHANGED <<compose, search, friends, contacts, opening, made, unsure>>

ServeBegin(k) ==
    /\ call[k].op \in {"open", "create"} /\ call[k].step = "asked"
    /\ Became(k, [call[k] EXCEPT !.step = "answered"])
    /\ made' = IF call[k].op = "create" /\ call[k].alive /\ made < Many THEN made + 1 ELSE made
    /\ UNCHANGED <<compose, search, friends, contacts, opening, busy, unsure>>

\* onClose and router.push: the dialog that is shown by now is closed.
Begun(k) ==
    /\ call[k].op \in {"open", "create"} /\ call[k].step = "answered"
    /\ Closed(k, Idle)
    /\ UNCHANGED friends

BeginFails(k) ==
    /\ call[k].op \in {"open", "create"}
    /\ opening' = IF call[k].op = "open" /\ call[k].alive THEN {} ELSE opening
    /\ busy' = (busy /\ ~ (call[k].op = "create" /\ call[k].alive))
    /\ unsure' = (unsure \/ (call[k].step = "answered" /\ call[k].alive))
    /\ Became(k, Idle)
    /\ UNCHANGED <<compose, search, friends, contacts, made>>

-------------------------------------------------------------------------------

DialogsInit ==
    /\ compose = "none"
    /\ needle = [b \in Boxes |-> NoTerm]
    /\ timer = [b \in Boxes |-> FALSE]
    /\ result = [b \in Boxes |-> Nothing]
    /\ answered = FALSE
    /\ contacts = [u \in Users |-> 0]
    /\ friends \in SUBSET Users
    /\ opening = {}
    /\ busy = FALSE
    /\ call = [k \in Calls |-> Idle]
    /\ made = 0
    /\ unsure = FALSE

Respond(k) ==
    \/ Searched(k)
    \/ ServeContacts(k) \/ GotContacts(k) \/ ServeAdd(k) \/ Added(k) \/ ContactCallFails(k)
    \/ ServeBegin(k) \/ Begun(k) \/ BeginFails(k)

\* What the list, the dialog for a chat and the dialog for a group offer.
InList(k) == Show(k, "chat") \/ Navigate \/ \E t \in Terms \cup {NoTerm} : OnChange("chats", t)

InNewChat(k) ==
    \/ Show(k, "group")
    \/ \E t \in Terms \cup {NoTerm} : OnChange("people", t)
    \/ \E u \in Users : AddContact(k, u) \/ OpenChat(k, u)

User == Close \/ \E k \in Calls : InList(k) \/ InNewChat(k) \/ Create(k)

DialogsNext == User \/ \E k \in Calls : Respond(k) \/ \E b \in Boxes : Search(k, b)

DialogsSpec == DialogsInit /\ [][DialogsNext]_dialogsVars

-------------------------------------------------------------------------------
(* Properties *)

\* The results shown are those of what is typed now, in whichever order the
\* answers come and although the server may be slower for one term.
ResultsMatch ==
    \A b \in Boxes : Shown(b) # {} => needle[b] # NoTerm /\ Shown(b) = Found[needle[b]]

\* The dialog's contacts are the user's, each once, when no call about them is
\* in flight, none failed, and none overlapped another.
ContactsRight ==
    compose = "none" \/ unsure \/ Awaited("contacts") \cup Awaited("add") # {}
    \/ \A u \in Users : contacts[u] = IF u \in friends THEN 1 ELSE 0

\* A dialog creates one group, unless the answer to its creation was lost.
OneGroup == made <= 1 \/ unsure

-------------------------------------------------------------------------------
(* Liveness *)

\* Timeouts fire and calls end, with an answer or without; one day the user has
\* typed and clicked what he wanted to.
LiveSpec ==
    /\ DialogsSpec
    /\ \A b \in Boxes : WF_dialogsVars(\E k \in Calls : Search(k, b))
    /\ \A k \in Calls : WF_dialogsVars(Respond(k))
    /\ <>[][~ User]_dialogsVars

\* A search in the dialog comes to an end: the last term typed gets its answer.
\* (It may then be replaced by the answer to an earlier one, and never come back.)
SearchEnds == <>[](compose = "chat" => answered \/ needle["people"] = NoTerm)
===============================================================================
