------------------------------- MODULE Realtime -------------------------------
(***************************************************************************)
(* The connection of a tab and the presence it gives its user: the client  *)
(* that opens, keeps and reopens a socket (ws/client.ts, useRealtime.ts),  *)
(* the handler that serves each socket (realtime/handler.py), the registry *)
(* of the sockets (realtime/registry.py), and the dot that another user    *)
(* sees (store/presence.ts).                                               *)
(*                                                                         *)
(* A step is what runs between two awaits or callbacks.  Sockets are slots *)
(* that are used again when neither side knows them any more.              *)
(*                                                                         *)
(* Abstracted: the delays of reconnection; the frames; the interval of a   *)
(* heartbeat that a later one replaced; one user who connects, and one     *)
(* peer who is always connected.                                           *)
(*                                                                         *)
(* A definition named Bug... is the next one with a plausible mistake in   *)
(* it; the runs use it only to show that a property can fail.              *)
(***************************************************************************)
CONSTANTS Sockets,
          NoSocket

ASSUME NoSocketAssumption == NoSocket \notin Sockets

VARIABLES session,  \* authenticated, and so not closedByUs
          valid,    \* this.token has not expired
          cur,      \* this.socket
          timer,    \* reconnectTimer is armed
          beat,     \* heartbeat runs
          sock,     \* per socket: readyState
          handled,  \* per socket: onclose is attached
          task,     \* per socket: where its handler stands on the server
          reg,      \* registry: the sockets of the user
          ghost,    \* registry: also holds a socket whose handler has ended
          view,     \* presence of the user in the peer's store
          newest,   \* history: the socket with the newest announcement to be made
          right     \* history: the peer has seen the newest announcement last

client == <<session, valid, cur, timer, beat, sock, handled>>
server == <<reg, ghost, view, newest, right>>
vars == <<client, task, server>>

Live == {s \in Sockets : sock[s] \in {"connecting", "open"}}

-------------------------------------------------------------------------------
(* The tab *)

Free == {s \in Sockets \ (reg \cup {cur}) : sock[s] = "closed" /\ task[s] = "done"}

BugOpen(s) ==
    /\ s \in Free
    /\ cur' = s
    /\ sock' = [x \in Sockets |-> IF x = s THEN "connecting"
                                  ELSE IF x = cur /\ sock[x] = "open" THEN "closing"
                                  ELSE sock[x]]
    /\ handled' = [x \in Sockets |-> x = s \/ (x # cur /\ handled[x])]
    /\ task' = [task EXCEPT ![s] = "none"]

\* open: the socket it replaces is closed, and heard of no more.
Open(s) ==
    /\ s \in Free
    /\ cur' = s
    /\ sock' = [x \in Sockets |-> IF x = s THEN "connecting"
                                  ELSE IF x = cur /\ sock[x] # "closed" THEN "closing"
                                  ELSE sock[x]]
    /\ handled' = [x \in Sockets |-> x = s \/ (x # cur /\ handled[x])]
    /\ task' = [task EXCEPT ![s] = "none"]

\* The session is restored or begins: useRealtime connects.
SignIn ==
    /\ ~ session
    /\ session' = TRUE
    /\ valid' = TRUE
    /\ \E s \in Sockets : Open(s)
    /\ UNCHANGED <<timer, beat, server>>

ClearTimers == timer' = FALSE /\ beat' = FALSE

StartHeartbeat == beat' = TRUE

BugSignOut ==
    /\ session
    /\ session' = FALSE
    /\ cur' = NoSocket
    /\ sock' = [x \in Sockets |-> IF x = cur /\ sock[x] # "closed" THEN "closing" ELSE sock[x]]
    /\ UNCHANGED <<valid, handled, task, server, timer, beat>>

\* The effect is cleaned up: disconnect.  onclose stays attached.
SignOut ==
    /\ session
    /\ session' = FALSE
    /\ ClearTimers
    /\ cur' = NoSocket
    /\ sock' = [x \in Sockets |-> IF x = cur /\ sock[x] # "closed" THEN "closing" ELSE sock[x]]
    /\ UNCHANGED <<valid, handled, task, server>>

\* A refresh gives the API calls a new access token, and the socket client none.
Expire ==
    /\ valid
    /\ valid' = FALSE
    /\ UNCHANGED <<session, cur, timer, beat, sock, handled, task, server>>

BugOnOpen ==
    /\ cur # NoSocket
    /\ sock[cur] = "connecting"
    /\ task[cur] # "none"
    /\ sock' = [sock EXCEPT ![cur] = "open"]
    /\ beat' = FALSE
    /\ timer' = FALSE
    /\ UNCHANGED <<session, valid, cur, handled, task, server>>

\* onopen
OnOpen ==
    /\ cur # NoSocket
    /\ sock[cur] = "connecting"
    /\ task[cur] # "none"
    /\ sock' = [sock EXCEPT ![cur] = "open"]
    /\ StartHeartbeat
    /\ UNCHANGED <<session, valid, cur, timer, handled, task, server>>

BugOnClose(s) ==
    /\ sock[s] # "closed"
    /\ sock' = [sock EXCEPT ![s] = "closed"]
    /\ task' = [task EXCEPT ![s] = IF @ = "none" THEN "done" ELSE @]
    /\ IF handled[s] THEN beat' = FALSE /\ timer' = FALSE ELSE UNCHANGED <<beat, timer>>
    /\ handled' = [handled EXCEPT ![s] = FALSE]
    /\ UNCHANGED <<session, valid, cur, server>>

\* onclose: refused, broken, or closed at last.  It is also the close of a socket
\* that disconnect left behind, whatever has been opened since.
OnClose(s) ==
    /\ sock[s] # "closed"
    /\ sock' = [sock EXCEPT ![s] = "closed"]
    /\ task' = [task EXCEPT ![s] = IF @ = "none" THEN "done" ELSE @]
    /\ IF handled[s] THEN beat' = FALSE /\ timer' = session ELSE UNCHANGED <<beat, timer>>
    /\ handled' = [handled EXCEPT ![s] = FALSE]
    /\ UNCHANGED <<session, valid, cur, server>>

\* scheduleReconnect's timeout
Reconnect ==
    /\ timer
    /\ timer' = FALSE
    /\ \E s \in Sockets : Open(s)
    /\ UNCHANGED <<session, valid, beat, server>>

-------------------------------------------------------------------------------
(* The server *)

\* The user becomes online or goes offline: s announces it, after other awaits.
Decide(s, state) ==
    /\ task' = [task EXCEPT ![s] = state]
    /\ newest' = s
    /\ right' = FALSE

\* accept and registry.add
Admit(s) ==
    /\ task[s] = "none"
    /\ sock[s] \in {"connecting", "closing"}
    /\ valid
    /\ reg' = reg \cup {s}
    /\ IF reg = {} /\ ~ ghost
       THEN Decide(s, "online")
       ELSE task' = [task EXCEPT ![s] = "loop"] /\ UNCHANGED <<newest, right>>
    /\ UNCHANGED <<client, ghost, view>>

\* setPresence, in the peer's store
SetPresence(state) == view' = state

\* announce publishes, and the peer handles the event.
Announce(s) ==
    /\ task[s] \in {"online", "offline"}
    /\ SetPresence(task[s])
    /\ right' = (newest = s)
    /\ newest' = IF newest = s THEN NoSocket ELSE newest
    /\ task' = [task EXCEPT ![s] = IF task[s] = "online" THEN "loop" ELSE "done"]
    /\ UNCHANGED <<client, reg, ghost>>

\* announce raises; outside the try the socket stays in the registry.
AnnounceFails(s) ==
    /\ task[s] \in {"online", "offline"}
    /\ task' = [task EXCEPT ![s] = "done"]
    /\ reg' = reg \ {s}
    /\ ghost' = (ghost \/ (task[s] = "online" /\ s \in reg))
    /\ newest' = IF newest = s THEN NoSocket ELSE newest
    /\ UNCHANGED <<client, view, right>>

BugLeave(s) ==
    /\ task[s] = "loop"
    /\ reg' = reg \ {s}
    /\ Decide(s, "offline")
    /\ UNCHANGED <<client, ghost, view>>

\* The loop ends, and registry.remove says whether the user has gone.
Leave(s) ==
    /\ task[s] = "loop"
    /\ reg' = reg \ {s}
    /\ IF reg \subseteq {s} /\ ~ ghost
       THEN Decide(s, "offline")
       ELSE task' = [task EXCEPT ![s] = "done"] /\ UNCHANGED <<newest, right>>
    /\ UNCHANGED <<client, ghost, view>>

\* registry._drop, when sending an event to a dead socket failed.
Drop ==
    /\ \/ \E s \in reg : sock[s] = "closed" /\ reg' = reg \ {s} /\ UNCHANGED ghost
       \/ ghost /\ ghost' = FALSE /\ UNCHANGED reg
    /\ UNCHANGED <<client, task, view, newest, right>>

-------------------------------------------------------------------------------

Init ==
    /\ session = FALSE
    /\ valid = FALSE
    /\ cur = NoSocket
    /\ timer = FALSE
    /\ beat = FALSE
    /\ sock = [s \in Sockets |-> "closed"]
    /\ handled = [s \in Sockets |-> FALSE]
    /\ task = [s \in Sockets |-> "done"]
    /\ reg = {}
    /\ ghost = FALSE
    /\ view = "unknown"
    /\ newest = NoSocket
    /\ right = FALSE

Client == SignIn \/ SignOut \/ Expire \/ OnOpen \/ Reconnect \/ \E s \in Sockets : OnClose(s)

Server == Drop \/ \E s \in Sockets : Admit(s) \/ Announce(s) \/ AnnounceFails(s) \/ Leave(s)

Next == Client \/ Server

Spec == Init /\ [][Next]_vars

-------------------------------------------------------------------------------
(* Properties *)

TypeOK ==
    /\ session \in BOOLEAN /\ valid \in BOOLEAN /\ timer \in BOOLEAN /\ beat \in BOOLEAN
    /\ cur \in Sockets \cup {NoSocket}
    /\ sock \in [Sockets -> {"connecting", "open", "closing", "closed"}]
    /\ handled \in [Sockets -> BOOLEAN]
    /\ task \in [Sockets -> {"none", "online", "loop", "offline", "done"}]
    /\ reg \subseteq Sockets
    /\ ghost \in BOOLEAN
    /\ view \in {"unknown", "online", "offline"}
    /\ newest \in Sockets \cup {NoSocket}
    /\ right \in BOOLEAN

\* A tab never has a second live connection, whichever timers and late closes
\* meet: its events would be handled twice.
OneConnection == Live \subseteq {cur}

\* A signed-out tab is quiet: nothing is connected, nothing beats, and no timer
\* will connect again, even if the close of its socket comes late.
QuietWhenSignedOut == ~ session => Live = {} /\ ~ timer /\ ~ beat

\* An open connection is kept alive by a heartbeat; where a late close stopped
\* it, the connection is about to be replaced.
KeptAlive == cur \in Sockets /\ sock[cur] = "open" => beat \/ timer

Resting == \A s \in Sockets : task[s] \in {"none", "done"} \/ (task[s] = "loop" /\ s \in reg)

\* The dot is right when the server is at rest and the last announcement made
\* is the last one shown: a user with a socket is online, and one without is not.
PresenceRight ==
    Resting /\ right /\ ~ ghost => view = IF reg = {} THEN "offline" ELSE "online"

-------------------------------------------------------------------------------
(* Liveness *)

\* Timers fire, a connection attempt ends, the server's tasks go on and notice
\* that a socket is gone; and of the attempts made again and again one succeeds.
LiveSpec ==
    /\ Spec
    /\ WF_vars(Reconnect) /\ SF_vars(OnOpen)
    /\ \A s \in Sockets :
          /\ WF_vars(sock[s] \in {"connecting", "closing"} /\ OnClose(s))
          /\ SF_vars(sock[s] = "connecting" /\ Admit(s))
          /\ WF_vars(Announce(s) \/ AnnounceFails(s))
          /\ WF_vars(sock[s] = "closed" /\ Leave(s))

\* While the user is signed in and the token lasts, the connection comes back
\* after whatever broke it.
ComesBack == (session /\ valid) ~> (~ session \/ ~ valid \/ (cur \in Sockets /\ sock[cur] = "open"))
===============================================================================
