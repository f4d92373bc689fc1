---------------------------- MODULE RealtimeProofs ----------------------------
(* One connection per tab, quiet when signed out, and a dot that is right, *)
(* for any number of sockets.                                              *)
EXTENDS Realtime, TLAPS

\* The tab's properties need each other: what a late close sets in motion is
\* harmless only because nothing is connected once the user has signed out.
TabInv ==
    /\ TypeOK
    /\ OneConnection
    /\ QuietWhenSignedOut
    /\ KeptAlive

\* The newest announcement is still to be made, by its socket's handler, or it
\* has been made, and nothing later was decided.
Pending ==
    /\ newest # NoSocket => newest \in Sockets /\ task[newest] \in {"online", "offline"}
    /\ newest # NoSocket => ~ right
    /\ right => view # "unknown"

\* A registered socket is served, and one that is about to announce the user has
\* the newest announcement.
Registered ==
    \A s \in reg : /\ task[s] \in {"online", "loop"}
                   /\ task[s] = "online" => newest = s

\* A user decided to be offline has no socket; a ghost makes the dot anyone's guess.
OfflineMeansGone ==
    /\ newest # NoSocket /\ task[newest] = "offline" => reg = {} /\ ~ ghost
    /\ right /\ view = "offline" => reg = {} /\ ~ ghost
    /\ ghost => ~ right /\ newest = NoSocket

\* A user shown online has a socket, or the handler of the one that was dropped
\* has still to notice.
OnlineMeansHere ==
    right /\ view = "online" =>
        reg # {} \/ \E s \in Sockets : task[s] = "loop" /\ s \notin reg

PresenceInv ==
    /\ Pending
    /\ Registered
    /\ OfflineMeansGone
    /\ OnlineMeansHere

IInv == TabInv /\ PresenceInv

-------------------------------------------------------------------------------
(* The tab *)

\* A socket slot that is opened is one that neither side knew.
LEMMA OpenFacts ==
    ASSUME TypeOK, NEW s \in Sockets, Open(s)
    PROVE  /\ s \notin reg /\ task[s] = "done" /\ s # cur
           /\ cur' = s
           /\ sock' \in [Sockets -> {"connecting", "open", "closing", "closed"}]
           /\ handled' \in [Sockets -> BOOLEAN]
           /\ sock'[s] = "connecting"
           /\ \A x \in Sockets : x # s /\ sock'[x] \in {"connecting", "open"} =>
                  x # cur /\ sock'[x] = sock[x]
           /\ task' = [task EXCEPT ![s] = "none"]
<1>1. s \notin reg /\ task[s] = "done" /\ s # cur
  BY DEF Open, Free
<1>2. /\ cur' = s
      /\ task' = [task EXCEPT ![s] = "none"]
  BY DEF Open
<1>3. sock' = [x \in Sockets |-> IF x = s THEN "connecting"
                                 ELSE IF x = cur /\ sock[x] # "closed" THEN "closing"
                                 ELSE sock[x]]
  BY DEF Open
<1>4. handled' = [x \in Sockets |-> x = s \/ (x # cur /\ handled[x])]
  BY DEF Open
<1>5. sock' \in [Sockets -> {"connecting", "open", "closing", "closed"}]
  BY <1>3 DEF TypeOK
<1>6. \A x \in Sockets : (x = s \/ (x # cur /\ handled[x])) \in BOOLEAN
  OBVIOUS
<1>7. handled' \in [Sockets -> BOOLEAN]
  BY <1>4, <1>6
<1>8. \A x \in Sockets : x # s /\ sock'[x] \in {"connecting", "open"} =>
          x # cur /\ sock'[x] = sock[x]
  BY <1>3
<1>9. sock'[s] = "connecting"
  BY <1>3
<1> QED
  BY <1>1, <1>2, <1>5, <1>7, <1>8, <1>9

\* A connection that is opened leaves no second one.
LEMMA OpenKeeps ==
    ASSUME TabInv, NEW s \in Sockets, Open(s)
    PROVE  OneConnection' /\ KeptAlive'
<1>1. TypeOK /\ OneConnection
  BY DEF TabInv
<1>2. /\ cur' = s /\ sock'[s] = "connecting"
      /\ \A x \in Sockets : x # s /\ sock'[x] \in {"connecting", "open"} =>
             x # cur /\ sock'[x] = sock[x]
  BY <1>1, OpenFacts
<1>3. OneConnection'
  BY <1>1, <1>2 DEF OneConnection, Live
<1>4. KeptAlive'
  BY <1>2 DEF KeptAlive
<1> QED
  BY <1>3, <1>4

\* No step of the client or of the server breaks the tab's part.
LEMMA TabKept == TabInv /\ [Next]_vars => TabInv'
<1> SUFFICES ASSUME TabInv, [Next]_vars PROVE TabInv'
  OBVIOUS
<1>0. TypeOK /\ OneConnection /\ QuietWhenSignedOut /\ KeptAlive
  BY DEF TabInv
<1>1. CASE SignIn
  <2>1. PICK s \in Sockets : Open(s)
    BY <1>1 DEF SignIn
  <2>2. session' = TRUE /\ valid' = TRUE /\ timer' = timer /\ beat' = beat /\ server' = server
    BY <1>1 DEF SignIn
  <2>3. TypeOK'
    BY <1>0, <2>1, <2>2, OpenFacts DEF TypeOK, server
  <2>4. QuietWhenSignedOut'
    BY <2>2 DEF QuietWhenSignedOut
  <2> QED
    BY <2>1, <2>3, <2>4, OpenKeeps DEF TabInv
<1>2. CASE Reconnect
  <2>1. PICK s \in Sockets : Open(s)
    BY <1>2 DEF Reconnect
  <2>2. /\ timer /\ timer' = FALSE
        /\ session' = session /\ valid' = valid /\ beat' = beat /\ server' = server
    BY <1>2 DEF Reconnect
  <2>3. TypeOK'
    BY <1>0, <2>1, <2>2, OpenFacts DEF TypeOK, server
  <2>4. session
    BY <1>0, <2>2 DEF QuietWhenSignedOut
  <2>5. QuietWhenSignedOut'
    BY <2>2, <2>4 DEF QuietWhenSignedOut
  <2> QED
    BY <2>1, <2>3, <2>5, OpenKeeps DEF TabInv
<1>3. CASE SignOut
  <2>1. /\ session' = FALSE /\ timer' = FALSE /\ beat' = FALSE /\ cur' = NoSocket
        /\ sock' = [x \in Sockets |-> IF x = cur /\ sock[x] # "closed" THEN "closing" ELSE sock[x]]
        /\ UNCHANGED <<valid, handled, task, server>>
    BY <1>3 DEF SignOut, ClearTimers
  <2>2. TypeOK'
    BY <1>0, <2>1 DEF TypeOK, server
  <2>3. Live' = {}
    BY <1>0, <2>1 DEF OneConnection, Live, TypeOK
  <2>4. OneConnection' /\ QuietWhenSignedOut' /\ KeptAlive'
    BY <2>1, <2>3, NoSocketAssumption DEF OneConnection, QuietWhenSignedOut, KeptAlive
  <2> QED
    BY <2>2, <2>4 DEF TabInv
<1>4. CASE Expire
  BY <1>0, <1>4 DEF TabInv, Expire, TypeOK, OneConnection, QuietWhenSignedOut, KeptAlive, Live, server
<1>5. CASE OnOpen
  <2>1. /\ cur # NoSocket /\ sock[cur] = "connecting" /\ beat' = TRUE
        /\ sock' = [sock EXCEPT ![cur] = "open"]
        /\ UNCHANGED <<session, valid, cur, timer, handled, task, server>>
    BY <1>5 DEF OnOpen, StartHeartbeat
  <2>2. cur \in Live
    BY <1>0, <2>1 DEF Live, TypeOK
  <2>3. TypeOK'
    BY <1>0, <2>1 DEF TypeOK, server
  <2>4. Live' \subseteq {cur}
    BY <1>0, <2>1 DEF OneConnection, Live, TypeOK
  <2>5. OneConnection' /\ QuietWhenSignedOut' /\ KeptAlive'
    BY <1>0, <2>1, <2>2, <2>4 DEF OneConnection, QuietWhenSignedOut, KeptAlive
  <2> QED
    BY <2>3, <2>5 DEF TabInv
<1>6. ASSUME NEW s \in Sockets, OnClose(s) PROVE TabInv'
  <2>1. /\ sock' = [sock EXCEPT ![s] = "closed"]
        /\ task' = [task EXCEPT ![s] = IF task[s] = "none" THEN "done" ELSE task[s]]
        /\ handled' = [handled EXCEPT ![s] = FALSE]
        /\ UNCHANGED <<session, valid, cur, server>>
        /\ \/ beat' = FALSE /\ timer' = session
           \/ beat' = beat /\ timer' = timer
    BY <1>6 DEF OnClose
  <2>2. TypeOK'
    BY <1>0, <2>1 DEF TypeOK, server
  <2>3. Live' \subseteq Live /\ (cur \in Sockets /\ sock'[cur] = "open" => sock[cur] = "open")
    BY <1>0, <2>1 DEF Live, TypeOK
  <2>4. cur \in Sockets /\ sock[cur] = "open" => session
    BY <1>0 DEF QuietWhenSignedOut, Live
  <2>5. OneConnection' /\ QuietWhenSignedOut' /\ KeptAlive'
    BY <1>0, <2>1, <2>3, <2>4 DEF OneConnection, QuietWhenSignedOut, KeptAlive
  <2> QED
    BY <2>2, <2>5 DEF TabInv
<1>7. ASSUME client' = client, TypeOK' PROVE TabInv'
  BY <1>0, <1>7 DEF TabInv, OneConnection, QuietWhenSignedOut, KeptAlive, Live, client
<1>8. CASE Server
  <2>1. client' = client
    BY <1>8 DEF Server, Drop, Admit, Announce, AnnounceFails, Leave
  <2>2. ASSUME NEW s \in Sockets, Admit(s) PROVE TypeOK'
    BY <1>0, <2>1, <2>2 DEF Admit, Decide, TypeOK, client
  <2>3. ASSUME NEW s \in Sockets, Announce(s) PROVE TypeOK'
    <3>1. task[s] \in {"online", "offline"} /\ task[s] \in {"unknown", "online", "offline"}
      BY <2>3 DEF Announce
    <3>2. view' \in {"unknown", "online", "offline"} /\ right' \in BOOLEAN
      BY <2>3, <3>1 DEF Announce, SetPresence
    <3>3. newest' \in Sockets \cup {NoSocket}
      BY <1>0, <2>3 DEF Announce, TypeOK
    <3>4. task' \in [Sockets -> {"none", "online", "loop", "offline", "done"}]
      BY <1>0, <2>3 DEF Announce, TypeOK
    <3>5. reg' = reg /\ ghost' = ghost
      BY <2>3 DEF Announce
    <3> QED
      BY <1>0, <2>1, <3>2, <3>3, <3>4, <3>5 DEF TypeOK, client
  <2>4. ASSUME NEW s \in Sockets, AnnounceFails(s) PROVE TypeOK'
    <3>1. ghost' \in BOOLEAN
      BY <1>0, <2>4 DEF AnnounceFails, TypeOK
    <3>2. newest' \in Sockets \cup {NoSocket}
      BY <1>0, <2>4 DEF AnnounceFails, TypeOK
    <3>3. /\ reg' \subseteq Sockets
          /\ task' \in [Sockets -> {"none", "online", "loop", "offline", "done"}]
          /\ view' = view /\ right' = right
      BY <1>0, <2>4 DEF AnnounceFails, TypeOK
    <3> QED
      BY <1>0, <2>1, <3>1, <3>2, <3>3 DEF TypeOK, client
  <2>5. ASSUME NEW s \in Sockets, Leave(s) PROVE TypeOK'
    BY <1>0, <2>1, <2>5 DEF Leave, Decide, TypeOK, client
  <2>6. ASSUME Drop PROVE TypeOK'
    <3>1. /\ reg' \subseteq reg
          /\ ghost' = ghost \/ ghost' = FALSE
      BY <2>6 DEF Drop
    <3>2. task' = task /\ view' = view /\ newest' = newest /\ right' = right
      BY <2>6 DEF Drop
    <3> QED
      BY <1>0, <2>1, <3>1, <3>2 DEF TypeOK, client
  <2> QED
    BY <1>7, <1>8, <2>1, <2>2, <2>3, <2>4, <2>5, <2>6 DEF Server
<1>9. CASE UNCHANGED vars
  BY <1>0, <1>7, <1>9 DEF vars, TypeOK, client, server
<1> QED
  BY <1>1, <1>2, <1>3, <1>4, <1>5, <1>6, <1>8, <1>9 DEF Next, Client

-------------------------------------------------------------------------------
(* The dot *)

\* The client's steps leave the announcements alone.
LEMMA ClientKeepsPresence ==
    ASSUME TypeOK, PresenceInv, server' = server,
           task' \in [Sockets -> {"none", "online", "loop", "offline", "done"}],
           \A s \in Sockets : task[s] \notin {"none", "done"} => task'[s] = task[s],
           \A s \in Sockets : task[s] \in {"none", "done"} => task'[s] \in {"none", "done"}
    PROVE  PresenceInv'
<1>1. /\ reg' = reg /\ ghost' = ghost /\ view' = view /\ newest' = newest /\ right' = right
  BY DEF server
<1>2. Pending'
  BY <1>1 DEF PresenceInv, Pending
<1>3. Registered'
  BY <1>1 DEF PresenceInv, Registered, TypeOK
<1>4. OfflineMeansGone'
  BY <1>1 DEF PresenceInv, Pending, OfflineMeansGone
<1>5. OnlineMeansHere'
  BY <1>1 DEF PresenceInv, OnlineMeansHere
<1> QED
  BY <1>2, <1>3, <1>4, <1>5 DEF PresenceInv

\* accept, registry.add, and the decision to announce.
LEMMA AdmitKeepsPresence ==
    ASSUME TypeOK, PresenceInv, NEW s \in Sockets, Admit(s)
    PROVE  PresenceInv'
<1>1. task[s] = "none" /\ s \notin reg /\ newest # s
  BY NoSocketAssumption DEF Admit, PresenceInv, Registered, Pending
<1>2. CASE reg = {} /\ ~ ghost
  <2>1. /\ reg' = {s} /\ ghost' = FALSE /\ view' = view /\ newest' = s /\ right' = FALSE
        /\ task' = [task EXCEPT ![s] = "online"]
    BY <1>2 DEF Admit, Decide, TypeOK
  <2>2. task'[s] = "online"
    BY <2>1 DEF TypeOK
  <2>3. Pending' /\ Registered'
    BY <2>1, <2>2 DEF Pending, Registered
  <2>4. OfflineMeansGone' /\ OnlineMeansHere'
    BY <2>1, <2>2 DEF OfflineMeansGone, OnlineMeansHere
  <2> QED
    BY <2>3, <2>4 DEF PresenceInv
<1>3. CASE ~ (reg = {} /\ ~ ghost)
  <2>1. /\ reg' = reg \cup {s} /\ ghost' = ghost /\ view' = view
        /\ newest' = newest /\ right' = right
        /\ task' = [task EXCEPT ![s] = "loop"]
    BY <1>3 DEF Admit
  <2>2. /\ task'[s] = "loop"
        /\ \A x \in Sockets : x # s => task'[x] = task[x]
    BY <2>1 DEF TypeOK
  <2>3. Pending'
    BY <1>1, <2>1, <2>2 DEF PresenceInv, Pending
  <2>4. Registered'
    BY <2>1, <2>2 DEF PresenceInv, Registered, TypeOK
  <2>5. OfflineMeansGone'
    BY <1>1, <1>3, <2>1, <2>2 DEF PresenceInv, Pending, OfflineMeansGone
  <2>6. OnlineMeansHere'
    BY <2>1 DEF OnlineMeansHere
  <2> QED
    BY <2>3, <2>4, <2>5, <2>6 DEF PresenceInv
<1> QED
  BY <1>2, <1>3

\* An announcement is made and shown.
LEMMA AnnounceKeepsPresence ==
    ASSUME TypeOK, PresenceInv, NEW s \in Sockets, Announce(s)
    PROVE  PresenceInv'
<1>1. /\ task[s] \in {"online", "offline"} /\ view' = task[s]
      /\ reg' = reg /\ ghost' = ghost
      /\ right' = (newest = s)
      /\ newest' = IF newest = s THEN NoSocket ELSE newest
  BY DEF Announce, SetPresence
<1>2. /\ task'[s] = IF task[s] = "online" THEN "loop" ELSE "done"
      /\ \A x \in Sockets : x # s => task'[x] = task[x]
  BY DEF Announce, TypeOK
<1>3. s # NoSocket
  BY NoSocketAssumption
<1>4. Pending'
  BY <1>1, <1>2, <1>3 DEF PresenceInv, Pending
<1>5. Registered'
  BY <1>1, <1>2 DEF PresenceInv, Registered, TypeOK
<1>6. OfflineMeansGone'
  BY <1>1, <1>2, <1>3 DEF PresenceInv, Pending, OfflineMeansGone
<1>7. OnlineMeansHere'
  BY <1>1, <1>2 DEF OnlineMeansHere
<1> QED
  BY <1>4, <1>5, <1>6, <1>7 DEF PresenceInv

\* An announcement is never made.
LEMMA FailureKeepsPresence ==
    ASSUME TypeOK, PresenceInv, NEW s \in Sockets, AnnounceFails(s)
    PROVE  PresenceInv'
<1>1. /\ task[s] \in {"online", "offline"} /\ view' = view /\ right' = right
      /\ reg' = reg \ {s}
      /\ ghost' = (ghost \/ (task[s] = "online" /\ s \in reg))
      /\ newest' = IF newest = s THEN NoSocket ELSE newest
  BY DEF AnnounceFails
<1>2. /\ task'[s] = "done"
      /\ \A x \in Sockets : x # s => task'[x] = task[x]
  BY DEF AnnounceFails, TypeOK
<1>3. s \in reg /\ task[s] = "online" => newest = s
  BY DEF PresenceInv, Registered
<1>4. s \in reg => task[s] = "online"
  BY <1>1 DEF PresenceInv, Registered
<1>5. s # NoSocket
  BY NoSocketAssumption
<1>6. Pending'
  BY <1>1, <1>2 DEF PresenceInv, Pending
<1>7. Registered'
  BY <1>1, <1>2 DEF PresenceInv, Registered, TypeOK
<1>8. OfflineMeansGone'
  <2>1. ghost' => ~ right' /\ newest' = NoSocket
    BY <1>1, <1>3, <1>5 DEF PresenceInv, Pending, OfflineMeansGone
  <2>2. (reg = {} /\ ~ ghost) => (reg' = {} /\ ~ ghost')
    BY <1>1
  <2>3. newest' # NoSocket => newest' = newest /\ newest # s /\ newest \in Sockets
    BY <1>1 DEF PresenceInv, Pending
  <2>4. newest' # NoSocket /\ task'[newest'] = "offline" => reg' = {} /\ ~ ghost'
    BY <1>2, <2>2, <2>3 DEF PresenceInv, OfflineMeansGone
  <2>5. right' /\ view' = "offline" => reg' = {} /\ ~ ghost'
    BY <1>1, <2>2 DEF PresenceInv, OfflineMeansGone
  <2> QED
    BY <2>1, <2>4, <2>5 DEF OfflineMeansGone
<1>9. OnlineMeansHere'
  BY <1>1, <1>2, <1>3, <1>4, <1>5 DEF PresenceInv, Pending, OnlineMeansHere
<1> QED
  BY <1>6, <1>7, <1>8, <1>9 DEF PresenceInv

\* A handler's loop ends.
LEMMA LeaveKeepsPresence ==
    ASSUME TypeOK, PresenceInv, NEW s \in Sockets, Leave(s)
    PROVE  PresenceInv'
<1>1. task[s] = "loop" /\ reg' = reg \ {s} /\ ghost' = ghost /\ view' = view
  BY DEF Leave
<1>2. newest # s
  BY <1>1, NoSocketAssumption DEF PresenceInv, Pending
<1>3. CASE reg \subseteq {s} /\ ~ ghost
  <2>1. /\ reg' = {} /\ newest' = s /\ right' = FALSE
        /\ task' = [task EXCEPT ![s] = "offline"]
    BY <1>1, <1>3 DEF Leave, Decide
  <2>2. task'[s] = "offline"
    BY <2>1 DEF TypeOK
  <2> QED
    BY <1>1, <1>3, <2>1, <2>2 DEF PresenceInv, Pending, Registered, OfflineMeansGone, OnlineMeansHere
<1>4. CASE ~ (reg \subseteq {s} /\ ~ ghost)
  <2>1. newest' = newest /\ right' = right /\ task' = [task EXCEPT ![s] = "done"]
    BY <1>4 DEF Leave
  <2>2. /\ task'[s] = "done"
        /\ \A x \in Sockets : x # s => task'[x] = task[x]
    BY <2>1 DEF TypeOK
  <2>3. Pending'
    BY <1>1, <1>2, <2>1, <2>2 DEF PresenceInv, Pending
  <2>4. Registered'
    BY <1>1, <2>1, <2>2 DEF PresenceInv, Registered, TypeOK
  <2>5. OfflineMeansGone'
    BY <1>1, <1>2, <2>1, <2>2 DEF PresenceInv, Pending, OfflineMeansGone
  <2>6. right => ~ ghost
    BY DEF PresenceInv, OfflineMeansGone
  <2>7. OnlineMeansHere'
    BY <1>1, <1>4, <2>1, <2>6 DEF OnlineMeansHere
  <2> QED
    BY <2>3, <2>4, <2>5, <2>7 DEF PresenceInv
<1> QED
  BY <1>3, <1>4

\* A dead socket is dropped without an announcement.
LEMMA DropKeepsPresence ==
    ASSUME TypeOK, PresenceInv, Drop
    PROVE  PresenceInv'
<1>1. task' = task /\ view' = view /\ newest' = newest /\ right' = right
  BY DEF Drop
<1>2. /\ reg' \subseteq reg
      /\ ghost' => ghost
  BY DEF Drop
<1>3. Pending' /\ Registered' /\ OfflineMeansGone'
  BY <1>1, <1>2 DEF PresenceInv, Pending, Registered, OfflineMeansGone
<1>4. ASSUME NEW s \in reg, reg' = reg \ {s}, right PROVE \E x \in Sockets : task'[x] = "loop" /\ x \notin reg'
  <2>1. task[s] = "loop"
    BY <1>4, NoSocketAssumption DEF PresenceInv, Pending, Registered, TypeOK
  <2> QED
    BY <1>1, <1>4, <2>1 DEF TypeOK
<1>5. reg' = reg => OnlineMeansHere'
  BY <1>1 DEF PresenceInv, OnlineMeansHere
<1>6. reg' = reg \/ \E s \in reg : reg' = reg \ {s}
  BY DEF Drop
<1>7. OnlineMeansHere'
  BY <1>1, <1>4, <1>5, <1>6 DEF OnlineMeansHere
<1> QED
  BY <1>3, <1>7 DEF PresenceInv

\* Every step keeps the presence, the tab's as well as the server's.
LEMMA PresenceKept == TabInv /\ PresenceInv /\ [Next]_vars => PresenceInv'
<1> SUFFICES ASSUME TabInv, PresenceInv, [Next]_vars PROVE PresenceInv'
  OBVIOUS
<1>1. TypeOK /\ TypeOK'
  BY TabKept DEF TabInv
<1>2. ASSUME task' = task, server' = server PROVE PresenceInv'
  BY <1>1, <1>2, ClientKeepsPresence DEF TypeOK
<1>3. ASSUME NEW s \in Sockets, Open(s), server' = server PROVE PresenceInv'
  <2>1. task[s] = "done" /\ task' = [task EXCEPT ![s] = "none"]
    BY <1>1, <1>3, OpenFacts
  <2> QED
    BY <1>1, <1>3, <2>1, ClientKeepsPresence DEF TypeOK
<1>4. ASSUME NEW s \in Sockets, OnClose(s) PROVE PresenceInv'
  <2>1. /\ server' = server
        /\ task' = [task EXCEPT ![s] = IF task[s] = "none" THEN "done" ELSE task[s]]
    BY <1>4 DEF OnClose
  <2> QED
    BY <1>1, <2>1, ClientKeepsPresence DEF TypeOK
<1>5. CASE Client
  <2>1. CASE SignIn \/ Reconnect
    BY <1>3, <2>1 DEF SignIn, Reconnect
  <2>2. CASE SignOut \/ Expire \/ OnOpen
    BY <1>2, <2>2 DEF SignOut, Expire, OnOpen, ClearTimers, StartHeartbeat
  <2> QED
    BY <1>4, <1>5, <2>1, <2>2 DEF Client
<1>6. CASE Server
  BY <1>1, <1>6, AdmitKeepsPresence, AnnounceKeepsPresence, FailureKeepsPresence,
     LeaveKeepsPresence, DropKeepsPresence DEF Server
<1>7. CASE UNCHANGED vars
  BY <1>2, <1>7 DEF vars
<1> QED
  BY <1>5, <1>6, <1>7 DEF Next

-------------------------------------------------------------------------------

\* At first there is no socket.
LEMMA InitIInv == Init => IInv
<1> SUFFICES ASSUME Init PROVE IInv
  OBVIOUS
<1>1. TypeOK
  BY DEF Init, TypeOK
<1>2. OneConnection /\ QuietWhenSignedOut /\ KeptAlive
  BY DEF Init, OneConnection, QuietWhenSignedOut, KeptAlive, Live
<1>3. PresenceInv
  BY DEF Init, PresenceInv, Pending, Registered, OfflineMeansGone, OnlineMeansHere
<1> QED
  BY <1>1, <1>2, <1>3 DEF IInv, TabInv

\* Both halves hold in every state that can be reached.
LEMMA Inductive == Spec => []IInv
<1>1. IInv /\ [Next]_vars => IInv'
  BY TabKept, PresenceKept DEF IInv
<1> QED
  BY InitIInv, <1>1, PTL DEF Spec

\* The variables of the tab, the server and the peer keep their types.
THEOREM TypeCorrect == Spec => []TypeOK
<1>1. IInv => TypeOK
  BY DEF IInv, TabInv
<1> QED
  BY Inductive, <1>1, PTL

\* However timers and late closes meet, a tab has at most one live connection.
THEOREM AtMostOneConnection == Spec => []OneConnection
<1>1. IInv => OneConnection
  BY DEF IInv, TabInv
<1> QED
  BY Inductive, <1>1, PTL

\* A signed-out tab is connected to nothing, and no timer will connect it.
THEOREM SignedOutIsQuiet == Spec => []QuietWhenSignedOut
<1>1. IInv => QuietWhenSignedOut
  BY DEF IInv, TabInv
<1> QED
  BY Inductive, <1>1, PTL

\* An open connection has a heartbeat, or is about to be replaced.
THEOREM OpenIsKeptAlive == Spec => []KeptAlive
<1>1. IInv => KeptAlive
  BY DEF IInv, TabInv
<1> QED
  BY Inductive, <1>1, PTL

\* With the server at rest and its last announcement shown last, the dot is right.
THEOREM DotIsRight == Spec => []PresenceRight
<1>1. IInv => PresenceRight
  <2> SUFFICES ASSUME IInv, Resting, right, ~ ghost
               PROVE  view = IF reg = {} THEN "offline" ELSE "online"
    BY DEF PresenceRight
  <2>1. view = "offline" => reg = {}
    BY DEF IInv, PresenceInv, OfflineMeansGone
  <2>2. view = "online" => reg # {}
    BY DEF IInv, PresenceInv, OnlineMeansHere, Resting
  <2>3. view \in {"online", "offline"}
    BY DEF IInv, TabInv, TypeOK, PresenceInv, Pending
  <2> QED
    BY <2>1, <2>2, <2>3
<1> QED
  BY Inductive, <1>1, PTL
===============================================================================
