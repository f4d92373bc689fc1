-------------------------- MODULE AuthSessionsProofs --------------------------
(* Rotation neither ends a session nor leaves one behind, as long as calls do *)
(* not overlap, and forks a token only when they do.                          *)
EXTENDS AuthSessions, TLAPS

\* The fields of a call, and what is not one.
LEMMA CallFields ==
    /\ \A q \in Call : /\ q.step \in Steps /\ q.tab \in Tabs /\ q.token \in Nat
                       /\ q.next \in Nat /\ q.given_up \in BOOLEAN
                       /\ q # Idle /\ q.step # "idle"
    /\ Idle.step = "idle"
  BY DEF Call, Steps, Idle

\* A call in flight belongs to a tab of a device.
LEMMA BusyCall ==
    ASSUME TypeOK, NEW c \in Calls, Busy(c)
    PROVE  call[c] \in Call /\ Home(c) \in Devices
  BY CallFields, DeviceAssumption DEF TypeOK, Busy, Home

\* A call that goes on or ends.
LEMMA StepCall ==
    ASSUME TypeOK, NEW c \in Calls, NEW q \in Call \cup {Idle},
           call' = [call EXCEPT ![c] = q]
    PROVE  /\ call'[c] = q
           /\ call' \in [Calls -> Call \cup {Idle}]
           /\ \A b \in Calls \ {c} : call'[b] = call[b]
  BY DEF TypeOK

-------------------------------------------------------------------------------
(* Types *)

\* Revoking a session or all of them leaves the rest of the rows alone.
LEMMA Revoked ==
    ASSUME TypeOK,
           \/ \E k \in Tokens : session' = [session EXCEPT ![k].live = FALSE]
           \/ session' = [k \in Tokens |-> [session[k] EXCEPT !.live = FALSE]]
    PROVE  /\ session' \in Seq(Session)
           /\ Tokens' = Tokens
           /\ \A k \in Tokens : /\ session'[k].from = session[k].from
                                /\ session'[k].device = session[k].device
                                /\ session'[k].live => session[k].live
<1>1. session \in Seq(Session) /\ Len(session) \in Nat
      /\ \A k \in Tokens : session[k] \in Session
  BY DEF TypeOK, Tokens
<1>2. CASE \E k \in Tokens : session' = [session EXCEPT ![k].live = FALSE]
  <2>1. PICK k \in Tokens : session' = [session EXCEPT ![k].live = FALSE]
    BY <1>2
  <2>2. [session[k] EXCEPT !.live = FALSE] \in Session
    BY <1>1 DEF Session
  <2>3. session' \in Seq(Session) /\ Len(session') = Len(session)
    BY <1>1, <2>1, <2>2 DEF Tokens
  <2>4. \A i \in Tokens : session'[i] = IF i = k THEN [session[k] EXCEPT !.live = FALSE]
                                       ELSE session[i]
    BY <1>1, <2>1 DEF Tokens
  <2> QED
    BY <1>1, <2>3, <2>4 DEF Tokens, Session
<1>3. CASE session' = [k \in Tokens |-> [session[k] EXCEPT !.live = FALSE]]
  <2>1. \A k \in Tokens : [session[k] EXCEPT !.live = FALSE] \in Session
    BY <1>1 DEF Session
  <2>2. session' \in [1..Len(session) -> Session]
    BY <1>3, <2>1 DEF Tokens
  <2>3. session' \in Seq(Session) /\ Len(session') = Len(session)
    BY <1>1, <2>2
  <2> QED
    BY <1>1, <1>3, <2>3 DEF Tokens, Session
<1> QED
  BY <1>2, <1>3

\* A new session takes the next token.
LEMMA Issued ==
    ASSUME TypeOK, NEW s \in Session, NEW old \in Seq(Session), Len(old) = Len(session),
           session' = Append(old, s)
    PROVE  /\ session' \in Seq(Session)
           /\ Len(session) + 1 \in Tokens' \ Tokens
           /\ Tokens' = Tokens \cup {Len(session) + 1}
           /\ session'[Len(session) + 1] = s
           /\ \A k \in Tokens : session'[k] = old[k]
  BY DEF TypeOK, Tokens

\* A step that changes one call at most.
LEMMA TypeStep ==
    ASSUME TypeOK, session' \in Seq(Session), Tokens \subseteq Tokens',
           stored' \in [Devices -> {NoToken} \cup Tokens'],
           status' \in [Tabs -> {"loading", "anonymous", "authenticated"}],
           disturbed' \in BOOLEAN, raced' \subseteq Tokens',
           NEW c \in Calls, NEW q \in Call \cup {Idle}, call' = [call EXCEPT ![c] = q],
           q # Idle =>
              /\ q.step \in {"refresh", "rotate", "revoke", "logout"} => q.token \in Tokens'
              /\ q.step \in {"rotated", "signedIn"} => q.next \in Tokens'
    PROVE  TypeOK'
<1>1. call'[c] = q /\ call' \in [Calls -> Call \cup {Idle}]
      /\ \A b \in Calls \ {c} : call'[b] = call[b]
  BY StepCall
<1>2. ASSUME NEW b \in Calls, call'[b] # Idle
      PROVE  /\ call'[b].step \in {"refresh", "rotate", "revoke", "logout"}
                => call'[b].token \in Tokens'
             /\ call'[b].step \in {"rotated", "signedIn"} => call'[b].next \in Tokens'
  <2>1. CASE b = c
    BY <1>1, <1>2, <2>1
  <2>2. CASE b # c
    BY <1>1, <1>2, <2>2 DEF TypeOK, Busy
  <2> QED
    BY <2>1, <2>2
<1> QED
  BY <1>1, <1>2 DEF TypeOK, Busy

\* What a call becomes when the server answers.
LEMMA AnswerCall ==
    ASSUME TypeOK, NEW c \in Calls, Busy(c), NEW step \in Steps,
           Answer(c, step, NoToken)
    PROVE  \E q \in Call \cup {Idle} :
              /\ call' = [call EXCEPT ![c] = q]
              /\ q = Idle \/ (q.step = step /\ q.next = NoToken /\ q.tab = call[c].tab
                             /\ q.token = NoToken /\ q.given_up = FALSE)
              /\ ~ call[c].given_up => q # Idle
<1>1. call[c] \in Call
  BY BusyCall
<1>2. CASE call[c].given_up
  BY <1>2 DEF Answer
<1>3. CASE ~ call[c].given_up
  <2> DEFINE q == [call[c] EXCEPT !.step = step, !.token = NoToken, !.next = NoToken]
  <2>1. q \in Call /\ q.step = step /\ q.next = NoToken /\ q.tab = call[c].tab
        /\ q.token = NoToken /\ q.given_up = FALSE
    BY <1>1, <1>3 DEF Call, NoToken
  <2>2. call' = [call EXCEPT ![c] = q]
    BY <1>3 DEF Answer, TypeOK
  <2>3. q # Idle
    BY <2>1, CallFields
  <2> QED
    BY <2>1, <2>2, <2>3
<1> QED
  BY <1>2, <1>3

\* What a call becomes when the answer brings a new token.
LEMMA AnswerToken ==
    ASSUME TypeOK, NEW c \in Calls, Busy(c), NEW step \in Steps,
           Answer(c, step, Len(session) + 1)
    PROVE  \E q \in Call \cup {Idle} :
              /\ call' = [call EXCEPT ![c] = q]
              /\ q = Idle \/ (q.step = step /\ q.next = Len(session) + 1 /\ q.tab = call[c].tab
                             /\ q.token = NoToken /\ q.given_up = FALSE)
              /\ ~ call[c].given_up => q # Idle
<1>1. call[c] \in Call /\ Len(session) + 1 \in Nat
  BY BusyCall DEF TypeOK
<1>2. CASE call[c].given_up
  BY <1>2 DEF Answer
<1>3. CASE ~ call[c].given_up
  <2> DEFINE q == [call[c] EXCEPT !.step = step, !.token = NoToken, !.next = Len(session) + 1]
  <2>1. q \in Call /\ q.step = step /\ q.next = Len(session) + 1 /\ q.tab = call[c].tab
        /\ q.token = NoToken /\ q.given_up = FALSE
    BY <1>1, <1>3 DEF Call, NoToken
  <2>2. call' = [call EXCEPT ![c] = q]
    BY <1>3 DEF Answer, TypeOK
  <2>3. q # Idle
    BY <2>1, CallFields
  <2> QED
    BY <2>1, <2>2, <2>3
<1> QED
  BY <1>2, <1>3

\* What a call becomes when it takes its next step.
LEMMA ToCall ==
    ASSUME TypeOK, NEW c \in Calls, Busy(c), NEW step \in Steps, To(c, step)
    PROVE  \E q \in Call :
              /\ call' = [call EXCEPT ![c] = q]
              /\ q.step = step /\ q.next = call[c].next /\ q.tab = call[c].tab
              /\ q.token = call[c].token /\ q.given_up = call[c].given_up
<1> DEFINE q == [call[c] EXCEPT !.step = step]
<1>1. call[c] \in Call
  BY BusyCall
<1>2. q \in Call /\ q.step = step /\ q.next = call[c].next /\ q.tab = call[c].tab
      /\ q.token = call[c].token /\ q.given_up = call[c].given_up
  BY <1>1 DEF Call
<1>3. call' = [call EXCEPT ![c] = q]
  BY DEF To
<1> QED
  BY <1>2, <1>3

\* A call that ends.
LEMMA EndCall ==
    ASSUME TypeOK, NEW c \in Calls, End(c)
    PROVE  call' = [call EXCEPT ![c] = Idle]
  BY DEF End

\* A call that is given up.
LEMMA GivenUpCall ==
    ASSUME NEW q \in Call
    PROVE  /\ GivenUp(q) \in Call \cup {Idle}
           /\ GivenUp(q) # Idle => /\ GivenUp(q).step = q.step /\ GivenUp(q).tab = q.tab
                                   /\ GivenUp(q).token = q.token /\ GivenUp(q).next = q.next
                                   /\ GivenUp(q).step \in Asking
  BY CallFields DEF GivenUp, Call

\* What a call becomes in its tab, or when it is lost.
LEMMA TabCall ==
    ASSUME TypeOK, NEW c \in Calls, InTab(c) \/ Lose(c) \/ Forget(c)
    PROVE  \E q \in Call \cup {Idle} :
              /\ call' = [call EXCEPT ![c] = q]
              /\ q = Idle \/ (/\ q.step \in {"me", call[c].step} /\ q.tab = call[c].tab
                              /\ q.token = call[c].token /\ q.next = call[c].next)
<1>1. Busy(c) /\ call[c] \in Call
  <2>1. Busy(c)
    BY DEF InTab, Rotated, Refused, Me, MeFails, Adopt, LoggedOut, Lose, Forget, At
  <2> QED
    BY <2>1, BusyCall
<1>2. CASE End(c)
  BY <1>2, EndCall
<1>3. CASE To(c, "me")
  <2>1. \E q \in Call :
            /\ call' = [call EXCEPT ![c] = q]
            /\ q.step = "me" /\ q.next = call[c].next /\ q.tab = call[c].tab
            /\ q.token = call[c].token /\ q.given_up = call[c].given_up
    BY <1>1, <1>3, ToCall DEF Steps
  <2> QED
    BY <2>1
<1>4. CASE Lose(c)
  <2>1. call' = [call EXCEPT ![c] = GivenUp(call[c])]
    BY <1>4 DEF Lose
  <2> QED
    BY <1>1, <2>1, GivenUpCall
<1> QED
  BY <1>2, <1>3, <1>4
     DEF InTab, Rotated, Refused, Me, MeFails, Adopt, LoggedOut, Forget

\* What a call becomes when the server does not see it through.
LEMMA FailsCall ==
    ASSUME TypeOK, NEW c \in Calls, RefreshFails(c)
    PROVE  \E q \in Call \cup {Idle} :
              /\ call' = [call EXCEPT ![c] = q]
              /\ q = Idle \/ (q.step = "refused" /\ q.tab = call[c].tab)
<1> DEFINE r == [call[c] EXCEPT !.step = "refused", !.token = NoToken]
<1>1. r \in Call /\ r.step = "refused" /\ r.tab = call[c].tab
  BY BusyCall DEF RefreshFails, Call, Steps, NoToken
<1>2. CASE call[c].given_up
  BY <1>2 DEF RefreshFails
<1>3. CASE ~ call[c].given_up
  <2>1. call' = [call EXCEPT ![c] = r]
    BY <1>3 DEF RefreshFails, TypeOK
  <2> QED
    BY <1>1, <2>1
<1> QED
  BY <1>2, <1>3

\* What a call becomes when sessions are revoked.
LEMMA RevokeCall ==
    ASSUME TypeOK, NEW c \in Calls, RefreshRevoke(c) \/ Logout(c)
    PROVE  \E q \in Call \cup {Idle} :
              /\ call' = [call EXCEPT ![c] = q]
              /\ q = Idle \/ (q.step \in {"refused", "loggedOut"} /\ q.tab = call[c].tab)
<1>1. CASE RefreshRevoke(c)
  <2>1. Busy(c) /\ Answer(c, "refused", NoToken) /\ "refused" \in Steps
    BY <1>1 DEF RefreshRevoke, At, Steps
  <2> QED
    BY <2>1, AnswerCall
<1>2. CASE Logout(c)
  <2>1. Busy(c) /\ Answer(c, "loggedOut", NoToken) /\ "loggedOut" \in Steps
    BY <1>2 DEF Logout, At, Steps
  <2> QED
    BY <2>1, AnswerCall
<1> QED
  BY <1>1, <1>2

\* Every server step keeps the types.
LEMMA ServerTypes ==
    ASSUME TypeOK, NEW c \in Calls, OnServer(c)
    PROVE  TypeOK'
<1> USE DEF At
<1>1. session \in Seq(Session) /\ Len(session) \in Nat /\ NoToken \in Nat
  BY DEF TypeOK, NoToken
<1>2. CASE RefreshRead(c)
  <2>1. PICK step \in {"rotate", "revoke"} : To(c, step)
    BY <1>2 DEF RefreshRead
  <2>2. PICK q \in Call : /\ call' = [call EXCEPT ![c] = q]
                          /\ q.step = step /\ q.token = call[c].token
    BY <1>2, <2>1, ToCall DEF RefreshRead, Steps
  <2>3. call[c].token \in Tokens
    BY <1>2 DEF RefreshRead, TypeOK
  <2> QED
    BY <1>2, <2>1, <2>2, <2>3, TypeStep DEF RefreshRead, TypeOK, Tokens
<1>3. CASE RefreshRotate(c)
  <2> DEFINE s == [live |-> TRUE, device |-> Home(c), from |-> call[c].token]
             old == [session EXCEPT ![call[c].token].live = FALSE]
  <2>1. call[c].token \in Tokens /\ call[c].token \in Nat /\ Home(c) \in Devices /\ Busy(c)
    BY <1>3, BusyCall DEF RefreshRotate, TypeOK, Tokens
  <2>2. s \in Session
    BY <2>1 DEF Session
  <2>3. old \in Seq(Session) /\ Len(old) = Len(session)
    <3>1. session[call[c].token] \in Session
      BY <1>1, <2>1 DEF Tokens
    <3>2. [session[call[c].token] EXCEPT !.live = FALSE] \in Session
      BY <3>1 DEF Session
    <3> QED
      BY <1>1, <2>1, <3>2 DEF Tokens
  <2>4. session' = Append(old, s)
    BY <1>3 DEF RefreshRotate
  <2>5. session' \in Seq(Session) /\ Tokens' = Tokens \cup {Len(session) + 1}
    BY <2>2, <2>3, <2>4, Issued
  <2>6. PICK q \in Call \cup {Idle} :
           /\ call' = [call EXCEPT ![c] = q]
           /\ q = Idle \/ (q.step = "rotated" /\ q.next = Len(session) + 1)
    <3>1. Busy(c) /\ Answer(c, "rotated", Len(session) + 1) /\ "rotated" \in Steps
      BY <1>3 DEF RefreshRotate, Steps
    <3>2. \E q \in Call \cup {Idle} :
              /\ call' = [call EXCEPT ![c] = q]
              /\ q = Idle \/ (q.step = "rotated" /\ q.next = Len(session) + 1
                             /\ q.tab = call[c].tab
                             /\ q.token = NoToken /\ q.given_up = FALSE)
              /\ ~ call[c].given_up => q # Idle
      BY <3>1, AnswerToken
    <3> QED
      BY <3>2
  <2> QED
    BY <1>3, <2>5, <2>6, TypeStep DEF RefreshRotate, Answer, TypeOK
<1>4. CASE RefreshRevoke(c)
  <2>1. session' \in Seq(Session) /\ Tokens' = Tokens
    BY <1>4, Revoked DEF RefreshRevoke
  <2>2. PICK q \in Call \cup {Idle} :
           /\ call' = [call EXCEPT ![c] = q]
           /\ q = Idle \/ q.step = "refused"
    <3>1. Busy(c) /\ Answer(c, "refused", NoToken) /\ "refused" \in Steps /\ NoToken \in Nat
      BY <1>1, <1>4 DEF RefreshRevoke, Steps
    <3> QED
      BY <3>1, AnswerCall
  <2> QED
    BY <1>4, <2>1, <2>2, TypeStep DEF RefreshRevoke, Answer, TypeOK
<1>5. CASE RefreshFails(c)
  <2>1. PICK q \in Call \cup {Idle} :
           /\ call' = [call EXCEPT ![c] = q]
           /\ q = Idle \/ (q.step = "refused" /\ q.tab = call[c].tab)
    BY <1>5, FailsCall
  <2>2. UNCHANGED <<session, stored, status, raced>> /\ disturbed' = TRUE
    BY <1>5 DEF RefreshFails
  <2>3. /\ session' \in Seq(Session) /\ Tokens' = Tokens /\ raced' \subseteq Tokens'
        /\ stored' \in [Devices -> {NoToken} \cup Tokens']
        /\ status' \in [Tabs -> {"loading", "anonymous", "authenticated"}]
        /\ disturbed' \in BOOLEAN
    BY <2>2 DEF TypeOK, Tokens
  <2> QED
    BY <2>1, <2>3, TypeStep
<1>6. CASE StartSession(c)
  <2> DEFINE s == [live |-> TRUE, device |-> Home(c), from |-> NoToken]
  <2>1. Home(c) \in Devices /\ s \in Session
    BY <1>1, <1>6, BusyCall DEF StartSession, Session
  <2>2. session' = Append(session, s)
    BY <1>6 DEF StartSession
  <2>3. session' \in Seq(Session) /\ Tokens' = Tokens \cup {Len(session) + 1}
    BY <1>1, <2>1, <2>2, Issued
  <2>4. PICK q \in Call \cup {Idle} :
           /\ call' = [call EXCEPT ![c] = q]
           /\ q = Idle \/ (q.step = "signedIn" /\ q.next = Len(session) + 1)
    <3>1. Busy(c) /\ Answer(c, "signedIn", Len(session) + 1) /\ "signedIn" \in Steps
      BY <1>6 DEF StartSession, Steps
    <3>2. \E q \in Call \cup {Idle} :
              /\ call' = [call EXCEPT ![c] = q]
              /\ q = Idle \/ (q.step = "signedIn" /\ q.next = Len(session) + 1
                             /\ q.tab = call[c].tab
                             /\ q.token = NoToken /\ q.given_up = FALSE)
              /\ ~ call[c].given_up => q # Idle
      BY <3>1, AnswerToken
    <3> QED
      BY <3>2
  <2> QED
    BY <1>6, <2>3, <2>4, TypeStep DEF StartSession, Answer, TypeOK
<1>7. CASE Logout(c)
  <2>1. call[c].token \in Tokens
    BY <1>7 DEF Logout, TypeOK
  <2>2. session' \in Seq(Session) /\ Tokens' = Tokens
    BY <1>7, <2>1, Revoked DEF Logout
  <2>3. PICK q \in Call \cup {Idle} :
           /\ call' = [call EXCEPT ![c] = q]
           /\ q = Idle \/ q.step = "loggedOut"
    <3>1. Busy(c) /\ Answer(c, "loggedOut", NoToken) /\ "loggedOut" \in Steps /\ NoToken \in Nat
      BY <1>1, <1>7 DEF Logout, Steps
    <3> QED
      BY <3>1, AnswerCall
  <2> QED
    BY <1>7, <2>2, <2>3, TypeStep DEF Logout, Answer, TypeOK
<1> QED
  BY <1>2, <1>3, <1>4, <1>5, <1>6, <1>7 DEF OnServer

\* So does every step of a tab that waits for an answer, and every loss of one.
LEMMA TabTypes ==
    ASSUME TypeOK, NEW c \in Calls, InTab(c) \/ Lose(c) \/ Forget(c)
    PROVE  TypeOK'
<1> USE DEF At
<1>1. session \in Seq(Session) /\ NoToken \in {NoToken} \cup Tokens
  BY DEF TypeOK
<1>2. /\ Busy(c) /\ call[c] \in Call /\ Home(c) \in Devices /\ call[c].tab \in Tabs
      /\ UNCHANGED session /\ Tokens' = Tokens
      /\ UNCHANGED raced /\ disturbed' \in {disturbed, TRUE}
  <2>1. Busy(c) /\ UNCHANGED session /\ UNCHANGED raced /\ disturbed' \in {disturbed, TRUE}
    BY DEF InTab, Rotated, Refused, Me, MeFails, Adopt, LoggedOut, Lose, Forget
  <2> QED
    BY <2>1, BusyCall, CallFields DEF Tokens
<1>3. ASSUME NEW k \in {NoToken} \cup Tokens, Store(c, k)
      PROVE  stored' \in [Devices -> {NoToken} \cup Tokens']
  BY <1>2, <1>3 DEF Store, TypeOK
<1>4. ASSUME NEW s \in {"loading", "anonymous", "authenticated"}, Now(c, s)
      PROVE  status' \in [Tabs -> {"loading", "anonymous", "authenticated"}]
  BY <1>2, <1>4 DEF Now, TypeOK
<1>5. status[call[c].tab] \in {"loading", "anonymous", "authenticated"}
  BY <1>2 DEF TypeOK
<1>6. /\ stored' \in [Devices -> {NoToken} \cup Tokens']
      /\ status' \in [Tabs -> {"loading", "anonymous", "authenticated"}]
  <2>1. CASE Rotated(c)
    <3>1. call[c].next \in Tokens
      BY <2>1 DEF Rotated, TypeOK
    <3> QED
      BY <1>3, <2>1, <3>1 DEF Rotated, TypeOK
  <2>2. CASE Refused(c)
    BY <1>1, <1>3, <1>4, <1>5, <2>2 DEF Refused
  <2>3. CASE Me(c)
    BY <1>2, <1>4, <2>3 DEF Me, TypeOK
  <2>4. CASE MeFails(c)
    BY <1>1, <1>3, <1>4, <2>4 DEF MeFails
  <2>5. CASE Adopt(c)
    <3>1. call[c].next \in Tokens
      BY <2>5 DEF Adopt, TypeOK
    <3> QED
      BY <1>3, <1>4, <2>5, <3>1 DEF Adopt
  <2>6. CASE LoggedOut(c)
    BY <1>1, <1>3, <1>4, <2>6 DEF LoggedOut
  <2>7. CASE Lose(c)
    <3>1. CASE call[c].step \in {"logout", "loggedOut"}
      BY <1>1, <1>3, <1>4, <2>7, <3>1 DEF Lose
    <3>2. CASE call[c].step \notin {"logout", "loggedOut"}
      BY <1>2, <2>7, <3>2 DEF Lose, TypeOK
    <3> QED
      BY <3>1, <3>2
  <2>8. CASE Forget(c)
    BY <1>2, <2>8 DEF Forget, TypeOK
  <2> QED
    BY <2>1, <2>2, <2>3, <2>4, <2>5, <2>6, <2>7, <2>8 DEF InTab
<1>7. PICK q \in Call \cup {Idle} :
         /\ call' = [call EXCEPT ![c] = q]
         /\ q = Idle \/ (/\ q.step \in {"me", call[c].step} /\ q.tab = call[c].tab
                         /\ q.token = call[c].token /\ q.next = call[c].next)
  BY TabCall
<1>8. q # Idle =>
         /\ q.step \in {"refresh", "rotate", "revoke", "logout"} => q.token \in Tokens'
         /\ q.step \in {"rotated", "signedIn"} => q.next \in Tokens'
  BY <1>2, <1>7 DEF TypeOK
<1>9. /\ session' \in Seq(Session) /\ Tokens \subseteq Tokens'
      /\ disturbed' \in BOOLEAN /\ raced' \subseteq Tokens'
  BY <1>1, <1>2 DEF TypeOK
<1> QED
  BY <1>6, <1>7, <1>8, <1>9, TypeStep

\* The call that a page begins.
LEMMA PageCall ==
    ASSUME TypeOK, NEW t \in Tabs, NEW c \in Calls,
           EnsureFreshSession(c, t) \/ SignIn(c, t) \/ SignOut(c, t)
    PROVE  \E q \in Call :
              /\ call' = [call EXCEPT ![c] = q]
              /\ q.step = "signIn" \/ (/\ q.step \in {"refresh", "logout"}
                                       /\ q.token \in Tokens /\ q.token = stored[DeviceOf[t]])
              /\ q.tab = t /\ q.given_up = FALSE /\ q # Idle
<1>1. stored[DeviceOf[t]] \in {NoToken} \cup Tokens /\ NoToken \in Nat
  BY DeviceAssumption DEF TypeOK, NoToken
<1>2. CASE EnsureFreshSession(c, t) \/ SignOut(c, t)
  <2>1. PICK step \in {"refresh", "logout"} : Begin(c, t, step)
    BY <1>2 DEF EnsureFreshSession, SignOut
  <2> DEFINE q == [step |-> step, tab |-> t, token |-> stored[DeviceOf[t]],
                   next |-> NoToken, restore |-> status[t] # "authenticated",
                   given_up |-> FALSE]
  <2>2. q \in Call /\ q.token \in Tokens
    BY <1>1, <1>2 DEF EnsureFreshSession, SignOut, Call, Steps, Tokens
  <2>3. call' = [call EXCEPT ![c] = q]
    BY <2>1 DEF Begin
  <2> QED
    BY <2>1, <2>2, <2>3, CallFields
<1>3. CASE SignIn(c, t)
  <2> DEFINE q == [step |-> "signIn", tab |-> t, token |-> NoToken,
                   next |-> NoToken, restore |-> FALSE, given_up |-> FALSE]
  <2>1. q \in Call
    BY <1>1 DEF Call, Steps
  <2>2. call' = [call EXCEPT ![c] = q]
    BY <1>3 DEF SignIn
  <2> QED
    BY <2>1, <2>2, CallFields
<1> QED
  BY <1>2, <1>3

\* So does every step that a user or a page begins.
LEMMA PageTypes ==
    ASSUME TypeOK, NEW t \in Tabs,
           \/ \E c \in Calls : EnsureFreshSession(c, t) \/ SignIn(c, t) \/ SignOut(c, t)
           \/ Load(t) \/ SignOutAlone(t)
    PROVE  TypeOK'
<1>1. DeviceOf[t] \in Devices /\ NoToken \in Nat
      /\ stored[DeviceOf[t]] \in {NoToken} \cup Tokens
  BY DeviceAssumption DEF TypeOK, NoToken
<1>2. ASSUME NEW c \in Calls, EnsureFreshSession(c, t) \/ SignIn(c, t) \/ SignOut(c, t)
      PROVE  TypeOK'
  <2>1. PICK q \in Call :
           /\ call' = [call EXCEPT ![c] = q]
           /\ q.step = "signIn" \/ (/\ q.step \in {"refresh", "logout"}
                                    /\ q.token \in Tokens /\ q.token = stored[DeviceOf[t]])
           /\ q.tab = t /\ q.given_up = FALSE /\ q # Idle
    BY <1>2, PageCall
  <2>2. UNCHANGED <<session, stored, status, raced>> /\ disturbed' \in BOOLEAN
    BY <1>2 DEF EnsureFreshSession, SignIn, SignOut, Begin
  <2> QED
    BY <2>1, <2>2, TypeStep DEF TypeOK, Tokens
<1>3. CASE Load(t)
  <2>1. ASSUME NEW c \in Calls
        PROVE  /\ call'[c] \in Call \cup {Idle}
               /\ call'[c] # Idle =>
                     /\ call[c] # Idle
                     /\ call'[c].step = call[c].step /\ call'[c].token = call[c].token
                     /\ call'[c].next = call[c].next
    <3>1. CASE Busy(c) /\ call[c].tab = t
      <4>1. call'[c] = GivenUp(call[c])
        BY <1>3, <3>1 DEF Load
      <4> QED
        BY <3>1, <4>1, BusyCall, GivenUpCall DEF Busy
    <3>2. CASE ~ (Busy(c) /\ call[c].tab = t)
      BY <1>3, <3>2 DEF Load, TypeOK
    <3> QED
      BY <3>1, <3>2
  <2>2. call' \in [Calls -> Call \cup {Idle}]
    BY <1>3, <2>1 DEF Load
  <2>3. UNCHANGED <<session, stored, raced>> /\ disturbed' \in BOOLEAN
        /\ status' \in [Tabs -> {"loading", "anonymous", "authenticated"}]
    BY <1>3 DEF Load, TypeOK
  <2> QED
    BY <2>1, <2>2, <2>3 DEF TypeOK, Busy, Tokens
<1>4. CASE SignOutAlone(t)
  BY <1>4 DEF SignOutAlone, TypeOK, Busy, Tokens
<1> QED
  BY <1>2, <1>3, <1>4

\* The types hold at the start.
LEMMA InitTypes ==
    ASSUME Init
    PROVE  TypeOK
<1>1. session \in Seq(Session)
  BY DEF Init
<1>2. stored \in [Devices -> {NoToken} \cup Tokens] /\ raced \subseteq Tokens
  BY DEF Init
<1>3. call \in [Calls -> Call \cup {Idle}] /\ \A c \in Calls : ~ Busy(c)
  BY DEF Init, Busy
<1> QED
  BY <1>1, <1>2, <1>3 DEF Init, TypeOK

\* Every step keeps the types.
LEMMA TypesKept ==
    ASSUME TypeOK, [Next]_vars
    PROVE  TypeOK'
<1>1. CASE Next
  BY <1>1, ServerTypes, TabTypes, PageTypes DEF Next
<1>2. CASE UNCHANGED vars
  BY <1>2 DEF vars, TypeOK, Busy, Tokens
<1> QED
  BY <1>1, <1>2

\* A token is stored, carried by a call or named as a predecessor only if a row
\* of auth_sessions has it, whatever is lost, repeated or reloaded.
THEOREM TypeCorrect == Spec => []TypeOK
  BY InitTypes, TypesKept, PTL DEF Spec

-------------------------------------------------------------------------------
(* Successors *)

\* A step that issues no token, and after which no more refreshes are about to
\* write than before, leaves the lineage as it is.
LEMMA LineageFrame ==
    ASSUME TypeOK, Lineage, OnlyOverlapForks, Tokens' = Tokens, raced' = raced,
           \A k \in Tokens : /\ session'[k].from = session[k].from
                             /\ session'[k].live => session[k].live,
           \A b \in Calls : At(b, "rotate")' => At(b, "rotate") /\ call'[b].token = call[b].token
    PROVE  Lineage' /\ OnlyOverlapForks'
<1>1. Lineage'
  <2>1. \A k \in Tokens' : session'[k].from # NoToken =>
           session'[k].from \in Tokens' /\ ~ session'[session'[k].from].live
    BY DEF Lineage
  <2>2. ASSUME NEW c \in Calls, At(c, "rotate")'
        PROVE  \/ call'[c].token \in raced'
               \/ /\ \A k \in Tokens' : session'[k].from # call'[c].token
                  /\ \A b \in Calls \ {c} : At(b, "rotate")' => call'[b].token # call'[c].token
    BY <2>2 DEF Lineage
  <2> QED
    BY <2>1, <2>2 DEF Lineage
<1>2. OnlyOverlapForks'
  BY DEF OnlyOverlapForks
<1> QED
  BY <1>1, <1>2

\* A step that changes one call so that no new refresh is about to write.
LEMMA NoNewWriter ==
    ASSUME TypeOK, NEW c \in Calls, NEW q \in Call \cup {Idle}, call' = [call EXCEPT ![c] = q],
           q # Idle /\ q.step = "rotate" => /\ Busy(c) /\ call[c].step = "rotate"
                                            /\ q.token = call[c].token
    PROVE  \A b \in Calls : At(b, "rotate")' => At(b, "rotate") /\ call'[b].token = call[b].token
  BY StepCall DEF At, Busy

\* A refresh that reads a token either finds it without a successor, and nobody
\* else about to write, or it races.
LEMMA ReadLineage ==
    ASSUME TypeOK, Lineage, OnlyOverlapForks, NEW c \in Calls, RefreshRead(c)
    PROVE  Lineage' /\ OnlyOverlapForks'
<1> DEFINE tok == call[c].token
<1>1. tok \in Tokens /\ UNCHANGED session /\ Tokens' = Tokens /\ raced \subseteq raced'
      /\ Busy(c) /\ call[c].step = "refresh"
  BY DEF RefreshRead, At, TypeOK, Tokens
<1>2. (\E b \in Calls : At(b, "rotate") /\ call[b].token = tok) => tok \in raced'
  BY DEF RefreshRead, At
<1>3. PICK q \in Call : /\ call' = [call EXCEPT ![c] = q]
                        /\ q.token = tok
                        /\ q.step = IF session[tok].live THEN "rotate" ELSE "revoke"
  <2>1. PICK step \in {"rotate", "revoke"} :
           To(c, step) /\ step = IF session[tok].live THEN "rotate" ELSE "revoke"
    BY DEF RefreshRead
  <2>2. PICK q \in Call : /\ call' = [call EXCEPT ![c] = q]
                          /\ q.step = step /\ q.next = call[c].next /\ q.tab = call[c].tab
                          /\ q.token = call[c].token /\ q.given_up = call[c].given_up
    BY <1>1, <2>1, ToCall DEF Steps
  <2> QED
    BY <2>1, <2>2
<1>4. call'[c] = q /\ \A b \in Calls \ {c} : call'[b] = call[b]
  BY <1>3, StepCall
<1>5. session[tok].live => \A k \in Tokens : session[k].from # tok
  BY <1>1 DEF Lineage, Tokens, NoToken
<1>6. ASSUME NEW b \in Calls, At(b, "rotate")'
      PROVE  \/ call'[b].token \in raced'
             \/ /\ \A k \in Tokens : session[k].from # call'[b].token
                /\ \A a \in Calls \ {b} : At(a, "rotate")' => call'[a].token # call'[b].token
  <2>1. CASE b = c
    <3>1. call'[b].token = tok /\ session[tok].live
      BY <1>3, <1>4, <1>6, <2>1 DEF At
    <3>2. CASE \E a \in Calls : At(a, "rotate") /\ call[a].token = tok
      BY <1>2, <3>1, <3>2
    <3>3. CASE ~ \E a \in Calls : At(a, "rotate") /\ call[a].token = tok
      <4>1. \A a \in Calls \ {b} : At(a, "rotate")' => call'[a].token # call'[b].token
        BY <1>4, <2>1, <3>1, <3>3 DEF At, Busy
      <4> QED
        BY <1>5, <3>1, <4>1
    <3> QED
      BY <3>2, <3>3
  <2>2. CASE b # c
    <3>1. At(b, "rotate") /\ call'[b] = call[b]
      BY <1>4, <1>6, <2>2 DEF At, Busy
    <3>2. CASE call[b].token = tok
      BY <1>2, <3>1, <3>2
    <3>3. CASE call[b].token # tok
      <4>1. ASSUME NEW a \in Calls \ {b}, At(a, "rotate")', call[b].token \notin raced
            PROVE  call'[a].token # call'[b].token
        <5>1. CASE a = c
          BY <1>3, <1>4, <3>1, <3>3, <5>1
        <5>2. CASE a # c
          BY <1>4, <3>1, <4>1, <5>2 DEF Lineage, At, Busy
        <5> QED
          BY <5>1, <5>2
      <4>2. call[b].token \in raced \/ \A k \in Tokens : session[k].from # call[b].token
        BY <3>1 DEF Lineage
      <4> QED
        BY <1>1, <3>1, <4>1, <4>2
    <3> QED
      BY <3>2, <3>3
  <2> QED
    BY <2>1, <2>2
<1>7. Lineage'
  BY <1>1, <1>6 DEF Lineage
<1>8. OnlyOverlapForks'
  BY <1>1 DEF OnlyOverlapForks
<1> QED
  BY <1>7, <1>8

\* One row revoked.
LEMMA RevokeOne ==
    ASSUME TypeOK, NEW tok \in Tokens
    PROVE  LET old == [session EXCEPT ![tok].live = FALSE]
           IN  /\ old \in Seq(Session) /\ Len(old) = Len(session)
               /\ \A k \in Tokens : /\ old[k].from = session[k].from
                                    /\ old[k].device = session[k].device
                                    /\ old[k].live <=> (session[k].live /\ k # tok)
<1> DEFINE old == [session EXCEPT ![tok].live = FALSE]
<1>1. session \in Seq(Session) /\ Len(session) \in Nat /\ \A k \in Tokens : session[k] \in Session
  BY DEF TypeOK, Tokens
<1>2. [session[tok] EXCEPT !.live = FALSE] \in Session
  BY <1>1 DEF Session
<1>3. old \in Seq(Session) /\ Len(old) = Len(session)
  BY <1>1, <1>2 DEF Tokens
<1>4. \A k \in Tokens : old[k] = IF k = tok THEN [session[tok] EXCEPT !.live = FALSE] ELSE session[k]
  BY <1>1 DEF Tokens
<1> HIDE DEF old
<1>5. ASSUME NEW k \in Tokens
      PROVE  /\ old[k].from = session[k].from
             /\ old[k].device = session[k].device
             /\ old[k].live <=> (session[k].live /\ k # tok)
  <2>1. session[k] \in Session
    BY <1>1
  <2>2. CASE k = tok
    BY <1>4, <2>1, <2>2 DEF Session
  <2>3. CASE k # tok
    BY <1>4, <2>1, <2>3 DEF Session
  <2> QED
    BY <2>2, <2>3
<1> QED
  BY <1>3, <1>5 DEF old

\* What a rotation does to the rows: the token that was read dies, and a new one
\* of the same device descends from it.
LEMMA RotateRows ==
    ASSUME TypeOK, NEW c \in Calls, RefreshRotate(c), NEW tok, tok = call[c].token
    PROVE  /\ tok \in Tokens /\ Tokens' = Tokens \cup {Len(session) + 1}
           /\ Len(session) + 1 \notin Tokens
           /\ session'[Len(session) + 1].live
           /\ session'[Len(session) + 1].device = Home(c)
           /\ session'[Len(session) + 1].from = tok
           /\ \A k \in Tokens : /\ session'[k].from = session[k].from
                                /\ session'[k].device = session[k].device
                                /\ session'[k].live <=> (session[k].live /\ k # tok)
<1> DEFINE s == [live |-> TRUE, device |-> Home(c), from |-> tok]
           old == [session EXCEPT ![tok].live = FALSE]
<1>1. tok \in Tokens /\ tok \in Nat /\ Home(c) \in Devices /\ Busy(c)
  BY BusyCall DEF RefreshRotate, At, TypeOK, Tokens
<1>2. s \in Session /\ s.live /\ s.device = Home(c) /\ s.from = tok
  BY <1>1 DEF Session
<1>3. /\ old \in Seq(Session) /\ Len(old) = Len(session)
      /\ \A k \in Tokens : /\ old[k].from = session[k].from
                           /\ old[k].device = session[k].device
                           /\ old[k].live <=> (session[k].live /\ k # tok)
  BY <1>1, RevokeOne
<1>4. session' = Append(old, s)
  BY DEF RefreshRotate
<1> HIDE DEF s, old
<1>5. /\ Len(session) + 1 \in Tokens' \ Tokens
      /\ Tokens' = Tokens \cup {Len(session) + 1}
      /\ session'[Len(session) + 1] = s
      /\ \A k \in Tokens : session'[k] = old[k]
  BY <1>2, <1>3, <1>4, Issued
<1>6. /\ session'[Len(session) + 1].live
      /\ session'[Len(session) + 1].device = Home(c)
      /\ session'[Len(session) + 1].from = tok
  BY <1>2, <1>5
<1>7. \A k \in Tokens : /\ session'[k].from = session[k].from
                        /\ session'[k].device = session[k].device
                        /\ session'[k].live <=> (session[k].live /\ k # tok)
  BY <1>3, <1>5
<1>8. tok \in Tokens /\ Tokens' = Tokens \cup {Len(session) + 1} /\ Len(session) + 1 \notin Tokens
  BY <1>1, <1>5
<1> QED
  BY <1>6, <1>7, <1>8, Zenon

\* A sign-in issues a token that descends from none.
LEMMA StartRows ==
    ASSUME TypeOK, NEW c \in Calls, StartSession(c)
    PROVE  LET new == Len(session) + 1
           IN  /\ Tokens' = Tokens \cup {new} /\ new \notin Tokens
               /\ session'[new].live /\ session'[new].device = Home(c) /\ session'[new].from = NoToken
               /\ \A k \in Tokens : session'[k] = session[k]
<1> DEFINE s == [live |-> TRUE, device |-> Home(c), from |-> NoToken]
<1>1. s \in Session /\ session \in Seq(Session) /\ s.live /\ s.device = Home(c) /\ s.from = NoToken
  BY BusyCall DEF StartSession, At, Session, NoToken, TypeOK
<1>2. session' = Append(session, s)
  BY DEF StartSession
<1>3. /\ Len(session) + 1 \in Tokens' \ Tokens
      /\ Tokens' = Tokens \cup {Len(session) + 1}
      /\ session'[Len(session) + 1] = s
      /\ \A k \in Tokens : session'[k] = session[k]
  <2> HIDE DEF s
  <2> QED
    BY <1>1, <1>2, Issued
<1> HIDE DEF s
<1> QED
  BY <1>1, <1>3

\* A rotation gives its token a second successor only if the token has raced.
LEMMA RotateLineage ==
    ASSUME TypeOK, Lineage, OnlyOverlapForks, NEW c \in Calls, RefreshRotate(c)
    PROVE  Lineage' /\ OnlyOverlapForks'
<1> DEFINE tok == call[c].token
           new == Len(session) + 1
<1>1. /\ tok \in Tokens /\ Tokens' = Tokens \cup {new} /\ new \notin Tokens
      /\ session'[new].from = tok
      /\ \A k \in Tokens : /\ session'[k].from = session[k].from
                           /\ session'[k].device = session[k].device
                           /\ session'[k].live <=> (session[k].live /\ k # tok)
  BY RotateRows
<1>2. \A b \in Calls : At(b, "rotate")' => At(b, "rotate") /\ call'[b] = call[b] /\ b # c
  <2>0. Busy(c) /\ Answer(c, "rotated", Len(session) + 1) /\ "rotated" \in Steps
    BY DEF RefreshRotate, At, Steps
  <2>1. PICK q \in Call \cup {Idle} : /\ call' = [call EXCEPT ![c] = q]
                                      /\ q = Idle \/ q.step = "rotated"
    BY <2>0, AnswerToken
  <2>2. call'[c] = q /\ \A b \in Calls \ {c} : call'[b] = call[b]
    BY <2>1 DEF TypeOK
  <2>3. ~ At(c, "rotate")'
    BY <2>1, <2>2 DEF At, Busy
  <2> QED
    BY <2>2, <2>3 DEF At, Busy
<1>3. At(c, "rotate") /\ raced' = raced
  BY DEF RefreshRotate
<1>4. session'[new].from = tok /\ ~ session'[tok].live
  BY <1>1
<1> HIDE DEF tok, new
<1>5. tok \in raced \/ (/\ \A k \in Tokens : session[k].from # tok
                        /\ \A b \in Calls \ {c} : At(b, "rotate") => call[b].token # tok)
  BY <1>3 DEF Lineage, tok
<1>6. Lineage'
  <2>1. \A k \in Tokens' : session'[k].from # NoToken =>
           session'[k].from \in Tokens' /\ ~ session'[session'[k].from].live
    BY <1>1, <1>4 DEF Lineage
  <2>2. ASSUME NEW b \in Calls, At(b, "rotate")'
        PROVE  \/ call'[b].token \in raced'
               \/ /\ \A k \in Tokens' : session'[k].from # call'[b].token
                  /\ \A a \in Calls \ {b} : At(a, "rotate")' => call'[a].token # call'[b].token
    <3>1. At(b, "rotate") /\ call'[b] = call[b] /\ b # c
      BY <1>2, <2>2
    <3>2. CASE call[b].token \in raced
      BY <1>3, <3>1, <3>2
    <3>3. CASE call[b].token \notin raced
      <4>1. \A k \in Tokens : session'[k].from # call[b].token
        BY <1>1, <3>1, <3>3 DEF Lineage
      <4>2. call[b].token # tok
        BY <1>5, <3>1, <3>3
      <4>3. \A a \in Calls \ {b} : At(a, "rotate")' => call'[a].token # call'[b].token
        BY <1>2, <3>1, <3>3 DEF Lineage
      <4> QED
        BY <1>1, <1>4, <3>1, <4>1, <4>2, <4>3
    <3> QED
      BY <3>2, <3>3
  <2> QED
    BY <2>1, <2>2 DEF Lineage
<1>7. OnlyOverlapForks'
  <2>1. ASSUME NEW j \in Tokens', NEW k \in Tokens', j # k,
               session'[j].from = session'[k].from, session'[j].from # NoToken
        PROVE  session'[j].from \in raced'
    <3>1. CASE j \in Tokens /\ k \in Tokens
      BY <1>1, <1>3, <2>1, <3>1 DEF OnlyOverlapForks
    <3>2. CASE j = new
      BY <1>1, <1>3, <1>4, <1>5, <2>1, <3>2
    <3>3. CASE k = new
      BY <1>1, <1>3, <1>4, <1>5, <2>1, <3>3
    <3> QED
      BY <1>1, <3>1, <3>2, <3>3
  <2> QED
    BY <2>1 DEF OnlyOverlapForks
<1> QED
  BY <1>6, <1>7

\* A sign-in is nobody's successor.
LEMMA StartLineage ==
    ASSUME TypeOK, Lineage, OnlyOverlapForks, NEW c \in Calls, StartSession(c)
    PROVE  Lineage' /\ OnlyOverlapForks'
<1> DEFINE new == Len(session) + 1
<1>1. /\ Tokens' = Tokens \cup {new} /\ new \notin Tokens
      /\ session'[new].from = NoToken
      /\ \A k \in Tokens : session'[k] = session[k]
  BY StartRows
<1>2. \A b \in Calls : At(b, "rotate")' => At(b, "rotate") /\ call'[b] = call[b]
  <2>0. Busy(c) /\ Answer(c, "signedIn", Len(session) + 1) /\ "signedIn" \in Steps
    BY DEF StartSession, At, Steps
  <2>1. PICK q \in Call \cup {Idle} : /\ call' = [call EXCEPT ![c] = q]
                                      /\ q = Idle \/ q.step = "signedIn"
    BY <2>0, AnswerToken
  <2>2. call'[c] = q /\ \A b \in Calls \ {c} : call'[b] = call[b]
    BY <2>1 DEF TypeOK
  <2>3. ~ At(c, "rotate")'
    BY <2>1, <2>2 DEF At, Busy
  <2> QED
    BY <2>2, <2>3 DEF At, Busy
<1>3. raced' = raced /\ \A b \in Calls : At(b, "rotate") => call[b].token # NoToken
  BY DEF StartSession, TypeOK, At, Tokens, NoToken
<1> HIDE DEF new
<1>4. Lineage'
  <2>1. \A k \in Tokens' : session'[k].from # NoToken =>
           session'[k].from \in Tokens' /\ ~ session'[session'[k].from].live
    BY <1>1 DEF Lineage
  <2>2. ASSUME NEW b \in Calls, At(b, "rotate")'
        PROVE  \/ call'[b].token \in raced'
               \/ /\ \A k \in Tokens' : session'[k].from # call'[b].token
                  /\ \A a \in Calls \ {b} : At(a, "rotate")' => call'[a].token # call'[b].token
    BY <1>1, <1>2, <1>3, <2>2 DEF Lineage
  <2> QED
    BY <2>1, <2>2 DEF Lineage
<1>5. OnlyOverlapForks'
  BY <1>1, <1>3 DEF OnlyOverlapForks
<1> QED
  BY <1>4, <1>5

\* Every step keeps the lineage.
LEMMA LineageStep ==
    ASSUME TypeOK, Lineage, OnlyOverlapForks, Next
    PROVE  Lineage' /\ OnlyOverlapForks'
<1>1. ASSUME UNCHANGED <<session, raced>>,
             \A b \in Calls : At(b, "rotate")' => At(b, "rotate") /\ call'[b].token = call[b].token
      PROVE  Lineage' /\ OnlyOverlapForks'
  BY <1>1, LineageFrame DEF Tokens
<1>2. ASSUME NEW c \in Calls, OnServer(c)
      PROVE  Lineage' /\ OnlyOverlapForks'
  <2>1. CASE RefreshRead(c)
    BY <2>1, ReadLineage
  <2>2. CASE RefreshRotate(c)
    BY <2>2, RotateLineage
  <2>3. CASE StartSession(c)
    BY <2>3, StartLineage
  <2>4. CASE RefreshRevoke(c) \/ Logout(c)
    <3>3. PICK q \in Call \cup {Idle} :
             /\ call' = [call EXCEPT ![c] = q]
             /\ q = Idle \/ (q.step \in {"refused", "loggedOut"} /\ q.tab = call[c].tab)
      BY <2>4, RevokeCall
    <3>4. q = Idle \/ q.step # "rotate"
      BY <3>3
    <3>5. \A b \in Calls : At(b, "rotate")' => At(b, "rotate") /\ call'[b].token = call[b].token
      BY <3>3, <3>4, NoNewWriter
    <3>6. raced' = raced /\ (Logout(c) => call[c].token \in Tokens)
      BY <2>4 DEF RefreshRevoke, Logout, TypeOK, At
    <3>7. \/ \E k \in Tokens : session' = [session EXCEPT ![k].live = FALSE]
          \/ session' = [k \in Tokens |-> [session[k] EXCEPT !.live = FALSE]]
      BY <2>4, <3>6 DEF RefreshRevoke, Logout
    <3>8. /\ Tokens' = Tokens
          /\ \A k \in Tokens : /\ session'[k].from = session[k].from
                               /\ session'[k].live => session[k].live
      BY <3>7, Revoked
    <3> QED
      BY <3>5, <3>6, <3>8, LineageFrame
  <2>5. CASE RefreshFails(c)
    <3>1. PICK q \in Call \cup {Idle} :
             /\ call' = [call EXCEPT ![c] = q]
             /\ q = Idle \/ (q.step = "refused" /\ q.tab = call[c].tab)
      BY <2>5, FailsCall
    <3>2. \A b \in Calls : At(b, "rotate")' => At(b, "rotate") /\ call'[b].token = call[b].token
      BY <3>1, NoNewWriter
    <3> QED
      BY <1>1, <2>5, <3>2 DEF RefreshFails
  <2> QED
    BY <1>2, <2>1, <2>2, <2>3, <2>4, <2>5 DEF OnServer
<1>3. ASSUME NEW c \in Calls, InTab(c) \/ Lose(c) \/ Forget(c)
      PROVE  Lineage' /\ OnlyOverlapForks'
  <2>1. PICK q \in Call \cup {Idle} :
           /\ call' = [call EXCEPT ![c] = q]
           /\ q = Idle \/ (/\ q.step \in {"me", call[c].step} /\ q.tab = call[c].tab
                           /\ q.token = call[c].token /\ q.next = call[c].next)
    BY <1>3, TabCall
  <2>2. Busy(c) /\ UNCHANGED <<session, raced>>
    BY <1>3 DEF InTab, Rotated, Refused, Me, MeFails, Adopt, LoggedOut, Lose, Forget, At
  <2>3. \A b \in Calls : At(b, "rotate")' => At(b, "rotate") /\ call'[b].token = call[b].token
    BY <2>1, <2>2, NoNewWriter
  <2> QED
    BY <1>1, <2>2, <2>3
<1>4. ASSUME NEW c \in Calls, NEW t \in Tabs,
             EnsureFreshSession(c, t) \/ SignIn(c, t) \/ SignOut(c, t)
      PROVE  Lineage' /\ OnlyOverlapForks'
  <2>1. PICK q \in Call :
           /\ call' = [call EXCEPT ![c] = q]
           /\ q.step = "signIn" \/ (/\ q.step \in {"refresh", "logout"}
                                    /\ q.token \in Tokens /\ q.token = stored[DeviceOf[t]])
           /\ q.tab = t /\ q.given_up = FALSE /\ q # Idle
    BY <1>4, PageCall
  <2>2. \A b \in Calls : At(b, "rotate")' => At(b, "rotate") /\ call'[b].token = call[b].token
    BY <2>1, NoNewWriter
  <2>3. UNCHANGED <<session, raced>>
    BY <1>4 DEF EnsureFreshSession, SignIn, SignOut, Begin
  <2> QED
    BY <1>1, <2>2, <2>3
<1>5. ASSUME NEW t \in Tabs, Load(t)
      PROVE  Lineage' /\ OnlyOverlapForks'
  <2>1. ASSUME NEW b \in Calls, At(b, "rotate")'
        PROVE  At(b, "rotate") /\ call'[b].token = call[b].token
    <3>1. CASE Busy(b) /\ call[b].tab = t
      <4>1. call'[b] = GivenUp(call[b]) /\ call[b] \in Call
        BY <1>5, <3>1, BusyCall DEF Load
      <4> QED
        BY <2>1, <3>1, <4>1, GivenUpCall DEF At, Busy
    <3>2. CASE ~ (Busy(b) /\ call[b].tab = t)
      BY <1>5, <2>1, <3>2 DEF Load, At, Busy
    <3> QED
      BY <3>1, <3>2
  <2> QED
    BY <1>1, <1>5, <2>1 DEF Load
<1>6. ASSUME NEW t \in Tabs, SignOutAlone(t)
      PROVE  Lineage' /\ OnlyOverlapForks'
  BY <1>1, <1>6 DEF SignOutAlone, At, Busy
<1> QED
  BY <1>2, <1>3, <1>4, <1>5, <1>6 DEF Next

-------------------------------------------------------------------------------
(* Agreement of a device with the server *)

\* A device that a step leaves alone stays as it is.
LEMMA SoundFrame ==
    ASSUME TypeOK, NEW d \in Devices, Sound(d),
           CallsOf(d)' = CallsOf(d), \A b \in CallsOf(d) : call'[b] = call[b],
           stored'[d] = stored[d], LiveOf(d)' = LiveOf(d)
    PROVE  Sound(d)'
<1>1. CallsOf(d) = {} => Agrees(d)'
  BY DEF Sound, Agrees
<1>2. ASSUME NEW c \in CallsOf(d)
      PROVE  Accounted(c)'
  <2>1. Accounted(c) /\ c \in Calls /\ Home(c) = d
    BY DEF Sound, CallsOf
  <2>2. call'[c] = call[c] /\ Home(c)' = d
    BY <2>1 DEF Home
  <2> QED
    BY <2>1, <2>2 DEF Accounted
<1> QED
  BY <1>1, <1>2 DEF Sound

\* A step that changes one call, of one device.
LEMMA OwnStep ==
    ASSUME TypeOK, \A d \in Devices : Sound(d),
           NEW h \in Devices, NEW c \in Calls, NEW q \in Call \cup {Idle},
           call' = [call EXCEPT ![c] = q],
           CallsOf(h) \subseteq {c}, Busy(c) => Home(c) = h, q # Idle => DeviceOf[q.tab] = h,
           \A d \in Devices \ {h} : stored'[d] = stored[d] /\ LiveOf(d)' = LiveOf(d),
           q = Idle \/ q.step = "me" => Agrees(h)',
           q # Idle /\ q.step # "me" => Accounted(c)'
    PROVE  \A d \in Devices : Sound(d)'
<1>1. call'[c] = q /\ \A b \in Calls \ {c} : call'[b] = call[b]
  BY StepCall
<1>2. ASSUME NEW d \in Devices \ {h}
      PROVE  Sound(d)'
  <2>1. \A b \in Calls : b \in CallsOf(d)' <=> b \in CallsOf(d)
    BY <1>1, <1>2 DEF CallsOf, Busy, Home
  <2>2. CallsOf(d)' = CallsOf(d) /\ \A b \in CallsOf(d) : call'[b] = call[b]
    BY <1>1, <1>2, <2>1 DEF CallsOf, Busy, Home
  <2> QED
    BY <2>2, SoundFrame
<1>3. Sound(h)'
  <2>1. \A b \in Calls : b \in CallsOf(h)' => b = c
    BY <1>1 DEF CallsOf, Busy, Home
  <2>2. CASE q = Idle \/ q.step = "me"
    <3>1. c \notin CallsOf(h)'
      BY <1>1, <2>2 DEF CallsOf, Busy
    <3>2. CallsOf(h)' = {}
      BY <2>1, <3>1 DEF CallsOf
    <3> QED
      BY <2>2, <3>2 DEF Sound
  <2>3. CASE q # Idle /\ q.step # "me"
    <3>1. c \in CallsOf(h)'
      BY <1>1, <2>3 DEF CallsOf, Busy, Home
    <3>2. CallsOf(h)' = {c}
      BY <2>1, <3>1 DEF CallsOf
    <3> QED
      BY <2>3, <3>2 DEF Sound
  <2> QED
    BY <2>2, <2>3
<1> QED
  BY <1>2, <1>3

\* A call in flight, of a device that nothing has disturbed.
LEMMA OwnCall ==
    ASSUME TypeOK, \A d \in Devices : Sound(d),
           NEW c \in Calls, Busy(c), call[c].step # "me", NEW h, h = Home(c)
    PROVE  /\ h \in Devices /\ CallsOf(h) = {c} /\ ~ call[c].given_up
           /\ call[c].step \notin {"revoke", "refused"}
           /\ call[c].step \in {"refresh", "rotate", "logout"} =>
                 stored[h] = call[c].token /\ LiveOf(h) = {call[c].token}
           /\ call[c].step \in {"rotated", "signedIn"} => LiveOf(h) = {call[c].next}
           /\ call[c].step = "signIn" => stored[h] = NoToken /\ LiveOf(h) = {}
           /\ call[c].step = "loggedOut" => LiveOf(h) = {}
<1>1. h \in Devices
  BY BusyCall
<1>2. c \in CallsOf(h)
  BY DEF CallsOf
<1>3. CallsOf(h) = {c} /\ Accounted(c)
  BY <1>1, <1>2 DEF Sound
<1> QED
  BY <1>1, <1>3 DEF Accounted

\* A page begins a call that overlaps with nothing only if there is nothing.
LEMMA NothingToOverlap ==
    ASSUME TypeOK, \A d \in Devices : Sound(d), NEW t \in Tabs, NEW c \in Calls,
           EnsureFreshSession(c, t) \/ SignIn(c, t) \/ SignOut(c, t), ~ disturbed'
    PROVE  CallsOf(DeviceOf[t]) = {}
<1> SUFFICES ASSUME NEW b \in CallsOf(DeviceOf[t])
             PROVE  FALSE
  OBVIOUS
<1>1. DeviceOf[t] \in Devices /\ b \in Calls /\ Busy(b) /\ ~ call[b].given_up
  BY DeviceAssumption DEF Sound, Accounted, CallsOf
<1>2. CASE EnsureFreshSession(c, t)
  <2>1. call[b].tab = t /\ call[b].step \in Refreshing
    BY <1>1, <1>2 DEF EnsureFreshSession, Begin, Overlaps, Refreshing
  <2> QED
    BY <1>1, <1>2, <2>1 DEF EnsureFreshSession
<1>3. CASE SignIn(c, t)
  <2>1. "signIn" \notin Refreshing
    BY DEF Refreshing
  <2> QED
    BY <1>3, <2>1 DEF SignIn, Overlaps
<1>4. CASE SignOut(c, t)
  <2>1. "logout" \notin Refreshing
    BY DEF Refreshing
  <2> QED
    BY <1>4, <2>1 DEF SignOut, Begin, Overlaps
<1> QED
  BY <1>2, <1>3, <1>4

\* What the steps that write rows do to the live sessions of a device.
LEMMA LiveSessions ==
    ASSUME TypeOK, NEW c \in Calls, NEW h, h = Home(c), NEW tok, tok = call[c].token
    PROVE  /\ RefreshRotate(c) =>
                 \A d \in Devices : LiveOf(d)' = (LiveOf(d) \ {tok}) \cup
                                       (IF d = h THEN {Len(session) + 1} ELSE {})
           /\ StartSession(c) =>
                 \A d \in Devices : LiveOf(d)' = LiveOf(d) \cup
                                       (IF d = h THEN {Len(session) + 1} ELSE {})
           /\ Logout(c) => \A d \in Devices : LiveOf(d)' = LiveOf(d) \ {tok}
<1>1. ASSUME RefreshRotate(c), NEW d \in Devices
      PROVE  LiveOf(d)' = (LiveOf(d) \ {tok}) \cup (IF d = h THEN {Len(session) + 1} ELSE {})
  <2> DEFINE new == Len(session) + 1
  <2>1. /\ Tokens' = Tokens \cup {new} /\ new \notin Tokens
        /\ session'[new].live /\ session'[new].device = h
        /\ \A k \in Tokens : /\ session'[k].device = session[k].device
                             /\ session'[k].live <=> (session[k].live /\ k # tok)
    BY <1>1, RotateRows
  <2> HIDE DEF new
  <2>2. LiveOf(d)' = (LiveOf(d) \ {tok}) \cup (IF d = h THEN {new} ELSE {})
    BY <2>1 DEF LiveOf
  <2> QED
    BY <2>2 DEF new
<1>2. ASSUME StartSession(c), NEW d \in Devices
      PROVE  LiveOf(d)' = LiveOf(d) \cup (IF d = h THEN {Len(session) + 1} ELSE {})
  <2> DEFINE new == Len(session) + 1
  <2>1. /\ Tokens' = Tokens \cup {new} /\ new \notin Tokens
        /\ session'[new].live /\ session'[new].device = h
        /\ \A k \in Tokens : session'[k] = session[k]
    BY <1>2, StartRows
  <2> HIDE DEF new
  <2>2. LiveOf(d)' = LiveOf(d) \cup (IF d = h THEN {new} ELSE {})
    BY <2>1 DEF LiveOf
  <2> QED
    BY <2>2 DEF new
<1>3. ASSUME Logout(c), NEW d \in Devices
      PROVE  LiveOf(d)' = LiveOf(d) \ {tok}
  <2>1. tok \in Tokens /\ session' = [session EXCEPT ![tok].live = FALSE]
    BY <1>3 DEF Logout, At, TypeOK
  <2>2. Tokens' = Tokens
    BY <2>1, Revoked
  <2>3. \A k \in Tokens : /\ session'[k].device = session[k].device
                          /\ session'[k].live <=> (session[k].live /\ k # tok)
    BY <2>1, RevokeOne
  <2> QED
    BY <2>2, <2>3 DEF LiveOf
<1> QED
  BY <1>1, <1>2, <1>3

\* The steps of the server keep a device that nothing disturbs in agreement.
LEMMA ServerSound ==
    ASSUME TypeOK, TypeOK', \A d \in Devices : Sound(d), NEW c \in Calls, OnServer(c), ~ disturbed'
    PROVE  \A d \in Devices : Sound(d)'
<1>1. PICK h : h = Home(c)
  OBVIOUS
<1>2. Busy(c) /\ call[c].step \in {"refresh", "rotate", "revoke", "signIn", "logout"}
  BY DEF OnServer, RefreshRead, RefreshRotate, RefreshRevoke, RefreshFails, StartSession, Logout, At
<1>3. /\ h \in Devices /\ CallsOf(h) = {c} /\ ~ call[c].given_up
      /\ call[c].step # "revoke"
      /\ call[c].step \in {"refresh", "rotate", "logout"} =>
            stored[h] = call[c].token /\ LiveOf(h) = {call[c].token}
      /\ call[c].step = "signIn" => stored[h] = NoToken /\ LiveOf(h) = {}
  BY <1>1, <1>2, OwnCall
<1>4. \A d \in Devices \ {h} : call[c].step \in {"rotate", "logout"} => call[c].token \notin LiveOf(d)
  BY <1>3 DEF LiveOf
<1>5. CASE RefreshRead(c)
  <2>1. session[call[c].token].live
    BY <1>2, <1>3, <1>5 DEF RefreshRead, At, LiveOf
  <2>2. To(c, "rotate") /\ UNCHANGED <<session, stored>>
    BY <1>5, <2>1 DEF RefreshRead
  <2>3. \E q \in Call :
            /\ call' = [call EXCEPT ![c] = q]
            /\ q.step = "rotate" /\ q.next = call[c].next /\ q.tab = call[c].tab
            /\ q.token = call[c].token /\ q.given_up = call[c].given_up
    BY <1>2, <2>2, ToCall DEF Steps
  <2>4. PICK q \in Call :
           /\ call' = [call EXCEPT ![c] = q]
           /\ q.step = "rotate" /\ q.next = call[c].next /\ q.tab = call[c].tab
           /\ q.token = call[c].token /\ q.given_up = call[c].given_up
    BY <2>3
  <2>5. q # Idle /\ call'[c] = q
    BY <2>4, CallFields, StepCall
  <2>6. \A d \in Devices : stored'[d] = stored[d] /\ LiveOf(d)' = LiveOf(d)
    BY <2>2 DEF LiveOf, Tokens
  <2>7. Accounted(c)'
    BY <1>1, <1>3, <1>5, <2>4, <2>5, <2>6 DEF Accounted, Home, RefreshRead, At
  <2> QED
    BY <1>1, <1>3, <2>4, <2>5, <2>6, <2>7, OwnStep DEF Home
<1>6. CASE RefreshRotate(c)
  <2>0. Busy(c) /\ Answer(c, "rotated", Len(session) + 1) /\ "rotated" \in Steps
    BY <1>6 DEF RefreshRotate, At, Steps
  <2>1. PICK q \in Call \cup {Idle} :
           /\ call' = [call EXCEPT ![c] = q] /\ q # Idle
           /\ q.step = "rotated" /\ q.next = Len(session) + 1
           /\ q.tab = call[c].tab /\ q.given_up = FALSE
    BY <1>3, <2>0, AnswerToken
  <2>2. \A d \in Devices : LiveOf(d)' = (LiveOf(d) \ {call[c].token}) \cup
                                           (IF d = h THEN {Len(session) + 1} ELSE {})
    BY <1>1, <1>6, LiveSessions
  <2>3. stored' = stored /\ call[c].step = "rotate" /\ call'[c] = q
    BY <1>6, <2>1, StepCall DEF RefreshRotate, Answer, At
  <2>4. LiveOf(h)' = {Len(session) + 1}
    BY <1>3, <2>2, <2>3
  <2>5. Accounted(c)'
    BY <1>1, <2>1, <2>3, <2>4 DEF Accounted, Home
  <2>6. ASSUME NEW d \in Devices \ {h}
        PROVE  stored'[d] = stored[d] /\ LiveOf(d)' = LiveOf(d)
    <3>1. call[c].token \notin LiveOf(d) /\ LiveOf(d)' = LiveOf(d) \ {call[c].token}
      BY <1>4, <2>2, <2>3
    <3> QED
      BY <2>3, <3>1
  <2> QED
    BY <1>1, <1>3, <2>1, <2>5, <2>6, OwnStep DEF Home
<1>7. CASE RefreshRevoke(c)
  BY <1>3, <1>7 DEF RefreshRevoke, At
<1>8. CASE RefreshFails(c)
  BY <1>8 DEF RefreshFails
<1>9. CASE StartSession(c)
  <2>0. Busy(c) /\ Answer(c, "signedIn", Len(session) + 1) /\ "signedIn" \in Steps
    BY <1>9 DEF StartSession, At, Steps
  <2>1. PICK q \in Call \cup {Idle} :
           /\ call' = [call EXCEPT ![c] = q] /\ q # Idle
           /\ q.step = "signedIn" /\ q.next = Len(session) + 1
           /\ q.tab = call[c].tab /\ q.given_up = FALSE
    BY <1>3, <2>0, AnswerToken
  <2>2. \A d \in Devices : LiveOf(d)' = LiveOf(d) \cup
                                           (IF d = h THEN {Len(session) + 1} ELSE {})
    BY <1>1, <1>9, LiveSessions
  <2>3. stored' = stored /\ call[c].step = "signIn" /\ call'[c] = q
    BY <1>9, <2>1, StepCall DEF StartSession, Answer, At
  <2>4. LiveOf(h)' = {Len(session) + 1}
    BY <1>3, <2>2, <2>3
  <2>5. Accounted(c)'
    BY <1>1, <2>1, <2>3, <2>4 DEF Accounted, Home
  <2>6. \A d \in Devices \ {h} : stored'[d] = stored[d] /\ LiveOf(d)' = LiveOf(d)
    BY <2>2, <2>3
  <2> QED
    BY <1>1, <1>3, <2>1, <2>5, <2>6, OwnStep DEF Home
<1>10. CASE Logout(c)
  <2>1. \E q \in Call \cup {Idle} :
            /\ call' = [call EXCEPT ![c] = q]
            /\ q = Idle \/ (q.step = "loggedOut" /\ q.next = NoToken /\ q.tab = call[c].tab
                           /\ q.token = NoToken /\ q.given_up = FALSE)
            /\ ~ call[c].given_up => q # Idle
    <3>1. Busy(c) /\ Answer(c, "loggedOut", NoToken) /\ "loggedOut" \in Steps
      BY <1>10 DEF Logout, At, Steps
    <3> QED
      BY <3>1, AnswerCall
  <2>2. PICK q \in Call \cup {Idle} :
           /\ call' = [call EXCEPT ![c] = q] /\ q # Idle
           /\ q.step = "loggedOut" /\ q.tab = call[c].tab /\ q.given_up = FALSE
    BY <1>3, <2>1
  <2>3. \A d \in Devices : LiveOf(d)' = LiveOf(d) \ {call[c].token}
    BY <1>1, <1>10, LiveSessions
  <2>4. stored' = stored /\ call[c].step = "logout" /\ call'[c] = q
    BY <1>10, <2>2, StepCall DEF Logout, Answer, At
  <2>5. LiveOf(h)' = {}
    BY <1>3, <2>3, <2>4
  <2>6. Accounted(c)'
    BY <1>1, <2>2, <2>4, <2>5 DEF Accounted, Home
  <2>7. \A d \in Devices \ {h} : stored'[d] = stored[d] /\ LiveOf(d)' = LiveOf(d)
    BY <1>4, <2>3, <2>4
  <2> QED
    BY <1>1, <1>3, <2>2, <2>6, <2>7, OwnStep DEF Home
<1> QED
  BY <1>5, <1>6, <1>7, <1>8, <1>9, <1>10 DEF OnServer

\* So do the steps of its tabs.
LEMMA TabSound ==
    ASSUME TypeOK, TypeOK', \A d \in Devices : Sound(d),
           NEW c \in Calls, InTab(c) \/ Lose(c) \/ Forget(c), ~ disturbed'
    PROVE  \A d \in Devices : Sound(d)'
<1>1. PICK h : h = Home(c)
  OBVIOUS
<1>2. Busy(c) /\ h \in Devices /\ UNCHANGED session /\ \A d \in Devices : LiveOf(d)' = LiveOf(d)
  <2>1. Busy(c) /\ UNCHANGED session
    BY DEF InTab, Rotated, Refused, Me, MeFails, Adopt, LoggedOut, Lose, Forget, At
  <2> QED
    BY <1>1, <2>1, BusyCall DEF LiveOf, Tokens
<1>3. CASE call[c].step = "me"
  <2>1. UNCHANGED stored /\ End(c)
    BY <1>3 DEF InTab, Rotated, Refused, Me, MeFails, Adopt, LoggedOut, Lose, Forget, At
  <2>2. call'[c] = Idle /\ \A b \in Calls \ {c} : call'[b] = call[b]
    BY <2>1, EndCall, StepCall
  <2>3. ASSUME NEW d \in Devices
        PROVE  CallsOf(d)' = CallsOf(d) /\ \A b \in CallsOf(d) : call'[b] = call[b]
    <3>1. \A b \in Calls : b \in CallsOf(d)' <=> b \in CallsOf(d)
      BY <1>3, <2>2 DEF CallsOf, Busy, Home
    <3> QED
      BY <1>3, <2>2, <3>1 DEF CallsOf
  <2> QED
    BY <1>2, <2>1, <2>3, SoundFrame
<1>4. CASE call[c].step # "me"
  <2>1. /\ CallsOf(h) = {c} /\ ~ call[c].given_up
        /\ call[c].step # "refused"
        /\ call[c].step \in {"rotated", "signedIn"} => LiveOf(h) = {call[c].next}
        /\ call[c].step = "loggedOut" => LiveOf(h) = {}
    BY <1>1, <1>2, <1>4, OwnCall
  <2>2. /\ \/ Rotated(c) \/ Adopt(c) \/ LoggedOut(c)
        /\ call[c].step \in {"rotated", "signedIn", "loggedOut"}
    BY <1>4, <2>1 DEF InTab, Rotated, Refused, Me, MeFails, Adopt, LoggedOut, Lose, Forget, At
  <2>3. PICK k : /\ stored' = [stored EXCEPT ![h] = k]
                 /\ k = IF call[c].step = "loggedOut" THEN NoToken ELSE call[c].next
    BY <1>1, <2>2 DEF Rotated, Adopt, LoggedOut, At, Store
  <2>4. stored'[h] = k /\ \A d \in Devices \ {h} : stored'[d] = stored[d]
    BY <1>2, <2>3 DEF TypeOK
  <2>5. call[c].step # "loggedOut" => call[c].next # NoToken
    BY <1>2, <2>2 DEF TypeOK, Tokens, NoToken
  <2>6. Agrees(h)'
    BY <1>2, <2>1, <2>2, <2>3, <2>4, <2>5 DEF Agrees, NoToken
  <2>7. PICK q \in Call \cup {Idle} :
           /\ call' = [call EXCEPT ![c] = q]
           /\ q = Idle \/ (q.step = "me" /\ q.tab = call[c].tab)
    <3>1. CASE End(c)
      BY <3>1, EndCall
    <3>2. CASE To(c, "me")
      <4>1. "me" \in Steps
        BY DEF Steps
      <4>2. \E q \in Call :
                /\ call' = [call EXCEPT ![c] = q]
                /\ q.step = "me" /\ q.next = call[c].next /\ q.tab = call[c].tab
                /\ q.token = call[c].token /\ q.given_up = call[c].given_up
        BY <1>2, <3>2, <4>1, ToCall
      <4> QED
        BY <4>2
    <3> QED
      BY <2>2, <3>1, <3>2 DEF Rotated, Adopt, LoggedOut
  <2> QED
    BY <1>1, <1>2, <2>1, <2>4, <2>6, <2>7, OwnStep DEF Home
<1> QED
  BY <1>3, <1>4

\* And so do the calls and the loads that a page begins.
LEMMA PageSound ==
    ASSUME TypeOK, TypeOK', \A d \in Devices : Sound(d), NEW t \in Tabs,
           \/ \E c \in Calls : EnsureFreshSession(c, t) \/ SignIn(c, t) \/ SignOut(c, t)
           \/ Load(t) \/ SignOutAlone(t),
           ~ disturbed'
    PROVE  \A d \in Devices : Sound(d)'
<1>1. UNCHANGED <<session, stored>> /\ \A d \in Devices : LiveOf(d)' = LiveOf(d)
  <2>1. UNCHANGED <<session, stored>>
    BY DEF EnsureFreshSession, SignIn, SignOut, Begin, Load, SignOutAlone
  <2> QED
    BY <2>1 DEF LiveOf, Tokens
<1>2. ASSUME NEW c \in Calls, EnsureFreshSession(c, t) \/ SignIn(c, t) \/ SignOut(c, t)
      PROVE  \A d \in Devices : Sound(d)'
  <2>1. PICK h : h = DeviceOf[t]
    OBVIOUS
  <2>2. h \in Devices /\ ~ Busy(c)
    BY <1>2, <2>1, DeviceAssumption DEF EnsureFreshSession, SignIn, SignOut, Begin
  <2>3. CallsOf(h) = {}
    BY <1>2, <2>1, NothingToOverlap
  <2>4. Agrees(h)
    BY <2>2, <2>3 DEF Sound
  <2>5. PICK q \in Call :
           /\ call' = [call EXCEPT ![c] = q]
           /\ q.step = "signIn" \/ (/\ q.step \in {"refresh", "logout"}
                                    /\ q.token \in Tokens /\ q.token = stored[DeviceOf[t]])
           /\ q.tab = t /\ q.given_up = FALSE /\ q # Idle
    BY <1>2, PageCall
  <2>6. call'[c] = q
    BY <2>5, StepCall
  <2>7. q.step = "signIn" => stored[h] = NoToken
    <3>1. q.step = "signIn" => SignIn(c, t)
      BY <1>2, <2>6 DEF EnsureFreshSession, SignOut, Begin, TypeOK
    <3> QED
      BY <2>1, <3>1 DEF SignIn
  <2>8. q.step # "signIn" => q.token # NoToken /\ q.token = stored[h]
    BY <2>1, <2>5 DEF Tokens, NoToken
  <2>9. Accounted(c)'
    <3>1. LiveOf(h) = {stored[h]} \ {NoToken}
      BY <2>4 DEF Agrees
    <3> QED
      BY <1>1, <2>1, <2>2, <2>5, <2>6, <2>7, <2>8, <3>1 DEF Accounted, Home
  <2> QED
    BY <1>1, <2>1, <2>2, <2>3, <2>5, <2>9, OwnStep
<1>3. CASE Load(t)
  <2>1. ASSUME NEW b \in Calls, ~ (Busy(b) /\ call[b].tab = t)
        PROVE  call'[b] = call[b]
    BY <1>3, <2>1 DEF Load
  <2>2. ASSUME NEW b \in Calls, Busy(b), call[b].tab = t
        PROVE  call[b].step = "me" /\ call'[b] = Idle
    <3>1. call[b].step = "me" /\ call'[b] = GivenUp(call[b])
      BY <1>3, <2>2 DEF Load
    <3> QED
      BY <3>1 DEF GivenUp, Asking
  <2>3. ASSUME NEW d \in Devices
        PROVE  CallsOf(d)' = CallsOf(d) /\ \A b \in CallsOf(d) : call'[b] = call[b]
    <3>1. \A b \in Calls : b \in CallsOf(d)' <=> b \in CallsOf(d)
      BY <2>1, <2>2 DEF CallsOf, Busy, Home
    <3> QED
      BY <2>1, <2>2, <3>1 DEF CallsOf
  <2> QED
    BY <1>1, <2>3, SoundFrame
<1>4. CASE SignOutAlone(t)
  <2>1. \A d \in Devices : CallsOf(d)' = CallsOf(d) /\ \A b \in CallsOf(d) : call'[b] = call[b]
    BY <1>4 DEF SignOutAlone, CallsOf, Busy, Home
  <2> QED
    BY <1>1, <2>1, SoundFrame
<1> QED
  BY <1>2, <1>3, <1>4

-------------------------------------------------------------------------------
(* The invariant *)

\* Nothing takes back that a call was disturbed.
LEMMA DisturbedStays ==
    ASSUME TypeOK, Next, disturbed
    PROVE  disturbed'
<1>1. ASSUME NEW c \in Calls, OnServer(c) \/ InTab(c) \/ Lose(c) \/ Forget(c)
      PROVE  disturbed'
  BY <1>1 DEF OnServer, InTab, RefreshRead, RefreshRotate, RefreshRevoke, RefreshFails,
       StartSession, Logout, Answer, Rotated, Refused, Me, MeFails, Adopt, LoggedOut, Lose, Forget
<1>2. ASSUME NEW c \in Calls, NEW t \in Tabs,
             EnsureFreshSession(c, t) \/ SignIn(c, t) \/ SignOut(c, t)
      PROVE  disturbed'
  BY <1>2 DEF EnsureFreshSession, SignIn, SignOut, Begin
<1>3. ASSUME NEW t \in Tabs, Load(t) \/ SignOutAlone(t)
      PROVE  disturbed'
  BY <1>3 DEF Load, SignOutAlone
<1> QED
  BY <1>1, <1>2, <1>3 DEF Next

\* The invariant holds at the start.
LEMMA InitInvariant ==
    ASSUME Init
    PROVE  IInv
<1>1. TypeOK
  BY InitTypes
<1>2. Tokens = {}
  BY DEF Init, Tokens
<1>3. OnlyOverlapForks /\ Lineage
  BY <1>2 DEF Init, OnlyOverlapForks, Lineage, At, Busy
<1>4. \A d \in Devices : Sound(d)
  BY <1>2 DEF Init, Sound, Agrees, CallsOf, LiveOf, Busy, NoToken
<1> QED
  BY <1>1, <1>3, <1>4 DEF IInv

\* Every step keeps the invariant.
LEMMA InvariantStep ==
    ASSUME IInv, [Next]_vars
    PROVE  IInv'
<1>1. TypeOK /\ TypeOK' /\ OnlyOverlapForks /\ Lineage
  BY TypesKept DEF IInv
<1>2. CASE Next
  <2>1. Lineage' /\ OnlyOverlapForks'
    BY <1>1, <1>2, LineageStep
  <2>2. ASSUME ~ disturbed'
        PROVE  \A d \in Devices : Sound(d)'
    <3>1. \A d \in Devices : Sound(d)
      BY <1>1, <1>2, <2>2, DisturbedStays DEF IInv
    <3>2. ASSUME NEW c \in Calls, OnServer(c)
          PROVE  \A d \in Devices : Sound(d)'
      BY <1>1, <2>2, <3>1, <3>2, ServerSound
    <3>3. ASSUME NEW c \in Calls, InTab(c) \/ Lose(c) \/ Forget(c)
          PROVE  \A d \in Devices : Sound(d)'
      BY <1>1, <2>2, <3>1, <3>3, TabSound
    <3>4. ASSUME NEW t \in Tabs,
                 \/ \E c \in Calls : EnsureFreshSession(c, t) \/ SignIn(c, t) \/ SignOut(c, t)
                 \/ Load(t) \/ SignOutAlone(t)
          PROVE  \A d \in Devices : Sound(d)'
      BY <1>1, <2>2, <3>1, <3>4, PageSound
    <3> QED
      BY <1>2, <3>2, <3>3, <3>4 DEF Next
  <2> QED
    BY <1>1, <2>1, <2>2 DEF IInv
<1>3. CASE UNCHANGED vars
  <2>1. /\ Tokens' = Tokens /\ \A c \in Calls : Busy(c)' <=> Busy(c)
        /\ \A d \in Devices : LiveOf(d)' = LiveOf(d) /\ CallsOf(d)' = CallsOf(d)
    BY <1>3 DEF vars, Tokens, Busy, LiveOf, CallsOf, Home
  <2>2. Lineage' /\ OnlyOverlapForks'
    BY <1>1, <1>3, <2>1 DEF vars, Lineage, OnlyOverlapForks, At
  <2>3. ~ disturbed' => \A d \in Devices : Sound(d)'
    BY <1>1, <1>3, <2>1, SoundFrame DEF vars, IInv
  <2> QED
    BY <1>1, <2>2, <2>3 DEF IInv
<1> QED
  BY <1>2, <1>3

\* The inductive invariant, for every number of devices, tabs and calls.
THEOREM Invariant == Spec => []IInv
  BY InitInvariant, InvariantStep, PTL DEF Spec

\* refreshSession and AuthService.refresh: as long as no call is lost and no two
\* calls of one device overlap, the token a device has stored is its one live
\* session, in any interleaving with the calls of the other devices.
THEOREM AgreesUndisturbed == Spec => []AgreeUndisturbed
<1>1. IInv => AgreeUndisturbed
  BY DEF IInv, AgreeUndisturbed, Sound
<1> QED
  BY <1>1, Invariant, PTL

\* AuthService.refresh: a token forks only if two refreshes have read it before
\* either has revoked it; lost answers, retries and reloads do not fork it.
THEOREM ForksOnlyByOverlap == Spec => []OnlyOverlapForks
<1>1. IInv => OnlyOverlapForks
  BY DEF IInv
<1> QED
  BY <1>1, Invariant, PTL

===============================================================================
