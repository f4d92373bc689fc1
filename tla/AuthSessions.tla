----------------------------- MODULE AuthSessions -----------------------------
(***************************************************************************)
(* The sessions of one account: the rows of auth_sessions as AuthService   *)
(* (auth_service.py) rotates and revokes them, and what the browsers that  *)
(* present their refresh tokens keep (api/client.ts, tokens.ts,            *)
(* store/session.ts).                                                      *)
(*                                                                         *)
(* The tabs of a device share the refresh token, which is in localStorage, *)
(* but each has its own promise of the refresh in flight.  On the server   *)
(* the SELECT is a step of its own, and the write and the commit are one   *)
(* step (see MessageService).  A call that the client has given up may     *)
(* still be served.                                                        *)
(*                                                                         *)
(* Abstracted: access tokens (any request may be answered with 401, also   *)
(* one that was sent with a token that has been replaced since), one-time  *)
(* codes, the life time of refresh tokens.                                 *)
(*                                                                         *)
(* A definition named Bug... is the next one with a plausible mistake in   *)
(* it; no other definition uses it, see "mutants" in PROJECT.json.         *)
(***************************************************************************)
EXTENDS Naturals, Sequences

CONSTANTS Devices,    \* browsers
          Tabs,       \* pages
          DeviceOf,   \* the device of each tab
          Calls,      \* slots for the calls in flight
          MaxTokens   \* bound on the refresh tokens issued

ASSUME DeviceAssumption == DeviceOf \in [Tabs -> Devices]

VARIABLES session,    \* auth_sessions, position = refresh token
          stored,     \* localStorage: the refresh token of each device, or NoToken
          status,     \* what the session store of each tab says
          call,       \* calls in flight
          disturbed,  \* history: was a call lost, or did two calls of a device overlap?
          raced       \* history: tokens that were read by two refreshes at once

vars == <<session, stored, status, call, disturbed, raced>>

NoToken == 0
Tokens == 1..Len(session)

Session == [live : BOOLEAN, device : Devices, from : Nat]
Steps == {"refresh", "rotate", "rotated", "revoke", "refused",
          "logout", "loggedOut", "signIn", "signedIn", "me"}
Call == [step : Steps, tab : Tabs, token : Nat, next : Nat, restore : BOOLEAN, given_up : BOOLEAN]
Idle == [step |-> "idle"]

Asking == {"refresh", "rotate", "revoke", "logout", "signIn"}
Refreshing == {"refresh", "rotate", "rotated", "revoke", "refused"}

Busy(c) == call[c] # Idle
Home(c) == DeviceOf[call[c].tab]

\* The calls of a device that touch its session.
CallsOf(d) == {c \in Calls : Busy(c) /\ Home(c) = d /\ call[c].step # "me"}
LiveOf(d) == {k \in Tokens : session[k].live /\ session[k].device = d}

\* Two tabs, or two calls that are not both refreshes of one tab.
Overlaps(t, step) ==
    \E c \in CallsOf(DeviceOf[t]) : call[c].tab # t \/ {step, call[c].step} \ Refreshing # {}

-------------------------------------------------------------------------------

\* A tab makes a call with the refresh token it finds in the storage.  Only restore
\* refreshes in a tab that is not authenticated.
Begin(c, t, step) ==
    /\ ~ Busy(c)
    /\ call' = [call EXCEPT ![c] = [step |-> step, tab |-> t, token |-> stored[DeviceOf[t]],
                                    next |-> NoToken, restore |-> status[t] # "authenticated",
                                    given_up |-> FALSE]]
    /\ disturbed' = (disturbed \/ Overlaps(t, step))
    /\ UNCHANGED <<session, stored, raced>>

To(c, step) == call' = [call EXCEPT ![c].step = step]
End(c) == call' = [call EXCEPT ![c] = Idle]

\* The server answers a call, if somebody still listens.
Answer(c, step, next) ==
    /\ call' = [call EXCEPT ![c] =
                  IF @.given_up THEN Idle
                  ELSE [@ EXCEPT !.step = step, !.token = NoToken, !.next = next]]
    /\ UNCHANGED <<stored, status, disturbed>>

\* A call that nobody waits for; the server may still see to it.
GivenUp(q) == IF q.step \in Asking THEN [q EXCEPT !.given_up = TRUE] ELSE Idle

At(c, step) == Busy(c) /\ call[c].step = step

\* storeTokens and clearTokens, as far as the other tabs see them.
Store(c, k) == stored' = [stored EXCEPT ![Home(c)] = k]
Now(c, s) == status' = [status EXCEPT ![call[c].tab] = s]

-------------------------------------------------------------------------------
(* ensureFreshSession and refresh *)

BugNotShared(c, t) ==
    /\ stored[DeviceOf[t]] # NoToken
    /\ Begin(c, t, "refresh")
    /\ UNCHANGED status

\* restore, or the answer 401 to a request.  Callers in one tab share a refresh.
EnsureFreshSession(c, t) ==
    /\ stored[DeviceOf[t]] # NoToken
    /\ \A b \in Calls : Busy(b) /\ call[b].tab = t /\ call[b].step \in Refreshing
                        => call[b].given_up
    /\ Begin(c, t, "refresh")
    /\ UNCHANGED status

RefreshRead(c) ==
    /\ At(c, "refresh")
    /\ To(c, IF session[call[c].token].live THEN "rotate" ELSE "revoke")
    /\ raced' = raced \cup {k \in {call[c].token} :
                              \E b \in Calls : Busy(b) /\ call[b].step = "rotate"
                                               /\ call[b].token = k}
    /\ UNCHANGED <<session, stored, status, disturbed>>

BugRotateKeeps(c) ==
    /\ At(c, "rotate")
    /\ Len(session) < MaxTokens
    /\ session' = Append(session, [live |-> TRUE, device |-> Home(c), from |-> call[c].token])
    /\ Answer(c, "rotated", Len(session) + 1)
    /\ UNCHANGED raced

\* The row that was read is revoked, whatever has happened to it since.
RefreshRotate(c) ==
    /\ At(c, "rotate")
    /\ Len(session) < MaxTokens
    /\ session' = Append([session EXCEPT ![call[c].token].live = FALSE],
                         [live |-> TRUE, device |-> Home(c), from |-> call[c].token])
    /\ Answer(c, "rotated", Len(session) + 1)
    /\ UNCHANGED raced

\* _revoke_all_for_user
RefreshRevoke(c) ==
    /\ At(c, "revoke")
    /\ session' = [k \in Tokens |-> [session[k] EXCEPT !.live = FALSE]]
    /\ Answer(c, "refused", NoToken)
    /\ UNCHANGED raced

\* The write lock is not to be had, or another error on the way: not ok either.
RefreshFails(c) ==
    /\ Busy(c) /\ call[c].step \in {"refresh", "rotate", "revoke"}
    /\ call' = [call EXCEPT ![c] = IF @.given_up THEN Idle
                                   ELSE [@ EXCEPT !.step = "refused", !.token = NoToken]]
    /\ disturbed' = TRUE
    /\ UNCHANGED <<session, stored, status, raced>>

\* restore goes on to ask who the user is.
Rotated(c) ==
    /\ At(c, "rotated")
    /\ Store(c, call[c].next)
    /\ IF call[c].restore THEN To(c, "me") ELSE End(c)
    /\ UNCHANGED <<session, status, disturbed, raced>>

\* The storage is cleared, whatever it holds by now.
Refused(c) ==
    /\ At(c, "refused")
    /\ Store(c, NoToken)
    /\ Now(c, IF call[c].restore THEN "anonymous" ELSE status[call[c].tab])
    /\ End(c)
    /\ UNCHANGED <<session, disturbed, raced>>

-------------------------------------------------------------------------------
(* The session store *)

\* A page is loaded: the calls it had in flight are nobody's now.
Load(t) ==
    /\ status' = [status EXCEPT ![t] = IF stored[DeviceOf[t]] = NoToken
                                         THEN "anonymous" ELSE "loading"]
    /\ call' = [c \in Calls |-> IF Busy(c) /\ call[c].tab = t THEN GivenUp(call[c])
                                                              ELSE call[c]]
    /\ disturbed' = (disturbed \/ \E c \in Calls : Busy(c) /\ call[c].tab = t
                                                   /\ call[c].step # "me")
    /\ UNCHANGED <<session, stored, raced>>

Me(c) ==
    /\ At(c, "me")
    /\ Now(c, "authenticated")
    /\ End(c)
    /\ UNCHANGED <<session, stored, disturbed, raced>>

MeFails(c) ==
    /\ At(c, "me")
    /\ Store(c, NoToken)
    /\ Now(c, "anonymous")
    /\ End(c)
    /\ disturbed' = TRUE
    /\ UNCHANGED <<session, raced>>

\* The buttons of the sign-in page are disabled while one of its calls is awaited.
Disabled(t) ==
    \E b \in Calls : /\ Busy(b) /\ call[b].tab = t
                     /\ call[b].step \in {"signIn", "signedIn"} /\ ~ call[b].given_up

\* A page that asks for a code and signs in with it; another tab may have done so
\* already.
SignIn(c, t) ==
    /\ status[t] # "authenticated"
    /\ ~ Busy(c)
    /\ ~ Disabled(t)
    /\ call' = [call EXCEPT ![c] = [step |-> "signIn", tab |-> t, token |-> NoToken,
                                    next |-> NoToken, restore |-> FALSE, given_up |-> FALSE]]
    /\ disturbed' = (disturbed \/ Overlaps(t, "signIn") \/ stored[DeviceOf[t]] # NoToken)
    /\ UNCHANGED <<session, stored, status, raced>>

\* start_session
StartSession(c) ==
    /\ At(c, "signIn")
    /\ Len(session) < MaxTokens
    /\ session' = Append(session, [live |-> TRUE, device |-> Home(c), from |-> NoToken])
    /\ Answer(c, "signedIn", Len(session) + 1)
    /\ UNCHANGED raced

Adopt(c) ==
    /\ At(c, "signedIn")
    /\ Store(c, call[c].next)
    /\ Now(c, "authenticated")
    /\ End(c)
    /\ UNCHANGED <<session, disturbed, raced>>

SignOut(c, t) ==
    /\ status[t] = "authenticated"
    /\ stored[DeviceOf[t]] # NoToken
    /\ Begin(c, t, "logout")
    /\ UNCHANGED status

\* Another tab has signed the device out already.
SignOutAlone(t) ==
    /\ status[t] = "authenticated"
    /\ stored[DeviceOf[t]] = NoToken
    /\ status' = [status EXCEPT ![t] = "anonymous"]
    /\ UNCHANGED <<session, stored, call, disturbed, raced>>

Logout(c) ==
    /\ At(c, "logout")
    /\ session' = [session EXCEPT ![call[c].token].live = FALSE]
    /\ Answer(c, "loggedOut", NoToken)
    /\ UNCHANGED raced

LoggedOut(c) ==
    /\ At(c, "loggedOut")
    /\ Store(c, NoToken)
    /\ Now(c, "anonymous")
    /\ End(c)
    /\ UNCHANGED <<session, disturbed, raced>>

-------------------------------------------------------------------------------
(* Calls that fail *)

\* The network fails: the promise is rejected while the server may go on.
\* signOut clears the storage all the same; restore stays at "loading".
Lose(c) ==
    /\ Busy(c) /\ call[c].step # "me" /\ ~ call[c].given_up
    /\ call' = [call EXCEPT ![c] = GivenUp(@)]
    /\ IF call[c].step \in {"logout", "loggedOut"}
         THEN Store(c, NoToken) /\ Now(c, "anonymous")
         ELSE UNCHANGED <<stored, status>>
    /\ disturbed' = TRUE
    /\ UNCHANGED <<session, raced>>

\* It never reached the server, or failed there.
Forget(c) ==
    /\ Busy(c) /\ call[c].given_up
    /\ End(c)
    /\ UNCHANGED <<session, stored, status, disturbed, raced>>

-------------------------------------------------------------------------------

Init ==
    /\ session = <<>>
    /\ stored = [d \in Devices |-> NoToken]
    /\ status = [t \in Tabs |-> "anonymous"]
    /\ call = [c \in Calls |-> Idle]
    /\ disturbed = FALSE
    /\ raced = {}

OnServer(c) ==
    \/ RefreshRead(c) \/ RefreshRotate(c) \/ RefreshRevoke(c) \/ RefreshFails(c)
    \/ StartSession(c) \/ Logout(c)

InTab(c) == Rotated(c) \/ Refused(c) \/ Me(c) \/ MeFails(c) \/ Adopt(c) \/ LoggedOut(c)

Next ==
    \/ \E c \in Calls : OnServer(c) \/ InTab(c) \/ Lose(c) \/ Forget(c)
    \/ \E c \in Calls, t \in Tabs : EnsureFreshSession(c, t) \/ SignIn(c, t) \/ SignOut(c, t)
    \/ \E t \in Tabs : Load(t) \/ SignOutAlone(t)

Spec == Init /\ [][Next]_vars

-------------------------------------------------------------------------------
(* Properties *)

TypeOK ==
    /\ session \in Seq(Session)
    /\ stored \in [Devices -> {NoToken} \cup Tokens]
    /\ status \in [Tabs -> {"loading", "anonymous", "authenticated"}]
    /\ call \in [Calls -> Call \cup {Idle}]
    /\ disturbed \in BOOLEAN
    /\ raced \subseteq Tokens
    /\ \A c \in Calls : Busy(c) =>
          /\ call[c].step \in {"refresh", "rotate", "revoke", "logout"} => call[c].token \in Tokens
          /\ call[c].step \in {"rotated", "signedIn"} => call[c].next \in Tokens

\* As long as no call is lost and no two calls of a device overlap, the token a
\* device has stored is its one live session: refreshes of any requests, in any
\* tab, neither end a session nor leave one behind.
Agrees(d) == LiveOf(d) = {stored[d]} \ {NoToken}

AgreeUndisturbed == ~ disturbed => \A d \in Devices : CallsOf(d) = {} => Agrees(d)

\* A token has two successors only if two refreshes have read it before either
\* has written: no lost answer, retry, reload or sign-out makes it so.
OnlyOverlapForks ==
    \A j, k \in Tokens : j # k /\ session[j].from = session[k].from /\ session[j].from # NoToken
                         => session[j].from \in raced

\* What a call in flight says about the sessions and the storage of its device,
\* as long as nothing has disturbed it.
Accounted(c) ==
    LET d    == Home(c)
        live == LiveOf(d)
    IN  /\ ~ call[c].given_up
        /\ call[c].step \notin {"revoke", "refused"}
        /\ call[c].step \in {"refresh", "rotate", "logout"} =>
              stored[d] = call[c].token /\ live = {call[c].token}
        /\ call[c].step \in {"rotated", "signedIn"} => live = {call[c].next}
        /\ call[c].step = "signIn" => stored[d] = NoToken /\ live = {}
        /\ call[c].step = "loggedOut" => live = {}

Sound(d) ==
    /\ CallsOf(d) = {} => Agrees(d)
    /\ \A c \in CallsOf(d) : CallsOf(d) = {c} /\ Accounted(c)

\* A token with a successor is not live, and a refresh still to write either
\* knows of no successor or has raced.
Lineage ==
    /\ \A k \in Tokens : session[k].from # NoToken =>
          session[k].from \in Tokens /\ ~ session[session[k].from].live
    /\ \A c \in Calls : At(c, "rotate") =>
          \/ call[c].token \in raced
          \/ /\ \A k \in Tokens : session[k].from # call[c].token
             /\ \A b \in Calls \ {c} : At(b, "rotate") => call[b].token # call[c].token

\* The inductive invariant.
IInv ==
    /\ TypeOK
    /\ OnlyOverlapForks
    /\ Lineage
    /\ ~ disturbed => \A d \in Devices : Sound(d)
===============================================================================
