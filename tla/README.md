# Verification of signal_clone

TLA+ models of the messaging service in this repository, the TLC runs that check
them on small instances and the TLAPS proofs of what holds for every size. Paths
are relative to `src/`, the source repository.

## 1. The system

A FastAPI backend (`backend/app`, SQLite in WAL mode behind SQLAlchemy's async
session, one process) and a Next.js PWA (`frontend/src`). Durable changes are
REST calls; a WebSocket per client pushes events; the client keeps a store in
memory and an outbox in IndexedDB. Nothing is serialised in the server: requests
interleave at every `await`, and SQLite serialises only the writes.

| Component | State | Operations | Talks to | Modelled in |
|---|---|---|---|---|
| Message service (`services/message_service.py`, `membership.py`) | `messages`, `conversations.last_seq`, `conversation_members` cursors and badge | `send`, `mark_read`, `mark_delivered`, `delete`, listing | bus (after commit), attachments | `MessageService`, `MessageLog` |
| Conversations and groups (`services/conversation_service.py`) | `conversations`, members' role and `left_at` | `create_direct`, `create_group`, `add_members`, `remove_member`, `leave`, `set_role`, `update`, `get`, listing | message service (who is a peer) | `GroupMembership`; seen from a client in `Conversations` |
| Reactions (`services/reaction_service.py`) | `reactions` | `react`, `clear` | bus | only their answers, in `ChatStore` and `Conversations` |
| Attachments (`services/attachment_service.py`, `storage.py`) | `attachments`, stored objects | `register`, `claim_attachments`, presign | send | only their calls, in `Composer` |
| Sessions and OTP (`services/auth_service.py`, `core/security.py`) | `verification_codes`, `auth_sessions`, `users` | `request_otp`, `verify_otp`, `register`, `refresh`, `logout` | every request | `AuthSessions`, without the codes |
| Realtime (`realtime/registry.py`, `handler.py`, `bus.py`, `presence_service.py`) | sockets per user, `users.last_seen_at` | accept, read, announce, deliver, publish | every service that publishes | `Realtime` |
| Contacts, users, search (`contact_service.py`, `user_service.py`, `search_service.py`) | `contacts`, `users` | CRUD, queries | none | as the dialogs call them, in `Dialogs` |
| Client store (`lib/store/chat.ts`) | conversations, messages per conversation, paging, typing | `loadConversations`, `openConversation`, `loadOlder`, `sendMessage`, `retryMessage`, `applyIncomingMessage`, `applyReceipt`, `markRead`, `flushOutbox`, `recoverMissedMessages`, the calls that change a group | API client, outbox, socket | `ChatStore` (a thread), `Conversations` (the list), `Outbox` (sending) |
| Outbox (`lib/offline/outbox.ts`) | IndexedDB queue | enqueue, list, remove | client store | `Outbox`, `Delivery` |
| Socket (`lib/ws/client.ts`, `useRealtime.ts`) | one WebSocket, heartbeat, reconnection timer | connect, disconnect, reconnect, dispatch | client store, session | `Realtime` |
| API client and session (`lib/api/client.ts`, `lib/store/session.ts`) | the refresh token in `localStorage`, shared by the tabs of a device; per tab the access token and the refresh in flight | `request`, `ensureFreshSession`, `restore`, `adopt`, `signOut` | auth service | `AuthSessions` |
| Presence and typing (`lib/store/presence.ts`) | online users, typing timers | `setTyping`, `setOnline` | socket events | presence in `Realtime` |
| Views (`frontend/src/app`, `components`) | what is typed, attached, searched, selected | the composer, the dialogs, the details of a conversation, rendering | client store | `Composer`, `Dialogs`, `Conversations` |
| Backup (`backend/litestream.yml`, `docker-entrypoint.sh`) | a replica at most a second behind | replicate, restore | the database file | not |

What is hard in it, and what makes each part correct:

* **Messages.** A retry overlaps with its original, a commit fails after the
  sequence number was taken, the process stops between commit and publication,
  two marks of one member overlap. Correct: the sequence is gapless, a
  `client_message_id` has one row, an answer and an event imply a commit,
  cursors go forward, the badge hides nothing, ticks are honest.
* **Groups.** Every decision (is this the last admin? does the row exist?) is
  taken from reads that precede the write lock. Correct: an admin remains, no
  row is lost, a return does not bring an old role back.
* **Outbox.** Several flushes, sends and retries post the same entry; an answer
  is lost; IndexedDB fails; the tab is reloaded. Correct: each message is stored
  once, is kept until it is, and its bubble tells the truth.
* **Connection and presence.** The callbacks of a socket that was left arrive
  when the next one is in use; a user's first and last socket decide what is
  announced, and the announcement happens after further awaits. Correct: one
  connection, kept alive, that comes back; a dot that is right when all is quiet.
* **Client store.** Responses and events arrive in any order, the gap after a
  reconnect is filled by one page, a list that was asked for earlier replaces a
  newer one. Correct: nothing lost, nothing twice, and what is shown becomes what
  the server has without another load.
* **Views.** The user goes on typing, attaching and searching while uploads, a
  send and searches are in flight, and a call outlives the dialog that made it.
  Correct: nothing composed is lost or sent twice, results belong to what is
  typed, one group is made.
* **Sessions.** Refresh tokens rotate; two tabs or a lost response present an
  old one; a sign-out meets a refresh in flight. Correct: one successor per token,
  the token a device has stored is its one live session, nothing is left of a
  device that is signed out.

`PROJECT.json` lists these hazards line by line with the properties about them.

## 2. Modules

| Module | Models | State and how it corresponds |
|---|---|---|
| `MessageLog` | the promise of one conversation | a log of `<<sender, key>>`, tombstones, confirmed sends, told events |
| `MessageService` | `message_service.py` on one conversation | the rows and counters of the tables, one record per request in flight (its next step and the row it has loaded), the events and answers given |
| `GroupMembership` | `conversation_service.py` on one group | membership rows, one record per request in flight, a history flag `outdated` |
| `ChatStore` | `store/chat.ts` with `useRealtime.ts` on one thread | the server's log, the socket, the events not handled yet, the thread, one record per call awaited (what it waits for and what it kept across the await), a history flag `outdated` |
| `Conversations` | the list of `store/chat.ts`, the calls of `ConversationDetails.tsx`, the ticks of `conversation.ts` | the server's versions, last messages and readings; the list; the events published and not handled; one record per call; the histories `dirty` (what changed since a call was made) and `behind` (conversations known not to be shown right) |
| `Delivery` | the promise of an outbox | messages held, messages delivered |
| `Outbox` | `sendMessage`, `retryMessage`, `flushOutbox` over `outbox.ts` and the idempotent `send`, in several tabs | the rows on the server, the queue in IndexedDB, what each tab shows of its entries and with which mark, one record per call of these functions |
| `Realtime` | `ws/client.ts`, `useRealtime.ts`; `handler.py`, `registry.py`; `presence.ts` | of the tab: the current socket, timer and heartbeat, `readyState` and `onclose` per socket; of the server: each handler's place, the registry; what a peer sees |
| `Composer` | `Composer.tsx` and the reply of `[id]/page.tsx` | text, rows, rows with an attachment, the loops of `attachFiles`, the submit in flight; histories of what was used, removed and accepted |
| `Dialogs` | `NewChatModal.tsx`, `NewGroupModal.tsx`, the layout, the search of `ConversationList.tsx` | the dialog shown, the search boxes with timers and results, contacts, the calls in flight and whether their dialog is still there |
| `AuthSessions` | `auth_service.py` with `client.ts`, `tokens.ts`, `session.ts`, for one account | the rows of `auth_sessions` by refresh token, the token each device has stored, the status of each tab, one record per call in flight, history flags `disturbed` and `raced` |

`MC`*M* holds the TLC instances of module *M*, *M*`Proofs` the theorems about
it, and `ViewsProofs` those about `Composer` and `Dialogs`.
`MessageService` implements `MessageLog`, and `Outbox` implements `Delivery`.
The composition is by what each abstracts of the next: `Outbox` and `ChatStore` use
of the message service what `MessageService` shows (one row per key, a gapless log,
events that imply a commit); `Composer` uses of the store that a send is accepted
or rejected, which is `Outbox.EnqueueFails`; `Conversations` lets any change be
refused, which is `GroupMembership`'s to decide.

**Grain of the server.** pysqlite opens a transaction at the first write, so a
SELECT before it is a step of its own, and everything from the first write to
`commit()` is one step under SQLite's write lock. Publication follows in a further
step. A request's record keeps the row it loaded, because the ORM neither rereads
it nor writes a column whose new value equals the loaded one; both effects are in
the actions (`ReadCommit`, `RecountCommit`, `RoleWrite`, `LeaveWrite`, `AddWrite`).
`Fail` is every way a request ends before its commit, `Restart` loses the
requests in flight. A handler of a socket takes the steps between its awaits:
admission, announcement, the end of its loop.

**Grain of the client.** A step is what JavaScript runs between two awaits, or an
event handler or timeout. A call is sent (`LoadOlder`), served at some later moment
by the server (`ServeOlder`), and its response handled at some moment after that
(`OlderLoaded`), with events and other calls in between. In `ChatStore` a `thread` is
the array of messages: its rows by sequence number, each with "was it deleted", its
drafts, which of them are marked as failed, `hasMore` and `loading`. `news` are the
events of committed changes that the client has not handled; they are published and
handled in any order, and lost by `Disconnect` or `Miss`. `outdated` says that the
thread has changed since a call was sent: it is how `OnlyStaleAnswersUndo` names the
responses to blame. `Conversations` does the same for each conversation of the list
with `dirty`; there everything about a conversation but its last message and its
readings is one version number, which each change raises.

In `Outbox` a sender is one call of a store function; a single send is a flush of one
entry. `seen` is whether the thread had the entry, which decides whether
`retryMessage` or the flush itself posts it, and so whether a failure stops the
flush. An `orphan` is a request whose tab was reloaded: the server still sees to it.
`doomed` are the messages the server refuses every time.

In `Realtime` a socket is a slot that is used again when neither side knows it.
`handled` says that `onclose` is attached: `open()` detaches it from the socket it
replaces, `disconnect()` does not. `newest` and `right` record whether the
announcement that was decided last is also the last that was shown.

In `Composer` an item (a word, a file, a reply) is used once, so one can ask at any
moment where it is. In `Dialogs` a call that outlives its dialog stays in flight with
`alive` false; `unsure` names the cases in which the code itself cannot know what
became of a call.

In `AuthSessions` a refresh is read (`RefreshRead`), written and committed
(`RefreshRotate`, or `RefreshRevoke` if the row that was read is revoked), and its
answer handled by the tab (`Rotated`, `Refused`); a sign-in is `SignIn`,
`StartSession`, `Adopt`, a sign-out `SignOut`, `Logout`, `LoggedOut`. `Lose` and
`Load` (a page is reloaded) leave behind a call that the server may still see to.
`disturbed` says that a call was lost or failed, or that two calls of one device
overlapped; two callers of one tab that share its refresh are one call.
Abstracted are access tokens (any request of an authenticated tab may be answered
with 401), one-time codes and the life time of refresh tokens.

**Mutants.** Definitions named `Bug...` are a plausible mistake in the definition
that follows them; nothing else uses them. Replacing the one by the other makes
the property named in `PROJECT.json` fail.

## 3. Runs

| Run | Question | Bounds | States |
|---|---|---|---|
| `message_overlap` | do overlapping sends, marks, deletions, departures and restarts implement the log, and what can they do to cursors, badges and ticks? | 2 users, 1 key, 2 requests at once, `MaxSeq` 2 | 1,000,000 |
| `message_live` | is every commit announced? | 2 users who send, 2 keys, 2 requests, `MaxSeq` 2, fairness, no restart | |
| `message_retry` | is a send whose row exists answered with it? (finding 1) | counterexample | |
| `group_overlap` | what can two overlapping requests do to roles and rows? | 3 users, 2 requests | |
| `chat_overlap` | what can responses, events and own sends in any order do to a thread? | 1 draft, 2 calls, pages of 1, `MaxSeq` 2 | |
| `chat_careful` | is a thread whole after every reconnection? | 1 draft, 2 calls that do not overlap, pages of 2, `MaxSeq` 4, the environment of `CarefulSpec` | |
| `conversations` | do ticks tell the truth, is the list right without a reload, and what takes back what was shown? | 1 conversation, 1 peer, 2 calls, `MaxSeq` 2, `MaxVer` 2 | 1,900,000 |
| `outbox` | is each message stored once and kept until it is, are the marks true, and what can stay in the queue? | 2 messages, 1 tab, 2 senders, fairness | 48,000 |
| `realtime` | is there one connection, kept alive, that comes back, and is the dot right? | 3 sockets, fairness | 257,000 |
| `composer` | can anything composed be lost, left out or sent twice, or a row block the composer? | 2 words, 2 files, 1 reply, 2 loops of uploads | 857,000 |
| `dialogs` | do results and contacts match, is one group made, does a search end? | 1 user, 2 terms, 2 calls, `Many` 2, fairness | 276,000 |
| `auth_sessions` | is the stored token the live session, and when does a token fork? | 2 tabs on one device and 1 on another, 2 calls, `MaxTokens` 3, the phone of `MCPhoneSpec` | |

Why the bounds are enough. Two requests, senders, loops or calls are every overlap
the actions can tell apart: each step of one compares what it has loaded or kept
with the state as it is, and one other actor changes that arbitrarily. Two users with
one key are two possible messages: a cursor can be behind or level, and a retry can
meet its own row or another sender's. A third user gives a group a successor who is
not the actor. In `chat_overlap` a page of one row makes every thread longer than a
page, and two messages are one on a page and one off it. `chat_careful` needs four
messages in pages of two: a thread with a page of history, an outage of a page, and
one older message to ask for. `MaxSeq` and `MaxVer` 2 in `conversations` are a value
before and one after a call was answered, twice. Two messages in `outbox` are one that
blocks or is overtaken and one behind it. Three sockets in `realtime` are one that is
left and not closed yet, one in use, and one that replaces it. One user suffices in
`dialogs`, where a term that finds nobody and one that finds him tell results apart,
and no user's row depends on another's; `Many` stops the count of groups where one
more would tell nothing. Three tokens in `auth_sessions` are a sign-in, its successor
and a second successor or a second device. The theorems carry the invariants to
every size; several tabs in `Outbox`, in particular, are only in the theorems.

`chat_careful` restricts the environment, because what it checks does not hold
without. `CarefulSpec` is `Spec` with `OneCall` (a call begins when no other is in
flight: with two, a page that was asked for first may replace what came since),
`Lucky` (a thread starts with a page of history or with all there is,
events arrive in order and only while no call is in flight, recovery succeeds,
no answer to a deletion is lost) and `Careful` (in an outage nothing is sent from
here and nothing deleted, at most a page arrives, and all of it is missed). The
restrictions are the conditions under which recovery works: each was added because
TLC found a behaviour without it that leaves a hole or a stale row. The theorems
about it are for any page size, length of the log and number of job slots.

In `auth_sessions` two tabs of the laptop share a token without sharing a refresh,
and the phone shows what the laptop's trouble does to a device that has none. To
keep the run small the phone's page is not reloaded and its calls arrive
(`MCPhoneSpec`); the laptop's calls are lost, fail and are cut off at any moment.

`CHECK_DEADLOCK FALSE` stands in `group_overlap`, where a group that everybody has
left admits no further operation, and in `chat_careful`, where the restricted
environment may have no move left.

**Fairness**, in the runs with liveness properties only.

* `message_live`: weak fairness of each request's next step (`Handle`). An asyncio
  task that can run is run, SQLite's lock is freed by every writer, and
  `busy_timeout` bounds the wait. A restart is excluded there, because it does lose the
  announcement: the client's gap recovery, not the server, makes up for that.
* `outbox`: weak fairness of what a sender does next and of the server's answer
  (`Respond`, `Serve`), as JavaScript runs its continuations; strong fairness of
  `Flush`, because the socket opens again and again; and from some time on no call
  is lost and the tab is not reloaded, without which nothing can be promised.
* `realtime`: weak fairness of the timer (`Reconnect`), of the end of an attempt
  (`OnClose`), and of the server's tasks (`Announce`, `AnnounceFails`, `Leave` of a socket
  that is gone); strong fairness of `Admit` and `OnOpen`: of attempts made again and
  again one succeeds.
* `dialogs`: weak fairness of the timeout (`Search`) and of the answers (`Respond`; a call
  may also fail), and a user who one day stops typing.

## 4. Findings

1. **A racing retry is refused** (`message_service.py:78`). The unique-key error is
   raised by `flush()`, outside the `try` that handles it, so the retry ends in an
   error although the message exists. README.md:121-125 promises an idempotent call.
   `message_retry` shows the scenario.

What else the code does that a user would not expect is stated by properties that
name it as the exception, so that nothing beyond it can happen:

* *Messages.* Cursors move back, and a badge hides unread messages, only through a mark
  whose copy of the row or whose count is out of date (`OnlyOverlapMovesBack`,
  `OnlyOverlapHidesUnread`); the count may be stale even where the row is equal again.
* *Groups.* Two admins who leave, or demote each other, at once leave a group without
  one, and a role may come back with its member; both need two requests that overlap
  (`OnlyOverlapLosesAdmins`, `OnlyOverlapReturnsRoles`).
* *Threads.* A page replaces what arrived during its fetch (`chat.ts:117`, `:140`), and
  nothing else takes something away (`OnlyStaleAnswersUndo`). Recovery asks for one
  page and does not look at `has_more` (`chat.ts:453`): `GapsClosed` is for outages of at
  most a page. A failed recovery waits for the next connection (`:455`); `loading`
  stays true when a page fails (`:135`), and older messages are not asked for again.
* *The list.* The server publishes no event for a conversation or a member, so what
  others change is seen at the next load, of which only the first 30 conversations
  come. An answer that was overtaken, an older event and a failed `get` after a removal
  take something back, and nothing else does (`NoSilentUndo`); reacting to an old
  message makes it the preview. The viewer's own changes need no reload
  (`RightWhenQuiet`).
* *Outbox.* A message the server refuses stops every flush at its place, and what is
  behind it waits (`OnlyDoomedBlock`); a reply to a message that was still pending is
  refused for ever, for it names a local id. If IndexedDB refuses, the clock stays and
  nobody is at work (`chat.ts:179`); if the dequeue fails, a stored message is marked as
  failed and sent again, harmlessly (`MarksAreTrue`, `ExactlyOnce`).
* *Connection.* Reconnections present the access token of the first connection: when it
  has expired they are refused until the page is reloaded (`ComesBack` is for a token
  that lasts). The late close of a socket that was left stops the heartbeat of the good
  one and has it replaced (`KeptAlive`); an overwritten heartbeat keeps ticking.
* *Presence.* Announcements may overtake each other, a failed first announcement leaves
  a socket in the registry that nobody serves (`handler.py:54`), and a peer who connects
  gets no snapshot: `PresenceRight` says the dot is right otherwise.
* *Composer.* A failed send replaces what was typed and attached meanwhile by what it
  took, a successful one clears a reply chosen meanwhile, and going to another
  conversation drops the draft; nothing else is lost (`NothingLost`).
* *Dialogs.* The answer to an earlier term may come last; then the right results do not
  come back and the box says "Searching…", as it does for no results. A late answer
  to `open` closes whichever dialog is shown by then. The contacts may show one twice
  after an overlap (`ContactsRight`); escaping from a creation and creating again makes
  two groups (`OneGroup` is about one dialog).
* *Sessions.* A sign-out revokes the token in the storage and neither waits for a
  refresh in flight nor cancels it: its answer stores the successor, and a reload is
  signed in again. Every revoked token is taken for a replayed one, so a refresh that
  is served after a sign-out ends the sessions of all devices. The sessions of a device
  agree with its storage as long as no two of its calls overlap and none is lost
  (`AgreeUndisturbed`).

## 5. Proofs

Assumptions: `ServiceAssumption` (the roles are users, `NoMessage` is no row),
`CreatorAssumption` (the creator is a user), `StoreAssumption` (the author of
everybody else's messages is none of the own keys), `DeviceAssumption` (each tab is
a tab of a device) and `NoSocketAssumption` (`NoSocket` is no socket).

* `MessageServiceProofs`: `TypeCorrect`; `Invariant`, the inductive `IInv`, which
  adds to the properties what requests in flight carry (`PendingRows`: a row to be
  announced exists, a row to be retracted is deleted; `PendingReads`: a position to
  be written was reported), without which neither `NoPhantomEvent` nor
  `ReadTicksHonest` is inductive. From it `LogIsWhole`, `KeysAreSingle`,
  `NothingInvented`, `AnswersAreKept`, `ReadTicksAreHonest`; `Refinement`, that every step
  is a step of `MessageLog` or leaves its variables alone; and two action properties.
  `CursorsGoForward` needs in addition that no cursor is beyond `last_seq`.
  `BadgesHideNothing` rests on lemmas about the count: a deletion lowers it by at most
  the row that leaves, a send raises it where `unread_count` is raised.
* `GroupMembershipProofs`: `TypeCorrect`; `DeparturesKeepRows`; `Invariant`, whose
  `UpToDate` says that what a request has read is so until the history flag says
  that the table changed; from it `AdminsLostOnlyToOverlap`, which is the proof
  that the code is right as long as requests on one group do not overlap, and
  `RolesReturnOnlyByOverlap`.
* `ChatStoreProofs`: `Invariant`, the inductive `IInv`: not only the rows shown but
  also the pages in responses, the thread that `loadOlder` keeps across its await
  and the events not handled yet say nothing that the log does not say. A log only
  grows and what is deleted stays deleted (`Later`), so whatever is late stays
  true (`LaterKeeps`). From it `ShowsOnlyTheLog` and, with the invariant that a kept
  thread shows no message twice either (`AllWhole`), `ShowsOnce`. `OnlyStaleTakesAway` adds
  `Current`: what a call that is not outdated has kept is the thread as it is, and of a
  message deleted before its event was handled the deletion is still an event.
  `TypeCorrect` holds however calls overlap, too. For `CarefulSpec`, every behaviour of
  which is one of `Spec` (`CarefulIsSpec`), `CarefulInvariant` says why recovery works:
  each message from the oldest shown on is shown, announced, a draft, or beyond the
  newest shown while events are missed or recovered (`Explained`); what follows an
  announced message is announced, shown or a draft (`Consecutive`), so handling the
  events in order leaves no hole; an outage or its recovery is at most a page behind
  (`OnePageBehind`), so one page is enough; a deletion not shown is announced or its
  answer is in flight (`GoneExplained`); the position read covers nothing of others
  beyond the thread (`ReadShown`); and what the one call in flight has kept still holds
  when it is handled (`Fresh`). From it `ClosesGaps`, `ShowsDeletions`,
  `ReachesHistory` and `ReadIsSeen`.
* `OutboxProofs`: `TypeCorrect`, `MarksTellTheTruth` and `Refinement`, for any number of
  tabs, messages and senders. The invariant adds to the types that what a sender posts
  is queued or stored and what was answered is stored (`AllSound`), that a key about to
  be queued is in no other tab's or sender's hands (`Fresh`), that what is shown was
  written (`Known`), and for each clock who is at work on it (`MarksTrue`).
* `RealtimeProofs`: `AtMostOneConnection`, `SignedOutIsQuiet`, `OpenIsKeptAlive` from the
  tab's invariant, their conjunction with the types, which is inductive as it stands;
  `DotIsRight` from the server's: the newest announcement is still in the hands of the
  handler that decided it (`Pending`), a user shown as offline has no socket, and one
  shown as online has one or a handler that has still to notice that it was dropped.
* `ViewsProofs`, the composer: `TypeCorrect`, `OnlyRiskyIsLost`, `RowsAreSent`, `ItemsAreHandedOnce`,
  `RowsAreServed`. The four parts of its invariant, `Kept`, `Flight`, `NothingLost` and
  `Once`, are inductive together: an item is in one place, because it was used once,
  and a file in the hands of a loop is in no message.
* `ViewsProofs`, the dialogs, about whose constants nothing is assumed:
  `DialogsInvariant`, which adds two things to the types. `OneCreation`: at
  most one creation of the dialog shown is in flight, the button is disabled while one
  is, and a group that was made has its answer still to come, unless one was lost.
  `Listed`: while the list of contacts is awaited none is being added, what the server
  answered is still what it has, and otherwise dialog and server differ by the contacts
  whose answers are in flight, each in one of them (`Balanced`). From it
  `CreatesOneGroup` and `ShowsTheContacts`. `ShowsWhatIsTyped` rests on `Honest`: an
  answer is kept with the term it is the answer to.
* `ConversationsProofs`: `TicksTellTheTruth`, from the invariant that neither the list nor
  any answer or event in flight claims more than the server has (what the server
  knows only grows). `UndoIsNamed`, from `Fresh`: an answer in flight is the server's
  present state, unless `dirty` names the conversation. `ListIsRight`, from
  `AllExplained`: each difference between list and server is explained by an event
  not yet handled or by a call that will bring it, and when there is none of
  either there is no difference.
* `AuthSessionsProofs`: `TypeCorrect`; `Invariant`, the inductive `IInv`. Its `Sound`
  says for each device what the one call in flight implies about the storage and the
  live sessions (nothing else is known between an answer and its handling), its
  `Lineage` that a token with a successor is dead and that a refresh about to write
  either knows of no successor or has raced. From it `AgreesUndisturbed`, in which the
  other devices do as they like, and `ForksOnlyByOverlap`.

`NoPhantomEvent` and `AnsweredIsStored` are not run: they are proved, and in
`message_overlap` a step that broke one would be no step of `MessageLog`. Nor are the
inductive invariants and, except for `ChatStore`, the type invariants, which
the proofs establish for every instance.

Only model-checked: liveness (`CommittedIsAnnounced`, `DeletionIsAnnounced`,
`OnlyDoomedBlock`, `ComesBack`, `SearchEnds`), for fairness and ENABLED are out of the
prover's reach. Every invariant and action property of a run that passes is also a
theorem. No module declares a RECURSIVE operator.

## 6. Not modelled

* **One-time codes** (`auth_service.py:76`): overlapping guesses are counted once,
  because `attempts` is incremented from a value read before the write.
* **Direct conversations and new members** (`conversation_service.py:82`, `:248`): two
  requests that insert the same row, of which the unique key refuses the second
  and nothing handles that; the same holds of two first reactions of one member.
* **Attachments and storage**: the claim is a part of the transaction of a send; files,
  resizing and signed urls are input and output.
* **Typing**: timers that clear a name. **Reactions' contents**: one short transaction on
  one row. **Profiles and removal of contacts**: single writes of one row.
* **Backup**: what a restore loses is up to a second of commits; keys and cursors of
  clients are then ahead of the server. An external program does it.
* **The Redis bus** for several processes; the frames; the API layer's routing and
  error texts; rendering, styling, the service worker's cache, logging, the
  generated API schema, migrations and seed data have no control of their own.

Next, in this order: one-time codes and direct conversations (both check, then
write, in the style of `GroupMembership`), and a restore from the
backup as a fault of `MessageService` with clients that are ahead of it.
