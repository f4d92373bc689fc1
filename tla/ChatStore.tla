------------------------------- MODULE ChatStore -------------------------------
(***************************************************************************)
(* The thread of one conversation as the client keeps it (store/chat.ts),  *)
(* fed by three writers that nothing orders: responses of the REST calls   *)
(* the store awaits, events of the socket (ws/useRealtime.ts), and the     *)
(* user's own optimistic sends.                                            *)
(*                                                                         *)
(* JavaScript runs a callback to its end, so a step is what happens        *)
(* between two awaits.  A call is awaited in a job: sent, then served (the *)
(* server reads or writes its tables), then its response is handled.       *)
(*                                                                         *)
(* The array of messages is kept sorted by seq with pending drafts behind, *)
(* so it is given here by its rows by seq, each with "was it deleted", and *)
(* its drafts; failed are the client_message_ids of entries marked so.     *)
(*                                                                         *)
(* Abstracted: bodies, reactions (a reaction call is one that returns its  *)
(* row), the conversation list, the outbox (see the plan).  The server is  *)
(* the log that MessageService implements.                                 *)
(*                                                                         *)
(* A definition named Bug... is the next one with a plausible mistake in   *)
(* it; no other definition uses it, see "mutants" in PROJECT.json.         *)
(***************************************************************************)
EXTENDS Naturals, Sequences, FiniteSets

CONSTANTS Keys,      \* client_message_ids of this client's own messages
          Theirs,    \* the author of everybody else's
          Jobs,      \* slots for the calls in flight
          PageSize,  \* messages per page
          MaxSeq     \* bound on the length of the log

ASSUME StoreAssumption ==
    /\ Theirs \notin Keys
    /\ PageSize \in Nat \ {0}
    /\ MaxSeq \in Nat

VARIABLES log,       \* server: the messages, position = seq
          readTo,    \* server: last_read_seq of this user
          link,      \* is the socket open and registered?
          news,      \* events of committed changes, not handled yet
          thread,    \* threads[conversationId]
          job,       \* what each call in flight will do next
          outdated   \* history: did the thread change since the call began?

vars == <<log, readTo, link, news, thread, job, outdated>>

Seqs == 1..MaxSeq
Message == [key : Keys \cup {Theirs}, gone : BOOLEAN]
Event == [kind : {"created", "deleted"}, seq : Seqs]
Rows == UNION {[S -> BOOLEAN] : S \in SUBSET Seqs}
Thread == [rows : Rows, drafts : SUBSET Keys, failed : SUBSET Keys,
           hasMore : BOOLEAN, loading : BOOLEAN]

Idle == [step |-> "idle"]

Job ==
         [step : {"idle", "open", "list"}]
    \cup [step : {"opened"}, page : Rows, more : BOOLEAN]
    \cup [step : {"older"}, kept : Thread]
    \cup [step : {"olderGot"}, kept : Thread, page : Rows, more : BOOLEAN]
    \cup [step : {"after"}, newest : Nat]
    \cup [step : {"afterGot"}, page : Rows]
    \cup [step : {"enqueue", "post"}, key : Keys]
    \cup [step : {"posted"}, key : Keys, seq : Seqs, gone : BOOLEAN]
    \cup [step : {"delete", "react", "mark"}, seq : Seqs]
    \cup [step : {"changed"}, seq : Seqs, gone : BOOLEAN]

NoRows == [s \in {} |-> FALSE]
EmptyThread == [rows |-> NoRows, drafts |-> {}, failed |-> {},
                hasMore |-> FALSE, loading |-> FALSE]

IsThread(t) == t = [rows |-> t.rows, drafts |-> t.drafts, failed |-> t.failed,
                    hasMore |-> t.hasMore, loading |-> t.loading]

Shown == DOMAIN thread.rows
IsEmpty(t) == DOMAIN t.rows = {} /\ t.drafts = {}

BugNewestCountsDrafts(t) ==
    IF t.drafts # {} THEN MaxSeq + 1
    ELSE IF DOMAIN t.rows = {} THEN 0
    ELSE CHOOSE s \in DOMAIN t.rows : \A n \in DOMAIN t.rows : n <= s

\* newestRealSeq: drafts do not count.
Newest(t) == IF DOMAIN t.rows = {} THEN 0
             ELSE CHOOSE s \in DOMAIN t.rows : \A n \in DOMAIN t.rows : n <= s

\* messages[0].seq: a thread of drafts alone has PENDING_SEQ there.
Oldest(t) == IF DOMAIN t.rows = {} THEN MaxSeq + 1
             ELSE CHOOSE s \in DOMAIN t.rows : \A n \in DOMAIN t.rows : s <= n

Put(f, x, v) == [y \in DOMAIN f \cup {x} |-> IF y = x THEN v ELSE f[y]]
Merge(f, g) == [y \in DOMAIN f \cup DOMAIN g |-> IF y \in DOMAIN f THEN f[y] ELSE g[y]]

-------------------------------------------------------------------------------
(* The server *)

Stored == 1..Len(log)
Snapshot(S) == [s \in S |-> log[s].gone]

\* list_for_conversation: the newest page before a position, and whether there
\* is more; the oldest page after one.
Before(b) == {s \in Stored : s < b /\ Cardinality({n \in Stored : s < n /\ n < b}) < PageSize}
BugMoreBefore(b) == Cardinality({s \in Stored : s < b}) > PageSize + 1
MoreBefore(b) == Cardinality({s \in Stored : s < b}) > PageSize
After(a) == {s \in Stored : s > a /\ Cardinality({n \in Stored : a < n /\ n < s}) < PageSize}

SeqOf(k) == CHOOSE s \in Stored : log[s].key = k

\* An event is published after its commit; events of two requests may be
\* published in either order.
Publish(kind, s) == news' = news \cup {[kind |-> kind, seq |-> s]}

\* Another member sends, or deletes what it sent.
TheySend ==
    /\ Len(log) < MaxSeq
    /\ log' = Append(log, [key |-> Theirs, gone |-> FALSE])
    /\ Publish("created", Len(log) + 1)
    /\ UNCHANGED <<readTo, link, thread, job, outdated>>

TheyDelete ==
    /\ \E s \in Stored :
          /\ log[s] = [key |-> Theirs, gone |-> FALSE]
          /\ log' = [log EXCEPT ![s].gone = TRUE]
          /\ Publish("deleted", s)
    /\ UNCHANGED <<readTo, link, thread, job, outdated>>

-------------------------------------------------------------------------------
(* Calls and what they do to the thread *)

\* The step of job j leaves the thread as t; what the others know is outdated.
Become(j, t, next) ==
    /\ thread' = t
    /\ job' = [job EXCEPT ![j] = next]
    /\ outdated' = [i \in Jobs |-> i # j /\ job[i] # Idle
                                   /\ (outdated[i] \/ t # thread)]
    /\ UNCHANGED <<log, readTo, link, news>>

\* The call goes on without touching the thread.
Proceed(j, next) ==
    /\ job' = [job EXCEPT ![j] = next]
    /\ outdated' = [outdated EXCEPT ![j] = @ /\ next # Idle]
    /\ UNCHANGED <<link, thread>>

\* The server answers a call that changes nothing there.
Answer(j, next) == Proceed(j, next) /\ UNCHANGED <<log, readTo, news>>

BugApplyById(t, s, gone, k) ==
    [t EXCEPT !.rows = Put(@, s, gone), !.failed = @ \ {k}]

\* applyIncomingMessage: the row replaces the first entry with its id or its
\* client_message_id (rows come before drafts), or is added.
Applied(t, s, gone, k) ==
    [t EXCEPT !.rows = Put(@, s, gone), !.failed = @ \ {k},
              !.drafts = IF s \in DOMAIN t.rows THEN @ ELSE @ \ {k}]

\* openConversation: a thread with anything in it is not fetched.
OpenConversation(j) ==
    /\ job[j] = Idle
    /\ IsEmpty(thread)
    /\ Become(j, [EmptyThread EXCEPT !.loading = TRUE], [step |-> "open"])

ServeOpen(j) ==
    /\ job[j].step = "open"
    /\ Answer(j, [step |-> "opened", page |-> Snapshot(Before(MaxSeq + 1)),
                  more |-> MoreBefore(MaxSeq + 1)])

\* The page replaces whatever the thread has become meanwhile.
Opened(j) ==
    /\ job[j].step = "opened"
    /\ Become(j, [EmptyThread EXCEPT !.rows = job[j].page, !.hasMore = job[j].more], Idle)

LoadOlder(j) ==
    /\ job[j] = Idle
    /\ thread.hasMore /\ ~ thread.loading /\ ~ IsEmpty(thread)
    /\ Become(j, [thread EXCEPT !.loading = TRUE], [step |-> "older", kept |-> thread])

ServeOlder(j) ==
    /\ job[j].step = "older"
    /\ LET b == Oldest(job[j].kept)
       IN  Answer(j, [step |-> "olderGot", kept |-> job[j].kept,
                      page |-> Snapshot(Before(b)), more |-> MoreBefore(b)])

\* The page goes in front of the messages captured before the call.
OlderLoaded(j) ==
    /\ job[j].step = "olderGot"
    /\ Become(j, [job[j].kept EXCEPT !.rows = Merge(job[j].page, @),
                                     !.hasMore = job[j].more], Idle)

\* onOpen: recoverMissedMessages first reloads the conversation list.
Connect(j) ==
    /\ link = "down"
    /\ job[j] = Idle
    /\ link' = "up"
    /\ job' = [job EXCEPT ![j] = [step |-> "list"]]
    /\ UNCHANGED <<log, readTo, news, thread, outdated>>

BugRecoverFromRead(j) ==
    /\ job[j].step = "list"
    /\ Answer(j, IF Shown = {} THEN Idle ELSE [step |-> "after", newest |-> readTo])

\* Loaded or not, what follows looks at the thread as it is by then; a thread
\* without messages is left out.
ListLoaded(j) ==
    /\ job[j].step = "list"
    /\ Answer(j, IF IsEmpty(thread) THEN Idle
                 ELSE [step |-> "after", newest |-> Newest(thread)])

ServeAfter(j) ==
    /\ job[j].step = "after"
    /\ Answer(j, [step |-> "afterGot", page |-> Snapshot(After(job[j].newest))])

BugRecoverNewest(j) ==
    /\ job[j].step = "afterGot"
    /\ Become(j, IF job[j].page = NoRows THEN thread
                 ELSE LET s == Newest([rows |-> job[j].page])
                      IN  Applied(thread, s, job[j].page[s], log[s].key), Idle)

\* Each message of the page is applied in turn; has_more is not looked at.
Recovered(j) ==
    /\ job[j].step = "afterGot"
    /\ LET page == job[j].page
           keys(S) == {log[s].key : s \in S}
       IN  Become(j, [thread EXCEPT !.rows = Merge(page, @),
                                    !.drafts = @ \ keys(DOMAIN page \ Shown),
                                    !.failed = @ \ keys(DOMAIN page)], Idle)

\* sendMessage: the draft is shown, then put into the outbox, then sent.
Compose(j) ==
    /\ job[j] = Idle
    /\ \E k \in Keys :
          /\ k \notin thread.drafts
          /\ \A s \in Stored : log[s].key # k
          /\ \A i \in Jobs : job[i].step \in {"enqueue", "post", "posted"} => job[i].key # k
          /\ Become(j, [thread EXCEPT !.drafts = @ \cup {k}],
                    [step |-> "enqueue", key |-> k])

\* The entries that carry a client_message_id of this client.
Carries(t, k) == k \in t.drafts \/ \E s \in DOMAIN t.rows : s \in Stored /\ log[s].key = k

\* retryMessage looks the entry up in the thread and gives up without it.
Enqueued(j) ==
    /\ job[j].step = "enqueue"
    /\ Answer(j, IF Carries(thread, job[j].key) THEN [step |-> "post", key |-> job[j].key]
                 ELSE Idle)

Retry(j) ==
    /\ job[j] = Idle
    /\ \E k \in Keys :
          /\ k \in thread.failed
          /\ Become(j, [thread EXCEPT !.failed = @ \ {k}], [step |-> "post", key |-> k])

\* send: a new row, or the one that an earlier attempt left.
ServePost(j) ==
    /\ job[j].step = "post"
    /\ \/ /\ \E s \in Stored : log[s].key = job[j].key
          /\ LET s == SeqOf(job[j].key)
             IN  Answer(j, [step |-> "posted", key |-> job[j].key, seq |-> s,
                            gone |-> log[s].gone])
       \/ /\ \A s \in Stored : log[s].key # job[j].key
          /\ Len(log) < MaxSeq
          /\ log' = Append(log, [key |-> job[j].key, gone |-> FALSE])
          /\ readTo' = Len(log) + 1
          /\ Proceed(j, [step |-> "posted", key |-> job[j].key, seq |-> Len(log) + 1,
                         gone |-> FALSE])
          /\ UNCHANGED news

Posted(j) ==
    /\ job[j].step = "posted"
    /\ Become(j, Applied(thread, job[j].seq, job[j].gone, job[j].key), Idle)

PostFails(j) ==
    /\ job[j].step \in {"post", "posted"}
    /\ LET k == job[j].key
       IN  Become(j, [thread EXCEPT !.failed = IF Carries(thread, k) THEN @ \cup {k} ELSE @], Idle)

BugDeleteFirst(j) ==
    /\ job[j] = Idle
    /\ \E s \in Shown :
          /\ ~ thread.rows[s]
          /\ log[s].key # Theirs
          /\ Become(j, [thread EXCEPT !.rows[s] = TRUE], [step |-> "delete", seq |-> s])

\* The menu of a message: none of a deleted one; "Delete" for the viewer's own.
Offers(s, step) == ~ thread.rows[s] /\ (step = "delete" => log[s].key # Theirs)

\* deleteMessage and toggleReaction: the answer is the message as it is then.
Change(j) ==
    /\ job[j] = Idle
    /\ \E s \in Shown : \E step \in {"delete", "react"} :
          /\ Offers(s, step)
          /\ Answer(j, [step |-> step, seq |-> s])

ServeChange(j) ==
    /\ job[j].step \in {"delete", "react"}
    /\ LET s    == job[j].seq
           gone == log[s].gone \/ job[j].step = "delete"
       IN  /\ log' = [log EXCEPT ![s].gone = gone]
           /\ Proceed(j, [step |-> "changed", seq |-> s, gone |-> gone])
    /\ UNCHANGED <<readTo, news>>

BugAnswerIgnored(j) == job[j].step = "changed" /\ Become(j, thread, Idle)

Changed(j) ==
    /\ job[j].step = "changed"
    /\ Become(j, Applied(thread, job[j].seq, job[j].gone, log[job[j].seq].key), Idle)

MarkRead(j) ==
    /\ job[j] = Idle
    /\ Newest(thread) > readTo
    /\ Answer(j, [step |-> "mark", seq |-> Newest(thread)])

ServeMark(j) ==
    /\ job[j].step = "mark"
    /\ readTo' = IF job[j].seq > readTo THEN job[j].seq ELSE readTo
    /\ Proceed(j, Idle)
    /\ UNCHANGED <<log, news>>

\* A call fails, before the server sees it or after.  Nobody resets `loading'.
CallFails(j) ==
    /\ job[j].step \in {"open", "opened", "older", "olderGot", "after", "afterGot",
                        "delete", "react", "changed", "mark"}
    /\ Answer(j, Idle)

-------------------------------------------------------------------------------
(* The socket *)

\* The events that stay are not published yet.  Who deletes a message has its
\* id from the answer to its sending, which comes after that message's event.
Unpublished(U) ==
    \A event \in news \ U :
        event.kind = "deleted" => [event EXCEPT !.kind = "created"] \notin U

\* Published events that are not handled are lost with the socket.
Disconnect ==
    /\ link = "up"
    /\ link' = "down"
    /\ \E U \in SUBSET news : Unpublished(U) /\ news' = U
    /\ UNCHANGED <<log, readTo, thread, job, outdated>>

\* An event is published while the user has no socket.
Miss ==
    /\ link = "down"
    /\ \E event \in news : Unpublished(news \ {event}) /\ news' = news \ {event}
    /\ UNCHANGED <<log, readTo, link, thread, job, outdated>>

\* The thread becomes t; calls in flight do not know it.
Handled(event, t) ==
    /\ link = "up"
    /\ news' = news \ {event}
    /\ thread' = t
    /\ outdated' = [i \in Jobs |-> job[i] # Idle /\ (outdated[i] \/ t # thread)]
    /\ UNCHANGED <<log, readTo, link, job>>

\* The payload was read when the message was sent.
HandleCreated ==
    \E event \in news :
        /\ event.kind = "created"
        /\ Handled(event, Applied(thread, event.seq, FALSE, log[event.seq].key))

BugDeleteRemoves ==
    \E event \in news :
        /\ event.kind = "deleted"
        /\ [kind |-> "created", seq |-> event.seq] \notin news
        /\ Handled(event, [thread EXCEPT !.rows = [s \in Shown \ {event.seq} |-> @[s]]])

\* applyDeletedMessage: a message that is not shown is not looked for.
HandleDeleted ==
    \E event \in news :
        /\ event.kind = "deleted"
        /\ [kind |-> "created", seq |-> event.seq] \notin news
        /\ Handled(event, [thread EXCEPT !.rows =
                             IF event.seq \in DOMAIN @ THEN Put(@, event.seq, TRUE) ELSE @])

-------------------------------------------------------------------------------

Init ==
    /\ log \in {[s \in 1..n |-> [key |-> Theirs, gone |-> FALSE]] : n \in 0..MaxSeq}
    /\ readTo = 0
    /\ link = "down"
    /\ news = {}
    /\ thread = EmptyThread
    /\ job = [j \in Jobs |-> Idle]
    /\ outdated = [j \in Jobs |-> FALSE]

Call(j) ==
    \/ OpenConversation(j) \/ LoadOlder(j) \/ Compose(j) \/ Retry(j) \/ Change(j)
    \/ MarkRead(j) \/ Connect(j)

Serve(j) ==
    \/ ServeOpen(j) \/ ServeOlder(j) \/ ServeAfter(j) \/ ServePost(j) \/ ServeChange(j)
    \/ ServeMark(j)

Respond(j) ==
    \/ Opened(j) \/ OlderLoaded(j) \/ ListLoaded(j) \/ Recovered(j)
    \/ Enqueued(j) \/ Posted(j) \/ PostFails(j) \/ Changed(j) \/ CallFails(j)

HandleEvent == HandleCreated \/ HandleDeleted

Next ==
    \/ \E j \in Jobs : Call(j) \/ Serve(j) \/ Respond(j)
    \/ HandleEvent \/ Miss \/ Disconnect
    \/ TheySend \/ TheyDelete

Spec == Init /\ [][Next]_vars

-------------------------------------------------------------------------------
(* An environment in which nothing is lost for good *)

\* A call begins when no other is in flight.
OneCall == \A i, j \in Jobs : job'[i] # Idle /\ job'[j] # Idle => i = j

\* A client that is lucky: a thread starts with a page of history or with all
\* there is, events arrive in order and only while no call is in flight, the
\* calls that recover a gap succeed and the answers to deletions are not lost.
Lucky ==
    /\ Shown = {} /\ Shown' # {} =>
          \/ Shown' = 1..Len(log')
          \/ \E j \in Jobs : job[j].step = "opened"
    /\ HandleEvent \/ TheySend \/ TheyDelete => \A j \in Jobs : job[j] = Idle
    /\ HandleEvent => \A event \in news \ news', e \in news :
                         event.kind = "created" /\ e.kind = "created" => event.seq <= e.seq
    /\ \A j \in Jobs : /\ job[j].step = "after" => job'[j] # Idle
                       /\ job[j].step \in {"afterGot", "changed"} /\ job'[j] = Idle
                             => Recovered(j) \/ Changed(j)

\* Besides, while events may be missed nothing is sent from here, nothing is
\* deleted, no more than a page arrives, and all of that is missed and not shown.
Careful ==
    /\ \A j \in Jobs : job'[j].step \in {"enqueue", "post"} => link = "up" /\ news = {}
    /\ link = "down" /\ link' = "up" => news = {}
    /\ link' = "down" =>
          /\ \A event \in news \cup news' : event.kind = "created" /\ event.seq > Newest(thread)
          /\ link = "up" => \A j \in Jobs : job[j] = Idle
          /\ Shown' # {} => Len(log') <= Newest(thread') + PageSize

CarefulNext == Next /\ OneCall /\ Lucky /\ Careful

CarefulSpec == Init /\ [][CarefulNext]_vars

-------------------------------------------------------------------------------
(* Properties *)

TypeOK ==
    /\ log \in Seq(Message)
    /\ Len(log) <= MaxSeq
    /\ readTo \in Nat
    /\ link \in {"up", "down"}
    /\ news \subseteq Event
    /\ thread \in Thread
    /\ job \in [Jobs -> Job]
    /\ outdated \in [Jobs -> BOOLEAN]

\* Rows, a call and an event that say nothing the log l does not say.
Honest(l, rows) == \A s \in DOMAIN rows : s \in 1..Len(l) /\ (rows[s] => l[s].gone)

HonestCall(l, call) ==
    /\ call.step \in {"opened", "olderGot", "afterGot"} => Honest(l, call.page)
    /\ call.step \in {"older", "olderGot"} => IsThread(call.kept) /\ Honest(l, call.kept.rows)
    /\ call.step \in {"delete", "react", "posted", "changed"} => call.seq \in 1..Len(l)
    /\ call.step \in {"enqueue", "post"} => call.key \in Keys
    /\ call.step \in {"posted", "changed"} => (call.gone => l[call.seq].gone)

HonestEvent(l, event) ==
    event.seq \in 1..Len(l) /\ (event.kind = "deleted" => l[event.seq].gone)

\* What is shown is in the log, and what is shown as deleted has been deleted,
\* whatever the responses and events are that brought it.
NothingInvented == Honest(log, thread.rows)

\* That is inductive with what is on its way to the thread.
IInv ==
    /\ log \in Seq(Message)
    /\ IsThread(thread)
    /\ job = [j \in Jobs |-> job[j]]
    /\ NothingInvented
    /\ \A j \in Jobs : HonestCall(log, job[j])
    /\ \A event \in news : HonestEvent(log, event)

\* A message is never shown both as sent and as still to be sent.
ShownOnce ==
    \A s \in Shown : s \in Stored => log[s].key \notin thread.drafts

\* "Three writers merge into one normalised store": a message or a draft leaves
\* the thread only by a response asked for before the thread changed, and so
\* does a deletion, unless its event is still to come.
OnlyStaleAnswersUndo ==
    [][\/ Shown \ Shown' # {}
       \/ \E s \in Shown \cap Shown' : thread.rows[s] /\ ~ thread'.rows[s]
                                       /\ [kind |-> "deleted", seq |-> s] \notin news'
       \/ \E k \in thread.drafts \ thread'.drafts : \A s \in Shown' : log'[s].key # k
       => \E j \in Jobs : outdated[j] /\ job[j] # Idle /\ job'[j] = Idle]_vars

Settled == link = "up" /\ news = {} /\ thread.drafts = {} /\ \A j \in Jobs : job[j] = Idle

\* "Gap recovery ... closes the window": when everything has arrived, an open
\* thread has every message from its oldest on.
GapsClosed == Settled /\ Shown # {} => Oldest(thread)..Len(log) \subseteq Shown

\* ... and shows each as the server has it.
DeletionsArrive == Settled => \A s \in Shown : thread.rows[s] = log[s].gone

\* Messages older than those shown can be asked for.
HistoryReachable ==
    Shown # {} /\ 1 \notin Shown => thread.hasMore

\* No message of others is reported as read that the thread neither shows, nor
\* can load, nor is about to get.
NothingUnseenIsRead ==
    \A s \in 1..readTo : Shown # {} /\ log[s].key = Theirs /\ s \notin Shown
                           /\ [kind |-> "created", seq |-> s] \notin news
                         => s < Oldest(thread) /\ thread.hasMore

===============================================================================
