-------------------------------- MODULE Outbox --------------------------------
(***************************************************************************)
(* The way of a message from the composer to the server: the entry in the  *)
(* thread of a tab (store/chat.ts), the outbox in IndexedDB that the tabs  *)
(* of a device share (offline/outbox.ts), the calls that send it, and the  *)
(* flush of the outbox at every open of the socket (useRealtime.ts).       *)
(*                                                                         *)
(* A step is what runs between two awaits.  A sender is a sendMessage, a   *)
(* retryMessage or a flushOutbox that is not finished.                     *)
(*                                                                         *)
(* Abstracted: one conversation; bodies; the server is the table that      *)
(* MessageService describes, with one row per client_message_id; times of  *)
(* queueing, which are the order in which messages were written.  A reply  *)
(* is chosen and sent in one step.                                         *)
(*                                                                         *)
(* A definition named Bug... is the next one with a plausible mistake in   *)
(* it; the runs use it only to show that a property can fail.              *)
(***************************************************************************)
EXTENDS Naturals, Sequences

CONSTANTS Keys,     \* client_message_ids
          Tabs,     \* tabs of the device
          Senders   \* slots for what is being sent

VARIABLES rows,     \* server: the stored messages, by seq
          doomed,   \* messages that reply to an entry that was not stored
          written,  \* the messages in the order they were written
          queue,    \* the object store "outbox"
          shown,    \* per tab: the thread's entries of this user
          sender    \* what each sender will do next

vars == <<rows, doomed, written, queue, shown, sender>>

RangeOf(s) == {s[i] : i \in 1..Len(s)}
Stored == RangeOf(rows)
Put(f, x, v) == [y \in DOMAIN f \cup {x} |-> IF y = x THEN v ELSE f[y]]

Marks == {"none", "pending", "failed"}
Entry == [real : BOOLEAN, mark : Marks]       \* real: its id is the server's
Draft == [real |-> FALSE, mark |-> "pending"]
Saved == [real |-> TRUE, mark |-> "none"]
NoEntry == [k \in {} |-> Saved]
Thread == UNION {[S -> Entry] : S \in SUBSET Keys}

Idle == [step |-> "idle"]
Sender ==
         {Idle}
    \cup [step : {"enqueue"}, tab : Tabs, key : Keys]
    \cup [step : {"post", "answered", "failed", "dequeue"}, tab : Tabs, key : Keys,
          seen : BOOLEAN, rest : SUBSET Keys]
    \cup [step : {"loop"}, tab : Tabs, rest : (SUBSET Keys) \ {{}}]
    \cup [step : {"open"}, tab : Tabs]
    \cup [step : {"orphan"}, key : Keys]

-------------------------------------------------------------------------------
(* The pieces a sender is made of *)

Become(s, next) == sender' = [sender EXCEPT ![s] = next]

\* Marks entry k of tab t, if it is there.
Marked(t, k, mark) ==
    IF k \in DOMAIN shown[t] THEN [shown EXCEPT ![t][k].mark = mark] ELSE shown

\* The rest of the flush; a single send has none.
GoOn(t, rest) == IF rest = {} THEN Idle ELSE [step |-> "loop", tab |-> t, rest |-> rest]

\* retryMessage (seen: the entry is in the thread) or flushOutbox's own call.
Post(s, t, k, rest) ==
    /\ shown' = Marked(t, k, "pending")
    /\ Become(s, [step |-> "post", tab |-> t, key |-> k,
                  seen |-> k \in DOMAIN shown[t], rest |-> rest])

\* The catch clauses: a shown entry is marked and the flush goes on with the
\* next one; the flush stops at the first entry it sends itself.
BugDropFailed(s) ==
    LET me == sender[s]
    IN  /\ queue' = queue \ {me.key}
        /\ IF me.seen
           THEN shown' = Marked(me.tab, me.key, "failed") /\ Become(s, GoOn(me.tab, me.rest))
           ELSE UNCHANGED shown /\ Become(s, Idle)

GiveUp(s) ==
    LET me == sender[s]
    IN  /\ IF me.seen
           THEN shown' = Marked(me.tab, me.key, "failed") /\ Become(s, GoOn(me.tab, me.rest))
           ELSE UNCHANGED shown /\ Become(s, Idle)
        /\ UNCHANGED queue

-------------------------------------------------------------------------------
(* What the user and the socket start *)

\* crypto.randomUUID
NewKey == CHOOSE k \in Keys : k \notin RangeOf(written)

\* sendMessage.  A reply names the entry by its id: "pending:..." until it is
\* stored, which the server knows nothing of.
SendMessage(s, t) ==
    /\ sender[s] = Idle
    /\ Keys \ RangeOf(written) # {}
    /\ written' = Append(written, NewKey)
    /\ shown' = [shown EXCEPT ![t] = Put(@, NewKey, Draft)]
    /\ Become(s, [step |-> "enqueue", tab |-> t, key |-> NewKey])
    /\ \/ UNCHANGED doomed
       \/ (\E k \in DOMAIN shown[t] : ~ shown[t][k].real) /\ doomed' = doomed \cup {NewKey}
    /\ UNCHANGED <<rows, queue>>

\* "Failed. Tap to retry."
RetryMessage(s, t) ==
    /\ sender[s] = Idle
    /\ \E k \in DOMAIN shown[t] : shown[t][k].mark = "failed" /\ Post(s, t, k, {})
    /\ UNCHANGED <<rows, doomed, written, queue>>

BugFlushShown(s, t) ==
    /\ sender[s] = Idle
    /\ queue \cap DOMAIN shown[t] # {}
    /\ Become(s, [step |-> "loop", tab |-> t, rest |-> queue \cap DOMAIN shown[t]])
    /\ UNCHANGED <<rows, doomed, written, queue, shown>>

\* flushOutbox, at every open of the socket: it reads the queue once.
Flush(s, t) ==
    /\ sender[s] = Idle
    /\ queue # {}
    /\ Become(s, [step |-> "loop", tab |-> t, rest |-> queue])
    /\ UNCHANGED <<rows, doomed, written, queue, shown>>

\* k is the one of S that was queued first.
Earliest(k, S) ==
    /\ k \in S
    /\ \E n \in 1..Len(written) : written[n] = k /\ \A i \in 1..(n - 1) : written[i] \notin S

\* The flush takes its entries in the order of queuedAt.
Loop(s) ==
    /\ sender[s].step = "loop"
    /\ \E k \in sender[s].rest :
          /\ Earliest(k, sender[s].rest)
          /\ Post(s, sender[s].tab, k, sender[s].rest \ {k})
    /\ UNCHANGED <<rows, doomed, written, queue>>

-------------------------------------------------------------------------------
(* What comes back *)

BugForgetQueue(s) ==
    /\ sender[s].step = "enqueue"
    /\ IF sender[s].key \in DOMAIN shown[sender[s].tab]
       THEN Post(s, sender[s].tab, sender[s].key, {})
       ELSE UNCHANGED shown /\ Become(s, Idle)
    /\ UNCHANGED <<rows, doomed, written, queue>>

\* The entry is in the outbox; retryMessage gives up if the thread lost it.
Enqueued(s) ==
    /\ sender[s].step = "enqueue"
    /\ queue' = queue \cup {sender[s].key}
    /\ IF sender[s].key \in DOMAIN shown[sender[s].tab]
       THEN Post(s, sender[s].tab, sender[s].key, {})
       ELSE UNCHANGED shown /\ Become(s, Idle)
    /\ UNCHANGED <<rows, doomed, written>>

\* IndexedDB refuses: sendMessage rejects and leaves the entry pending.
EnqueueFails(s) ==
    /\ sender[s].step = "enqueue"
    /\ Become(s, Idle)
    /\ UNCHANGED <<rows, doomed, written, queue, shown>>

\* send: the row an earlier attempt left, a refusal, or a new row.
Serve(s) ==
    /\ sender[s].step \in {"post", "orphan"}
    /\ LET k == sender[s].key
       IN  /\ rows' = IF k \notin Stored \cup doomed THEN Append(rows, k) ELSE rows
           /\ Become(s, IF sender[s].step = "orphan" THEN Idle
                        ELSE [sender[s] EXCEPT !.step = IF k \in doomed THEN "failed"
                                                        ELSE "answered"])
    /\ UNCHANGED <<doomed, written, queue, shown>>

\* The request or its answer is lost.
Lose(s) ==
    /\ \/ sender[s].step \in {"post", "answered"}
          /\ Become(s, [sender[s] EXCEPT !.step = "failed"])
       \/ sender[s].step = "orphan" /\ Become(s, Idle)
    /\ UNCHANGED <<rows, doomed, written, queue, shown>>

\* applyIncomingMessage, then dequeue.  A dequeue that fails is caught as if the
\* call had failed.
Answered(s) ==
    /\ sender[s].step = "answered"
    /\ shown' = [shown EXCEPT ![sender[s].tab] = Put(@, sender[s].key, Saved)]
    /\ Become(s, [step |-> "dequeue", tab |-> sender[s].tab, key |-> sender[s].key,
                  seen |-> sender[s].seen, rest |-> sender[s].rest])
    /\ UNCHANGED <<rows, doomed, written, queue>>

Dequeued(s) ==
    /\ sender[s].step = "dequeue"
    /\ queue' = queue \ {sender[s].key}
    /\ Become(s, GoOn(sender[s].tab, sender[s].rest))
    /\ UNCHANGED <<rows, doomed, written, shown>>

Failed(s) ==
    /\ sender[s].step \in {"failed", "dequeue"}
    /\ GiveUp(s)
    /\ UNCHANGED <<rows, doomed, written>>

-------------------------------------------------------------------------------
(* What else happens to a tab *)

\* openConversation of an empty thread: the page replaces what is there by then.
OpenThread(s, t) ==
    /\ sender[s] = Idle
    /\ shown[t] = NoEntry
    /\ Become(s, [step |-> "open", tab |-> t])
    /\ UNCHANGED <<rows, doomed, written, queue, shown>>

ThreadOpened(s) ==
    /\ sender[s].step = "open"
    /\ \E n \in 0..Len(rows) :
          shown' = [shown EXCEPT ![sender[s].tab] =
                      [k \in RangeOf(SubSeq(rows, 1, n)) |-> Saved]]
    /\ Become(s, Idle)
    /\ UNCHANGED <<rows, doomed, written, queue>>

\* recoverMissedMessages applies the rows it has read to a thread in use.
Recover(t) ==
    /\ shown[t] # NoEntry
    /\ \E k \in Stored : shown' = [shown EXCEPT ![t] = Put(@, k, Saved)]
    /\ UNCHANGED <<rows, doomed, written, queue, sender>>

\* The tab is reloaded or closed: only the outbox and the requests that are
\* already on their way remain.
Reload(t) ==
    /\ shown' = [shown EXCEPT ![t] = NoEntry]
    /\ sender' = [s \in Senders |->
         IF sender[s].step \in {"idle", "orphan"} \/ sender[s].tab # t THEN sender[s]
         ELSE IF sender[s].step = "post" THEN [step |-> "orphan", key |-> sender[s].key]
         ELSE Idle]
    /\ UNCHANGED <<rows, doomed, written, queue>>

-------------------------------------------------------------------------------

Init ==
    /\ rows = << >>
    /\ doomed = {}
    /\ written = << >>
    /\ queue = {}
    /\ shown = [t \in Tabs |-> NoEntry]
    /\ sender = [s \in Senders |-> Idle]

Start(s, t) == SendMessage(s, t) \/ RetryMessage(s, t) \/ Flush(s, t) \/ OpenThread(s, t)

Respond(s) ==
    \/ Loop(s) \/ Enqueued(s) \/ EnqueueFails(s) \/ Answered(s) \/ Dequeued(s)
    \/ Failed(s) \/ ThreadOpened(s)

Next ==
    \/ \E s \in Senders : Respond(s) \/ Serve(s) \/ Lose(s) \/ \E t \in Tabs : Start(s, t)
    \/ \E t \in Tabs : Recover(t) \/ Reload(t)

Spec == Init /\ [][Next]_vars

-------------------------------------------------------------------------------
(* Properties *)

TypeOK ==
    /\ rows \in Seq(Keys)
    /\ doomed \subseteq Keys
    /\ written \in Seq(Keys)
    /\ queue \subseteq Keys
    /\ shown \in [Tabs -> Thread]
    /\ sender \in [Senders -> Sender]

\* Exactly once: whatever overlaps, is lost, retried or reloaded, the outbox
\* keeps a message until the server has it, and the server stores it once.
D == INSTANCE Delivery WITH held <- queue, delivered <- rows
ExactlyOnce == D!Spec

Working(t, k) ==
    \E s \in Senders : /\ sender[s].step \in {"enqueue", "post", "answered", "failed"}
                       /\ sender[s].tab = t /\ sender[s].key = k

\* The bubble of a message tells the truth: without a mark it is stored; as
\* failed it can be had again, or is stored although its answer was lost; with
\* a clock somebody is still at work on it, unless IndexedDB refused it.
MarksAreTrue ==
    \A t \in Tabs : \A k \in DOMAIN shown[t] :
        CASE shown[t][k].mark = "none"    -> k \in Stored
          [] shown[t][k].mark = "failed"  -> k \in queue \cup Stored
          [] shown[t][k].mark = "pending" -> Working(t, k) \/ k \notin queue \cup Stored

-------------------------------------------------------------------------------
(* Liveness *)

Before(k) == {q \in Keys : \E i, n \in 1..Len(written) :
                             i < n /\ written[i] = q /\ written[n] = k}

Unfailing ==
    \A s \in Senders : ~ Lose(s) /\ ~ EnqueueFails(s)
                       /\ ~ (sender[s].step = "dequeue" /\ Failed(s))

\* JavaScript runs what can run and the server answers; from some time on no
\* call is lost, the tabs stay, and the socket opens again and again.
LiveSpec ==
    /\ Spec
    /\ \A s \in Senders : WF_vars(Respond(s)) /\ WF_vars(Serve(s))
    /\ SF_vars(\E s \in Senders, t \in Tabs : Flush(s, t))
    /\ <>[][Unfailing /\ \A t \in Tabs : ~ Reload(t)]_vars

\* "Messages you send are queued and will go out as soon as you reconnect": all
\* but those that the server refuses, and those queued behind such a one.
OnlyDoomedBlock ==
    \A k \in Keys :
        k \in queue ~> k \in Stored \cup doomed \/ Before(k) \cap doomed # {}
===============================================================================
