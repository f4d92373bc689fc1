---------------------------- MODULE ChatStoreProofs ----------------------------
(* Nothing a thread shows is invented and nothing is shown twice, however  *)
(* calls and events overlap; only a stale answer takes anything away.  In  *)
(* a careful environment, with one call at a time and nothing lost for     *)
(* good, nothing from the oldest message shown on is missing in the end.   *)
EXTENDS ChatStore, FiniteSetTheorems, WellFoundedInduction, TLAPS

\* A log only grows, and what is deleted in it stays deleted.
Later(l, m) ==
    /\ Len(l) <= Len(m)
    /\ \A s \in 1..Len(l) : l[s].gone => m[s].gone

\* What a log supports, the log it becomes supports.
LEMMA LaterKeeps ==
    ASSUME NEW l \in Seq(Message), NEW m \in Seq(Message), Later(l, m)
    PROVE  /\ \A rows : Honest(l, rows) => Honest(m, rows)
           /\ \A call : HonestCall(l, call) => HonestCall(m, call)
           /\ \A event : HonestEvent(l, event) => HonestEvent(m, event)
<1>1. Len(l) \in Nat /\ Len(m) \in Nat
  OBVIOUS
<1>2. 1..Len(l) \subseteq 1..Len(m)
  BY <1>1 DEF Later
<1>3. \A rows : Honest(l, rows) => Honest(m, rows)
  BY <1>2 DEF Honest, Later
<1>4. \A call : HonestCall(l, call) => HonestCall(m, call)
  BY <1>2, <1>3 DEF HonestCall, Later
<1>5. \A event : HonestEvent(l, event) => HonestEvent(m, event)
  BY <1>2 DEF HonestEvent, Later
<1> QED
  BY <1>3, <1>4, <1>5

\* Appending a message.
LEMMA AppendIsLater ==
    ASSUME NEW l \in Seq(Message), NEW m \in Message
    PROVE  /\ Append(l, m) \in Seq(Message)
           /\ Later(l, Append(l, m))
           /\ Len(l) + 1 \in 1..Len(Append(l, m))
  BY DEF Later

-------------------------------------------------------------------------------

\* A step of a call that changes the thread.
LEMMA BecomeKeeps ==
    ASSUME IInv, NEW j \in Jobs, NEW t, NEW next, Become(j, t, next),
           IsThread(t), Honest(log, t.rows), HonestCall(log, next)
    PROVE  IInv'
<1>1. log' = log /\ news' = news /\ thread' = t /\ job' = [job EXCEPT ![j] = next]
  BY DEF Become
<1>2. \A i \in Jobs : job'[i] = IF i = j THEN next ELSE job[i]
  BY <1>1 DEF IInv
<1>3. job' = [i \in Jobs |-> job'[i]]
  BY <1>1 DEF IInv
<1> QED
  BY <1>1, <1>2, <1>3 DEF IInv, NothingInvented

\* The server's part of a call, which may change the log.
LEMMA ProceedKeeps ==
    ASSUME IInv, NEW j \in Jobs, NEW next, Proceed(j, next), news' = news,
           log' \in Seq(Message), Later(log, log'), HonestCall(log', next)
    PROVE  IInv'
<1>1. thread' = thread /\ job' = [job EXCEPT ![j] = next]
  BY DEF Proceed
<1>2. \A i \in Jobs : job'[i] = IF i = j THEN next ELSE job[i]
  BY <1>1 DEF IInv
<1>3. job' = [i \in Jobs |-> job'[i]]
  BY <1>1 DEF IInv
<1>4. log \in Seq(Message)
  BY DEF IInv
<1> QED
  BY <1>1, <1>2, <1>3, <1>4, LaterKeeps DEF IInv, NothingInvented

\* The server's part of a call that changes nothing there.
LEMMA AnswerKeeps ==
    ASSUME IInv, NEW j \in Jobs, NEW next, Answer(j, next), HonestCall(log, next)
    PROVE  IInv'
<1>1. log' = log /\ news' = news /\ Proceed(j, next)
  BY DEF Answer
<1>2. Later(log, log)
  BY DEF Later, IInv
<1> QED
  BY <1>1, <1>2, ProceedKeeps DEF IInv

\* An event that changes the thread.
LEMMA HandledKeeps ==
    ASSUME IInv, NEW event, NEW t, Handled(event, t), IsThread(t), Honest(log, t.rows)
    PROVE  IInv'
  BY DEF IInv, Handled, NothingInvented

\* What is not in flight says nothing.
LEMMA IdleIsHonest == \A l : HonestCall(l, Idle)
  BY DEF HonestCall, Idle

\* What the server reads.
LEMMA SnapshotIsHonest == \A S \in SUBSET Stored : Honest(log, Snapshot(S))
  BY DEF Honest, Snapshot, Stored

\* Changing fields of a thread leaves a thread.
LEMMA Fields ==
    ASSUME NEW t, NEW a, NEW b, NEW c, NEW d, NEW e,
           t = [rows |-> a, drafts |-> b, failed |-> c, hasMore |-> d, loading |-> e]
    PROVE  IsThread(t) /\ t.rows = a
  BY DEF IsThread

\* One field of a thread may change at a time.
LEMMA OneField ==
    ASSUME NEW t, IsThread(t), NEW v
    PROVE  /\ IsThread([t EXCEPT !.loading = v]) /\ [t EXCEPT !.loading = v].rows = t.rows
           /\ IsThread([t EXCEPT !.drafts = v]) /\ [t EXCEPT !.drafts = v].rows = t.rows
           /\ IsThread([t EXCEPT !.failed = v]) /\ [t EXCEPT !.failed = v].rows = t.rows
           /\ IsThread([t EXCEPT !.hasMore = v]) /\ [t EXCEPT !.hasMore = v].rows = t.rows
           /\ IsThread([t EXCEPT !.rows = v]) /\ [t EXCEPT !.rows = v].rows = v
<1>1. PICK r, d, f, m, g : t = [rows |-> r, drafts |-> d, failed |-> f,
                                hasMore |-> m, loading |-> g]
  BY DEF IsThread
<1>2. t.rows = r
  BY <1>1
<1>3. [t EXCEPT !.loading = v] = [rows |-> r, drafts |-> d, failed |-> f,
                                  hasMore |-> m, loading |-> v]
  BY <1>1
<1>4. [t EXCEPT !.drafts = v] = [rows |-> r, drafts |-> v, failed |-> f,
                                 hasMore |-> m, loading |-> g]
  BY <1>1
<1>5. [t EXCEPT !.failed = v] = [rows |-> r, drafts |-> d, failed |-> v,
                                 hasMore |-> m, loading |-> g]
  BY <1>1
<1>6. [t EXCEPT !.hasMore = v] = [rows |-> r, drafts |-> d, failed |-> f,
                                   hasMore |-> v, loading |-> g]
  BY <1>1
<1>7. [t EXCEPT !.rows = v] = [rows |-> v, drafts |-> d, failed |-> f,
                               hasMore |-> m, loading |-> g]
  BY <1>1
<1>8. IsThread([t EXCEPT !.loading = v]) /\ [t EXCEPT !.loading = v].rows = t.rows
  BY <1>2, <1>3, Fields
<1>9. IsThread([t EXCEPT !.drafts = v]) /\ [t EXCEPT !.drafts = v].rows = t.rows
  BY <1>2, <1>4, Fields
<1>10. IsThread([t EXCEPT !.failed = v]) /\ [t EXCEPT !.failed = v].rows = t.rows
  BY <1>2, <1>5, Fields
<1>11. IsThread([t EXCEPT !.hasMore = v]) /\ [t EXCEPT !.hasMore = v].rows = t.rows
  BY <1>2, <1>6, Fields
<1>12. IsThread([t EXCEPT !.rows = v]) /\ [t EXCEPT !.rows = v].rows = v
  BY <1>7, Fields
<1> QED
  BY <1>8, <1>9, <1>10, <1>12, <1>11

\* EMPTY_THREAD is a thread without rows.
LEMMA EmptyIsThread == IsThread(EmptyThread) /\ EmptyThread.rows = NoRows
  BY DEF IsThread, EmptyThread

\* Applying a message that the log has.
LEMMA AppliedIsHonest ==
    ASSUME NEW l, NEW t, IsThread(t), Honest(l, t.rows), NEW s, NEW gone, NEW k,
           s \in 1..Len(l), gone => l[s].gone
    PROVE  IsThread(Applied(t, s, gone, k)) /\ Honest(l, Applied(t, s, gone, k).rows)
<1>1. PICK r, d, f, m, g : t = [rows |-> r, drafts |-> d, failed |-> f,
                                hasMore |-> m, loading |-> g]
  BY DEF IsThread
<1> DEFINE p == Put(r, s, gone)
           e == IF s \in DOMAIN r THEN d ELSE d \ {k}
<1>2. Applied(t, s, gone, k) =
        [rows |-> p, drafts |-> e, failed |-> f \ {k}, hasMore |-> m, loading |-> g]
  <2>1. t.rows = r /\ t.drafts = d /\ t.failed = f
    BY <1>1
  <2>2. Applied(t, s, gone, k) =
          [t EXCEPT !.rows = p, !.failed = f \ {k}, !.drafts = e]
    BY <2>1 DEF Applied
  <2> HIDE DEF p, e
  <2> QED
    BY <1>1, <2>2
<1>5. t.rows = r
  BY <1>1
<1>3. Applied(t, s, gone, k).rows = Put(t.rows, s, gone)
  BY <1>2, <1>5
<1>4. IsThread(Applied(t, s, gone, k))
  BY <1>2 DEF IsThread
<1> QED
  BY <1>3, <1>4 DEF Put, Honest

\* Merging a page.
LEMMA MergeIsHonest ==
    \A l, f, g : Honest(l, f) /\ Honest(l, g) => Honest(l, Merge(f, g))
  BY DEF Honest, Merge

-------------------------------------------------------------------------------

\* A user's action keeps the invariant.
LEMMA CallKeeps ==
    ASSUME IInv, NEW j \in Jobs, Call(j)
    PROVE  IInv'
<1>0. IsThread(thread) /\ Honest(log, thread.rows)
  BY DEF IInv, NothingInvented
<1>1. CASE OpenConversation(j)
  <2>1. Honest(log, NoRows)
    BY DEF NoRows, Honest
  <2>2. /\ IsThread([EmptyThread EXCEPT !.loading = TRUE])
        /\ [EmptyThread EXCEPT !.loading = TRUE].rows = NoRows
    BY EmptyIsThread, OneField
  <2>3. HonestCall(log, [step |-> "open"])
    BY DEF HonestCall
  <2> QED
    BY <1>1, <2>1, <2>2, <2>3, BecomeKeeps DEF OpenConversation
<1>2. CASE LoadOlder(j)
  <2> DEFINE t == [thread EXCEPT !.loading = TRUE]
             next == [step |-> "older", kept |-> thread]
  <2>1. IsThread(t) /\ t.rows = thread.rows
    BY <1>0, OneField
  <2>2. HonestCall(log, next)
    BY <1>0 DEF HonestCall
  <2>3. Become(j, t, next)
    BY <1>2 DEF LoadOlder
  <2> HIDE DEF t, next
  <2> QED
    BY <1>0, <2>1, <2>2, <2>3, BecomeKeeps
<1>3. CASE Compose(j)
  <2>1. PICK k \in Keys : Become(j, [thread EXCEPT !.drafts = @ \cup {k}],
                                  [step |-> "enqueue", key |-> k])
    BY <1>3 DEF Compose
  <2> DEFINE t == [thread EXCEPT !.drafts = @ \cup {k}]
  <2>2. IsThread(t) /\ t.rows = thread.rows
    BY <1>0, OneField
  <2>3. HonestCall(log, [step |-> "enqueue", key |-> k])
    BY DEF HonestCall
  <2> HIDE DEF t
  <2> QED
    BY <1>0, <2>1, <2>2, <2>3, BecomeKeeps DEF t
<1>4. CASE Retry(j)
  <2>1. PICK k \in Keys : Become(j, [thread EXCEPT !.failed = @ \ {k}],
                                           [step |-> "post", key |-> k])
    BY <1>4 DEF Retry
  <2> DEFINE t == [thread EXCEPT !.failed = @ \ {k}]
  <2>2. IsThread(t) /\ t.rows = thread.rows
    BY <1>0, OneField
  <2>3. HonestCall(log, [step |-> "post", key |-> k])
    BY DEF HonestCall
  <2> HIDE DEF t
  <2> QED
    BY <1>0, <2>1, <2>2, <2>3, BecomeKeeps DEF t
<1>5. CASE Change(j)
  <2>1. PICK s \in Shown, step \in {"delete", "react"} :
          Answer(j, [step |-> step, seq |-> s])
    BY <1>5 DEF Change
  <2>2. HonestCall(log, [step |-> step, seq |-> s])
    BY <1>0 DEF HonestCall, Honest, Shown
  <2> QED
    BY <2>1, <2>2, AnswerKeeps
<1>6. CASE MarkRead(j)
  <2>1. HonestCall(log, [step |-> "mark", seq |-> Newest(thread)])
    BY DEF HonestCall
  <2> QED
    BY <1>6, <2>1, AnswerKeeps DEF MarkRead
<1>7. CASE Connect(j)
  <2>1. HonestCall(log, [step |-> "list"])
    BY DEF HonestCall
  <2> QED
    BY <1>7, <2>1 DEF Connect, IInv, NothingInvented
<1> QED
  BY <1>1, <1>2, <1>3, <1>4, <1>5, <1>6, <1>7 DEF Call

\* The server's answer keeps the invariant.
LEMMA ServeKeeps ==
    ASSUME IInv, NEW j \in Jobs, Serve(j)
    PROVE  IInv'
<1>0. log \in Seq(Message) /\ HonestCall(log, job[j])
  BY DEF IInv
<1>1. CASE ServeOpen(j)
  <2> DEFINE next == [step |-> "opened", page |-> Snapshot(Before(MaxSeq + 1)),
                      more |-> MoreBefore(MaxSeq + 1)]
  <2>1. HonestCall(log, next)
    BY SnapshotIsHonest DEF HonestCall, Before
  <2>2. Answer(j, next)
    BY <1>1 DEF ServeOpen
  <2> QED
    BY <2>1, <2>2, AnswerKeeps
<1>2. CASE ServeOlder(j)
  <2> DEFINE b == Oldest(job[j].kept)
             next == [step |-> "olderGot", kept |-> job[j].kept,
                      page |-> Snapshot(Before(b)), more |-> MoreBefore(b)]
  <2>1. IsThread(job[j].kept) /\ Honest(log, job[j].kept.rows)
    BY <1>0, <1>2 DEF ServeOlder, HonestCall
  <2>2. Before(b) \in SUBSET Stored
    BY DEF Before
  <2>3. Answer(j, next)
    BY <1>2 DEF ServeOlder
  <2> HIDE DEF b
  <2>4. HonestCall(log, next)
    BY <2>1, <2>2, SnapshotIsHonest DEF HonestCall
  <2> QED
    BY <2>3, <2>4, AnswerKeeps
<1>3. CASE ServeAfter(j)
  <2> DEFINE next == [step |-> "afterGot", page |-> Snapshot(After(job[j].newest))]
  <2>1. HonestCall(log, next)
    BY SnapshotIsHonest DEF HonestCall, After
  <2>2. Answer(j, next)
    BY <1>3 DEF ServeAfter
  <2> QED
    BY <2>1, <2>2, AnswerKeeps
<1>4. CASE ServePost(j)
  <2> DEFINE k == job[j].key
  <2>1. CASE \E s \in Stored : log[s].key = k
    <3>1. SeqOf(k) \in Stored
      BY <2>1 DEF SeqOf
    <3>2. Answer(j, [step |-> "posted", key |-> k, seq |-> SeqOf(k),
                     gone |-> log[SeqOf(k)].gone])
      BY <1>4, <2>1 DEF ServePost
    <3>3. HonestCall(log, [step |-> "posted", key |-> k, seq |-> SeqOf(k),
                           gone |-> log[SeqOf(k)].gone])
      BY <3>1 DEF HonestCall, Stored
    <3> QED
      BY <3>2, <3>3, AnswerKeeps
  <2>2. CASE \A s \in Stored : log[s].key # k
    <3> DEFINE new == [key |-> k, gone |-> FALSE]
               next == [step |-> "posted", key |-> k, seq |-> Len(log) + 1, gone |-> FALSE]
    <3>1. /\ log' = Append(log, new)
          /\ Proceed(j, next)
          /\ news' = news
      BY <1>4, <2>2 DEF ServePost
    <3>2. new \in Message
      BY <1>0, <1>4 DEF Message, ServePost, HonestCall
    <3>3. log' \in Seq(Message) /\ Later(log, log') /\ Len(log) + 1 \in 1..Len(log')
      BY <1>0, <3>1, <3>2, AppendIsLater
    <3>4. HonestCall(log', next)
      BY <3>3 DEF HonestCall
    <3> QED
      BY <3>1, <3>3, <3>4, ProceedKeeps
  <2> QED
    BY <2>1, <2>2
<1>5. CASE ServeChange(j)
  <2> DEFINE s == job[j].seq
             gone == log[s].gone \/ job[j].step = "delete"
             next == [step |-> "changed", seq |-> s, gone |-> gone]
  <2>1. s \in 1..Len(log)
    BY <1>0, <1>5 DEF ServeChange, HonestCall
  <2>2. PICK n \in 1..Len(log), g \in BOOLEAN : n = s /\ g = gone
    BY <2>1
  <2>3. log' = [log EXCEPT ![n].gone = g]
    BY <1>5, <2>2 DEF ServeChange
  <2>4. Proceed(j, next) /\ news' = news
    BY <1>5 DEF ServeChange
  <2>5. log[n].gone => g
    BY <2>2
  <2>6. log' \in Seq(Message) /\ Later(log, log') /\ Len(log') = Len(log) /\ log'[n].gone = g
    <3>1. \A i \in 1..Len(log) : log[i] \in Message
      BY <1>0
    <3>2. [log[n] EXCEPT !.gone = g] \in Message /\ [log[n] EXCEPT !.gone = g].gone = g
      BY <3>1 DEF Message
    <3>3. log' \in Seq(Message) /\ Len(log') = Len(log)
      BY <1>0, <2>3, <3>1, <3>2
    <3>4. log'[n].gone = g /\ \A i \in 1..Len(log) : i # n => log'[i] = log[i]
      BY <1>0, <2>3, <3>2
    <3> QED
      BY <1>0, <2>5, <3>3, <3>4 DEF Later
  <2>7. HonestCall(log', next)
    BY <2>2, <2>6 DEF HonestCall
  <2> QED
    BY <2>4, <2>6, <2>7, ProceedKeeps
<1>6. CASE ServeMark(j)
  <2>1. Later(log, log)
    BY <1>0 DEF Later
  <2>2. log' = log /\ news' = news /\ Proceed(j, Idle)
    BY <1>6 DEF ServeMark
  <2> QED
    BY <1>0, <2>1, <2>2, IdleIsHonest, ProceedKeeps
<1> QED
  BY <1>1, <1>2, <1>3, <1>4, <1>5, <1>6 DEF Serve

\* Handling a response keeps the invariant.
LEMMA RespondKeeps ==
    ASSUME IInv, NEW j \in Jobs, Respond(j)
    PROVE  IInv'
<1>0. /\ IsThread(thread) /\ Honest(log, thread.rows)
      /\ HonestCall(log, job[j]) /\ HonestCall(log, Idle)
  BY IdleIsHonest DEF IInv, NothingInvented
<1>1. CASE Opened(j)
  <2> DEFINE page == job[j].page
             more == job[j].more
             t == [EmptyThread EXCEPT !.rows = page, !.hasMore = more]
  <2>1. Honest(log, page)
    BY <1>0, <1>1 DEF Opened, HonestCall
  <2>3. Become(j, t, Idle)
    BY <1>1 DEF Opened
  <2> HIDE DEF page, more
  <2> DEFINE u == [EmptyThread EXCEPT !.rows = page]
  <2>2. IsThread(u) /\ u.rows = page
    BY EmptyIsThread, OneField
  <2>4. t = [u EXCEPT !.hasMore = more]
    OBVIOUS
  <2> HIDE DEF t, u
  <2>5. IsThread(t) /\ t.rows = page
    BY <2>2, <2>4, OneField
  <2> QED
    BY <1>0, <2>1, <2>3, <2>5, BecomeKeeps
<1>2. CASE OlderLoaded(j)
  <2> DEFINE kept == job[j].kept
             rows == Merge(job[j].page, kept.rows)
             t == [kept EXCEPT !.rows = rows, !.hasMore = job[j].more]
  <2>1. IsThread(kept) /\ Honest(log, rows)
    BY <1>0, <1>2, MergeIsHonest DEF OlderLoaded, HonestCall
  <2>2. Become(j, t, Idle)
    BY <1>2 DEF OlderLoaded
  <2> HIDE DEF kept, rows
  <2> DEFINE u == [kept EXCEPT !.rows = rows]
             more == job[j].more
  <2>3. IsThread(u) /\ u.rows = rows
    BY <2>1, OneField
  <2>4. t = [u EXCEPT !.hasMore = more]
    OBVIOUS
  <2> HIDE DEF t, u, more
  <2>5. IsThread(t) /\ t.rows = rows
    BY <2>3, <2>4, OneField
  <2> QED
    BY <1>0, <2>1, <2>2, <2>5, BecomeKeeps
<1>3. CASE ListLoaded(j)
  <2> DEFINE next == IF IsEmpty(thread) THEN Idle
                     ELSE [step |-> "after", newest |-> Newest(thread)]
  <2>1. HonestCall(log, next)
    BY <1>0 DEF HonestCall
  <2>2. Answer(j, next)
    BY <1>3 DEF ListLoaded
  <2> QED
    BY <2>1, <2>2, AnswerKeeps
<1>4. CASE Recovered(j)
  <2> DEFINE page == job[j].page
             keys(S) == {log[s].key : s \in S}
             rows == Merge(page, thread.rows)
             drafts == thread.drafts \ keys(DOMAIN page \ Shown)
             failed == thread.failed \ keys(DOMAIN page)
             t == [thread EXCEPT !.rows = rows, !.drafts = drafts, !.failed = failed]
  <2>1. Honest(log, rows)
    BY <1>0, <1>4, MergeIsHonest DEF Recovered, HonestCall
  <2>2. Become(j, t, Idle)
    BY <1>4 DEF Recovered
  <2> HIDE DEF page, keys, rows, drafts, failed
  <2> DEFINE u == [thread EXCEPT !.rows = rows]
             v == [u EXCEPT !.drafts = drafts]
  <2>3. IsThread(u) /\ u.rows = rows
    BY <1>0, OneField
  <2>4. t = [v EXCEPT !.failed = failed]
    OBVIOUS
  <2> HIDE DEF t, u
  <2>5. IsThread(v) /\ v.rows = rows
    BY <2>3, OneField
  <2> HIDE DEF v
  <2>6. IsThread(t) /\ t.rows = rows
    BY <2>4, <2>5, OneField
  <2> QED
    BY <1>0, <2>1, <2>2, <2>6, BecomeKeeps
<1>5. CASE Enqueued(j)
  <2> DEFINE next == IF Carries(thread, job[j].key) THEN [step |-> "post", key |-> job[j].key]
                     ELSE Idle
  <2>1. HonestCall(log, next)
    BY <1>0, <1>5 DEF HonestCall, Enqueued
  <2>2. Answer(j, next)
    BY <1>5 DEF Enqueued
  <2> QED
    BY <2>1, <2>2, AnswerKeeps
<1>6. CASE Posted(j)
  <2> DEFINE t == Applied(thread, job[j].seq, job[j].gone, job[j].key)
  <2>1. Become(j, t, Idle)
    BY <1>6 DEF Posted
  <2>2. job[j].seq \in 1..Len(log) /\ (job[j].gone => log[job[j].seq].gone)
    BY <1>0, <1>6 DEF Posted, HonestCall
  <2>3. IsThread(t) /\ Honest(log, t.rows)
    BY <1>0, <2>2, AppliedIsHonest
  <2> HIDE DEF t
  <2> QED
    BY <1>0, <2>1, <2>3, BecomeKeeps
<1>7. CASE PostFails(j)
  <2> DEFINE failed == IF Carries(thread, job[j].key) THEN thread.failed \cup {job[j].key}
                       ELSE thread.failed
             t == [thread EXCEPT !.failed = failed]
  <2>1. Become(j, t, Idle)
    BY <1>7 DEF PostFails
  <2> HIDE DEF failed
  <2>2. IsThread(t) /\ t.rows = thread.rows
    BY <1>0, OneField
  <2> HIDE DEF t
  <2> QED
    BY <1>0, <2>1, <2>2, BecomeKeeps
<1>8. CASE Changed(j)
  <2> DEFINE t == Applied(thread, job[j].seq, job[j].gone, log[job[j].seq].key)
  <2>1. Become(j, t, Idle)
    BY <1>8 DEF Changed
  <2>2. job[j].seq \in 1..Len(log) /\ (job[j].gone => log[job[j].seq].gone)
    BY <1>0, <1>8 DEF Changed, HonestCall
  <2>3. IsThread(t) /\ Honest(log, t.rows)
    BY <1>0, <2>2, AppliedIsHonest
  <2> HIDE DEF t
  <2> QED
    BY <1>0, <2>1, <2>3, BecomeKeeps
<1>9. CASE CallFails(j)
  BY <1>0, <1>9, AnswerKeeps DEF CallFails
<1> QED
  BY <1>1, <1>2, <1>3, <1>4, <1>5, <1>6, <1>7, <1>8, <1>9 DEF Respond

\* Events, handled or lost, and the other members keep the invariant.
LEMMA OthersKeep ==
    ASSUME IInv, HandleEvent \/ Miss \/ Disconnect \/ TheySend \/ TheyDelete
    PROVE  IInv'
<1>0. /\ IsThread(thread) /\ Honest(log, thread.rows) /\ log \in Seq(Message)
      /\ \A event \in news : HonestEvent(log, event)
  BY DEF IInv, NothingInvented
<1>1. CASE HandleCreated
  <2>1. PICK event \in news :
          Handled(event, Applied(thread, event.seq, FALSE, log[event.seq].key))
    BY <1>1 DEF HandleCreated
  <2> DEFINE t == Applied(thread, event.seq, FALSE, log[event.seq].key)
  <2>2. IsThread(t) /\ Honest(log, t.rows)
    BY <1>0, AppliedIsHonest DEF HonestEvent
  <2> HIDE DEF t
  <2> QED
    BY <2>1, <2>2, HandledKeeps DEF t
<1>2. CASE HandleDeleted
  <2>1. PICK event \in news :
          /\ event.kind = "deleted"
          /\ Handled(event, [thread EXCEPT !.rows =
                               IF event.seq \in DOMAIN @ THEN Put(@, event.seq, TRUE) ELSE @])
    BY <1>2 DEF HandleDeleted
  <2> DEFINE rows == IF event.seq \in DOMAIN thread.rows THEN Put(thread.rows, event.seq, TRUE)
                     ELSE thread.rows
             t == [thread EXCEPT !.rows = rows]
  <2>2. Honest(log, rows)
    BY <1>0, <2>1 DEF Honest, HonestEvent, Put
  <2>3. Handled(event, t)
    BY <2>1
  <2> HIDE DEF rows
  <2>4. IsThread(t) /\ t.rows = rows
    BY <1>0, OneField
  <2> HIDE DEF t
  <2> QED
    BY <2>2, <2>3, <2>4, HandledKeeps
<1>3. CASE Miss \/ Disconnect
  BY <1>3 DEF Miss, Disconnect, IInv, NothingInvented
<1>4. CASE TheySend
  <2> DEFINE new == [key |-> Theirs, gone |-> FALSE]
             event == [kind |-> "created", seq |-> Len(log) + 1]
  <2>1. /\ log' = Append(log, new) /\ news' = news \cup {event}
        /\ thread' = thread /\ job' = job
    BY <1>4 DEF TheySend, Publish
  <2>2. new \in Message
    BY DEF Message
  <2>3. log' \in Seq(Message) /\ Later(log, log') /\ Len(log) + 1 \in 1..Len(log')
    BY <1>0, <2>1, <2>2, AppendIsLater
  <2>4. HonestEvent(log', event)
    BY <2>3 DEF HonestEvent
  <2>5. \A e \in news' : HonestEvent(log', e)
    BY <1>0, <2>1, <2>3, <2>4, LaterKeeps
  <2> QED
    BY <1>0, <2>1, <2>3, <2>5, LaterKeeps DEF IInv, NothingInvented
<1>5. CASE TheyDelete
  <2>1. PICK s \in Stored :
          /\ log' = [log EXCEPT ![s].gone = TRUE]
          /\ news' = news \cup {[kind |-> "deleted", seq |-> s]}
    BY <1>5 DEF TheyDelete, Publish
  <2>2. s \in 1..Len(log) /\ thread' = thread /\ job' = job
    BY <1>5 DEF Stored, TheyDelete
  <2>3. \A i \in 1..Len(log) : log[i] \in Message
    BY <1>0
  <2>4. [log[s] EXCEPT !.gone = TRUE] \in Message /\ [log[s] EXCEPT !.gone = TRUE].gone
    BY <2>2, <2>3 DEF Message
  <2>5. log' \in Seq(Message) /\ Len(log') = Len(log)
    BY <1>0, <2>1, <2>2, <2>3, <2>4
  <2>6. log'[s].gone /\ \A i \in 1..Len(log) : i # s => log'[i] = log[i]
    BY <1>0, <2>1, <2>2, <2>4
  <2>7. Later(log, log')
    BY <1>0, <2>5, <2>6 DEF Later
  <2>8. HonestEvent(log', [kind |-> "deleted", seq |-> s])
    BY <2>2, <2>5, <2>6 DEF HonestEvent
  <2>9. \A e \in news' : HonestEvent(log', e)
    BY <1>0, <2>1, <2>5, <2>7, <2>8, LaterKeeps
  <2> QED
    BY <1>0, <2>2, <2>5, <2>7, <2>9, LaterKeeps DEF IInv, NothingInvented
<1> QED
  BY <1>1, <1>2, <1>3, <1>4, <1>5 DEF HandleEvent

-------------------------------------------------------------------------------

\* Whatever is shown, in flight or on the wire says nothing the log does not say.
THEOREM Invariant == Spec => []IInv
<1>1. Init => IInv
  <2> SUFFICES ASSUME Init PROVE IInv
    OBVIOUS
  <2>1. PICK n \in 0..MaxSeq : log = [s \in 1..n |-> [key |-> Theirs, gone |-> FALSE]]
    BY DEF Init
  <2>2. log \in Seq(Message)
    BY <2>1, StoreAssumption DEF Message
  <2>3. IsThread(thread) /\ Honest(log, thread.rows)
    BY EmptyIsThread DEF Init, Honest, NoRows
  <2> QED
    BY <2>2, <2>3, IdleIsHonest DEF Init, IInv, NothingInvented
<1>2. IInv /\ [Next]_vars => IInv'
  <2> SUFFICES ASSUME IInv, [Next]_vars PROVE IInv'
    OBVIOUS
  <2>1. CASE \E j \in Jobs : Call(j) \/ Serve(j) \/ Respond(j)
    BY <2>1, CallKeeps, ServeKeeps, RespondKeeps
  <2>2. CASE HandleEvent \/ Miss \/ Disconnect \/ TheySend \/ TheyDelete
    BY <2>2, OthersKeep
  <2>3. CASE UNCHANGED vars
    BY <2>3 DEF vars, IInv, NothingInvented
  <2> QED
    BY <2>1, <2>2, <2>3 DEF Next
<1> QED
  BY <1>1, <1>2, PTL DEF Spec

\* What a thread shows is in the log, and was deleted there if it is shown so.
THEOREM ShowsOnlyTheLog == Spec => []NothingInvented
<1>1. IInv => NothingInvented
  BY DEF IInv
<1> QED
  BY <1>1, Invariant, PTL

-------------------------------------------------------------------------------
(* A message is shown as sent or as a draft, not as both *)

\* A thread that shows no message both ways.  loadOlder puts a page in front of
\* a thread it kept, so one with more to load has a row before all that its
\* drafts have become.
Whole(l, t) ==
    /\ \A s \in DOMAIN t.rows : s \in 1..Len(l) => l[s].key \notin t.drafts
    /\ t.hasMore => \E n \in DOMAIN t.rows :
                       \A s \in 1..Len(l) : l[s].key \in t.drafts => n < s

WholeCall(l, call) ==
    /\ call.step = "opened" => (call.more => DOMAIN call.page # {})
    /\ call.step \in {"older", "olderGot"} => Whole(l, call.kept) /\ call.kept.hasMore
    /\ call.step = "olderGot" => \A s \in DOMAIN call.page : \A n \in DOMAIN call.kept.rows : s < n
    /\ call.step = "posted" => l[call.seq].key = call.key

AllWhole ==
    /\ Len(log) <= MaxSeq
    /\ Whole(log, thread)
    /\ \A j \in Jobs : WholeCall(log, job[j])

\* A log grows and its messages keep their authors.
Grown(l, m) ==
    /\ Len(l) <= Len(m)
    /\ \A s \in 1..Len(l) : l[s].key = m[s].key

\* A set of positions has a first one.
LEMMA Smallest ==
    ASSUME NEW T \in SUBSET Nat, T # {}
    PROVE  \E x \in T : \A y \in T : x <= y
<1> DEFINE R == {p \in Nat \X Nat : p[1] < p[2]}
<1>1. IsWellFoundedOn(R, Nat)
  BY NatLessThanWellFounded DEF OpToRel
<1>2. \A x, y \in Nat : x < y => <<x, y>> \in R
  OBVIOUS
<1> HIDE DEF R
<1>3. PICK x \in T : \A y \in T : ~ (<<y, x>> \in R)
  BY <1>1, WFMin
<1>4. \A y \in T : ~ (y < x)
  BY <1>2, <1>3, Zenon
<1>5. \A y \in T : y \in Nat /\ x \in Nat
  OBVIOUS
<1>6. \A y \in T : x <= y
  BY <1>4, <1>5
<1> QED
  BY <1>6

\* What a log leaves whole, the log it becomes leaves whole.
LEMMA GrownKeeps ==
    ASSUME NEW l \in Seq(Message), NEW m \in Seq(Message), Grown(l, m)
    PROVE  /\ \A t : Honest(l, t.rows) /\ Whole(l, t) => Whole(m, t)
           /\ \A call : HonestCall(l, call) /\ WholeCall(l, call) => WholeCall(m, call)
<1>1. \A t : Honest(l, t.rows) /\ Whole(l, t) => Whole(m, t)
  <2> TAKE t
  <2> HAVE Honest(l, t.rows) /\ Whole(l, t)
  <2>1. \A s \in DOMAIN t.rows : s \in 1..Len(l)
    BY DEF Honest
  <2>2. \A s \in DOMAIN t.rows : m[s].key \notin t.drafts
    BY <2>1 DEF Whole, Grown
  <2>3. ASSUME t.hasMore
        PROVE  \E n \in DOMAIN t.rows : \A s \in 1..Len(m) : m[s].key \in t.drafts => n < s
    <3>1. PICK n \in DOMAIN t.rows : \A s \in 1..Len(l) : l[s].key \in t.drafts => n < s
      BY <2>3 DEF Whole
    <3>2. \A s \in 1..Len(m) : s \in 1..Len(l) \/ n < s
      BY <2>1
    <3> QED
      BY <3>1, <3>2 DEF Grown
  <2> QED
    BY <2>2, <2>3 DEF Whole
<1>2. \A call : HonestCall(l, call) /\ WholeCall(l, call) => WholeCall(m, call)
  BY <1>1 DEF HonestCall, WholeCall, Grown
<1> QED
  BY <1>1, <1>2

\* A step of a call that changes the thread.
LEMMA BecomeWhole ==
    ASSUME IInv, AllWhole, NEW j \in Jobs, NEW t, NEW next, Become(j, t, next),
           Whole(log, t), WholeCall(log, next)
    PROVE  AllWhole'
<1>1. log' = log /\ thread' = t /\ job' = [job EXCEPT ![j] = next]
  BY DEF Become
<1>2. \A i \in Jobs : job'[i] = IF i = j THEN next ELSE job[i]
  BY <1>1 DEF IInv
<1> QED
  BY <1>1, <1>2 DEF AllWhole

\* The server's part of a call, which may change the log.
LEMMA ProceedWhole ==
    ASSUME IInv, AllWhole, NEW j \in Jobs, NEW next, Proceed(j, next),
           log' \in Seq(Message), Len(log') <= MaxSeq, Grown(log, log'),
           WholeCall(log', next)
    PROVE  AllWhole'
<1>1. thread' = thread /\ job' = [job EXCEPT ![j] = next]
  BY DEF Proceed
<1>2. \A i \in Jobs : job'[i] = IF i = j THEN next ELSE job[i]
  BY <1>1 DEF IInv
<1>3. /\ log \in Seq(Message) /\ Honest(log, thread.rows)
      /\ \A i \in Jobs : HonestCall(log, job[i])
  BY DEF IInv, NothingInvented
<1>4. Whole(log', thread) /\ \A i \in Jobs : WholeCall(log', job[i])
  BY <1>3, GrownKeeps DEF AllWhole
<1> QED
  BY <1>1, <1>2, <1>4 DEF AllWhole

\* The server's part of a call that changes nothing there.
LEMMA AnswerWhole ==
    ASSUME IInv, AllWhole, NEW j \in Jobs, NEW next, Answer(j, next), WholeCall(log, next)
    PROVE  AllWhole'
<1>1. log' = log /\ Proceed(j, next)
  BY DEF Answer
<1>2. Grown(log, log) /\ log \in Seq(Message) /\ Len(log) <= MaxSeq
  BY DEF Grown, IInv, AllWhole
<1> QED
  BY <1>1, <1>2, ProceedWhole

\* What is not in flight is whole.
LEMMA IdleIsWhole == \A l : WholeCall(l, Idle)
  BY DEF WholeCall, Idle

\* A thread is as whole as one with its rows, drafts and hasMore.
LEMMA SameIsWhole ==
    ASSUME NEW l, NEW t, NEW u, Whole(l, t),
           u.rows = t.rows, u.drafts = t.drafts, u.hasMore = t.hasMore
    PROVE  Whole(l, u)
  BY DEF Whole

\* Applying a message takes its draft away.
LEMMA AppliedIsWhole ==
    ASSUME NEW l, NEW t, IsThread(t), Whole(l, t), NEW s, NEW gone,
           NEW k, k = l[s].key
    PROVE  Whole(l, Applied(t, s, gone, k))
<1>1. PICK r, d, f, m, g : t = [rows |-> r, drafts |-> d, failed |-> f,
                                hasMore |-> m, loading |-> g]
  BY DEF IsThread
<1> DEFINE p == Put(r, s, gone)
           e == IF s \in DOMAIN r THEN d ELSE d \ {k}
           u == Applied(t, s, gone, k)
<1>2. t.rows = r /\ t.drafts = d /\ t.failed = f /\ t.hasMore = m
  BY <1>1
<1>3. u = [t EXCEPT !.rows = p, !.failed = f \ {k}, !.drafts = e]
  BY <1>2 DEF Applied
<1>4. DOMAIN p = DOMAIN r \cup {s}
  BY DEF Put
<1> HIDE DEF p, u
<1>5. u.rows = p /\ u.drafts = e /\ u.hasMore = m
  BY <1>1, <1>3
<1>6. \A n \in DOMAIN p : n \in 1..Len(l) => l[n].key \notin e
  BY <1>2, <1>4 DEF Whole
<1>7. m => \E n \in DOMAIN p : \A i \in 1..Len(l) : l[i].key \in e => n < i
  BY <1>2, <1>4 DEF Whole
<1> QED
  BY <1>5, <1>6, <1>7 DEF Whole, u

\* A user's action leaves all whole.
LEMMA CallWhole ==
    ASSUME IInv, AllWhole, NEW j \in Jobs, Call(j)
    PROVE  AllWhole'
<1>0. IsThread(thread) /\ Honest(log, thread.rows) /\ Whole(log, thread)
  BY DEF IInv, NothingInvented, AllWhole
<1>1. CASE OpenConversation(j)
  <2> DEFINE t == [EmptyThread EXCEPT !.loading = TRUE]
             next == [step |-> "open"]
  <2>1. Whole(log, t) /\ WholeCall(log, next)
    BY DEF Whole, WholeCall, EmptyThread, NoRows
  <2>2. Become(j, t, next)
    BY <1>1 DEF OpenConversation
  <2> HIDE DEF t, next
  <2> QED
    BY <2>1, <2>2, BecomeWhole
<1>2. CASE LoadOlder(j)
  <2> DEFINE t == [thread EXCEPT !.loading = TRUE]
             next == [step |-> "older", kept |-> thread]
  <2>1. t.rows = thread.rows /\ t.drafts = thread.drafts /\ t.hasMore = thread.hasMore
    BY <1>0 DEF IsThread
  <2>2. Become(j, t, next) /\ thread.hasMore
    BY <1>2 DEF LoadOlder
  <2>3. WholeCall(log, next)
    BY <1>0, <2>2 DEF WholeCall
  <2> HIDE DEF t, next
  <2>4. Whole(log, t)
    BY <1>0, <2>1, SameIsWhole
  <2> QED
    BY <2>2, <2>3, <2>4, BecomeWhole
<1>3. CASE Compose(j)
  <2>1. PICK k \in Keys : /\ \A s \in Stored : log[s].key # k
                          /\ Become(j, [thread EXCEPT !.drafts = @ \cup {k}],
                                       [step |-> "enqueue", key |-> k])
    BY <1>3 DEF Compose
  <2> DEFINE t == [thread EXCEPT !.drafts = @ \cup {k}]
             next == [step |-> "enqueue", key |-> k]
  <2>2. /\ t.rows = thread.rows /\ t.hasMore = thread.hasMore
        /\ t.drafts = thread.drafts \cup {k}
    BY <1>0 DEF IsThread
  <2>3. WholeCall(log, next)
    BY DEF WholeCall
  <2> HIDE DEF t, next
  <2>4. Whole(log, t)
    BY <1>0, <2>1, <2>2 DEF Whole, Stored
  <2> QED
    BY <2>1, <2>3, <2>4, BecomeWhole DEF t, next
<1>4. CASE Retry(j)
  <2>1. PICK k \in Keys : Become(j, [thread EXCEPT !.failed = @ \ {k}],
                                    [step |-> "post", key |-> k])
    BY <1>4 DEF Retry
  <2> DEFINE t == [thread EXCEPT !.failed = @ \ {k}]
             next == [step |-> "post", key |-> k]
  <2>2. t.rows = thread.rows /\ t.drafts = thread.drafts /\ t.hasMore = thread.hasMore
    BY <1>0 DEF IsThread
  <2>3. WholeCall(log, next)
    BY DEF WholeCall
  <2> HIDE DEF t, next
  <2>4. Whole(log, t)
    BY <1>0, <2>2, SameIsWhole
  <2> QED
    BY <2>1, <2>3, <2>4, BecomeWhole DEF t, next
<1>5. CASE Change(j)
  <2>1. PICK s \in Shown, step \in {"delete", "react"} :
          Answer(j, [step |-> step, seq |-> s])
    BY <1>5 DEF Change
  <2>2. WholeCall(log, [step |-> step, seq |-> s])
    BY DEF WholeCall
  <2> QED
    BY <2>1, <2>2, AnswerWhole
<1>6. CASE MarkRead(j)
  <2>1. WholeCall(log, [step |-> "mark", seq |-> Newest(thread)])
    BY DEF WholeCall
  <2> QED
    BY <1>6, <2>1, AnswerWhole DEF MarkRead
<1>7. CASE Connect(j)
  <2>1. WholeCall(log, [step |-> "list"])
    BY DEF WholeCall
  <2>2. /\ log' = log /\ thread' = thread
        /\ \A i \in Jobs : job'[i] = IF i = j THEN [step |-> "list"] ELSE job[i]
    BY <1>7 DEF Connect, IInv
  <2> QED
    BY <2>1, <2>2 DEF AllWhole
<1> QED
  BY <1>1, <1>2, <1>3, <1>4, <1>5, <1>6, <1>7 DEF Call

\* With more to load than a page, a page is not empty.
LEMMA FirstPage ==
    ASSUME log \in Seq(Message), Len(log) <= MaxSeq, MoreBefore(MaxSeq + 1)
    PROVE  Before(MaxSeq + 1) # {}
<1>1. Len(log) \in Nat /\ Cardinality({}) = 0 /\ PageSize \in Nat \ {0} /\ MaxSeq \in Nat
  BY FS_EmptySet, StoreAssumption
<1>2. CASE Len(log) = 0
  <2>1. {s \in Stored : s < MaxSeq + 1} = {}
    BY <1>2 DEF Stored
  <2>2. Cardinality({s \in Stored : s < MaxSeq + 1}) > PageSize
    BY DEF MoreBefore
  <2>3. 0 > PageSize
    BY <1>1, <2>1, <2>2, Zenon
  <2> QED
    BY <1>1, <2>3
<1>3. CASE Len(log) > 0
  <2>1. Len(log) \in Stored /\ Len(log) < MaxSeq + 1
    BY <1>1, <1>3 DEF Stored
  <2>2. {n \in Stored : Len(log) < n /\ n < MaxSeq + 1} = {}
    BY <1>1 DEF Stored
  <2>3. Cardinality({n \in Stored : Len(log) < n /\ n < MaxSeq + 1}) < PageSize
    <3>1. 0 < PageSize
      BY <1>1
    <3> QED
      BY <1>1, <2>2, <3>1, Zenon
  <2>4. Len(log) \in Before(MaxSeq + 1)
    BY <2>1, <2>3, Zenon DEF Before
  <2> QED
    BY <2>4
<1> QED
  BY <1>1, <1>2, <1>3

\* Setting whether a message is gone keeps the log's authors.
LEMMA GoneFacts ==
    ASSUME log \in Seq(Message), NEW n \in 1..Len(log), NEW g \in BOOLEAN,
           log' = [log EXCEPT ![n].gone = g]
    PROVE  log' \in Seq(Message) /\ Len(log') = Len(log) /\ Grown(log, log')
<1>1. \A i \in 1..Len(log) : log[i] \in Message
  OBVIOUS
<1>2. /\ [log[n] EXCEPT !.gone = g] \in Message
      /\ [log[n] EXCEPT !.gone = g].key = log[n].key
  BY <1>1 DEF Message
<1>3. log' \in Seq(Message) /\ Len(log') = Len(log)
  BY <1>1, <1>2
<1>4. log'[n].key = log[n].key /\ \A i \in 1..Len(log) : i # n => log'[i] = log[i]
  BY <1>2
<1> QED
  BY <1>3, <1>4 DEF Grown

\* The server's answer leaves all whole.
LEMMA ServeWhole ==
    ASSUME IInv, AllWhole, NEW j \in Jobs, Serve(j)
    PROVE  AllWhole'
<1>0. /\ log \in Seq(Message) /\ Len(log) <= MaxSeq
      /\ HonestCall(log, job[j]) /\ WholeCall(log, job[j])
  BY DEF IInv, AllWhole
<1>1. CASE ServeOpen(j)
  <2> DEFINE page == Snapshot(Before(MaxSeq + 1))
             more == MoreBefore(MaxSeq + 1)
             next == [step |-> "opened", page |-> page, more |-> more]
  <2>1. DOMAIN page = Before(MaxSeq + 1)
    BY DEF Snapshot
  <2>2. more => DOMAIN page # {}
    BY <1>0, <2>1, FirstPage
  <2>3. Answer(j, next)
    BY <1>1 DEF ServeOpen
  <2> HIDE DEF page, more
  <2>4. WholeCall(log, next)
    BY <2>2 DEF WholeCall
  <2> QED
    BY <2>3, <2>4, AnswerWhole
<1>2. CASE ServeOlder(j)
  <2> DEFINE kept == job[j].kept
             b == Oldest(kept)
             page == Snapshot(Before(b))
             more == MoreBefore(b)
             next == [step |-> "olderGot", kept |-> kept, page |-> page, more |-> more]
  <2>1. job[j].step = "older" /\ Answer(j, next)
    BY <1>2 DEF ServeOlder
  <2>2. Honest(log, kept.rows) /\ Whole(log, kept) /\ kept.hasMore
    BY <1>0, <2>1 DEF HonestCall, WholeCall
  <2>3. DOMAIN kept.rows \in SUBSET Nat /\ DOMAIN kept.rows # {}
    BY <1>0, <2>2 DEF Honest, Whole
  <2>4. \E s \in DOMAIN kept.rows : \A n \in DOMAIN kept.rows : s <= n
    BY <2>3, Smallest
  <2>5. b \in DOMAIN kept.rows /\ \A n \in DOMAIN kept.rows : b <= n
    BY <2>3, <2>4 DEF Oldest
  <2>6. \A s \in DOMAIN page : s \in Nat /\ s < b
    BY <1>0 DEF Snapshot, Before, Stored
  <2> HIDE DEF kept, b, page, more
  <2>7. \A s \in DOMAIN page : \A n \in DOMAIN kept.rows : s < n
    BY <2>3, <2>5, <2>6
  <2>8. WholeCall(log, next)
    BY <2>2, <2>7 DEF WholeCall
  <2> QED
    BY <2>1, <2>8, AnswerWhole
<1>3. CASE ServeAfter(j)
  <2> DEFINE next == [step |-> "afterGot", page |-> Snapshot(After(job[j].newest))]
  <2>1. Answer(j, next) /\ WholeCall(log, next)
    BY <1>3 DEF ServeAfter, WholeCall
  <2> QED
    BY <2>1, AnswerWhole
<1>4. CASE ServePost(j)
  <2> DEFINE k == job[j].key
  <2>1. CASE \E s \in Stored : log[s].key = k
    <3> DEFINE next == [step |-> "posted", key |-> k, seq |-> SeqOf(k),
                        gone |-> log[SeqOf(k)].gone]
    <3>1. log[SeqOf(k)].key = k
      BY <2>1 DEF SeqOf
    <3>2. Answer(j, next)
      BY <1>4, <2>1 DEF ServePost
    <3>3. WholeCall(log, next)
      BY <3>1 DEF WholeCall
    <3> QED
      BY <3>2, <3>3, AnswerWhole
  <2>2. CASE \A s \in Stored : log[s].key # k
    <3> DEFINE new == [key |-> k, gone |-> FALSE]
               next == [step |-> "posted", key |-> k, seq |-> Len(log) + 1, gone |-> FALSE]
    <3>1. log' = Append(log, new) /\ Proceed(j, next) /\ Len(log) < MaxSeq
      BY <1>4, <2>2 DEF ServePost
    <3>2. new \in Message
      BY <1>0, <1>4 DEF Message, ServePost, HonestCall
    <3>3. /\ log' \in Seq(Message) /\ Len(log') = Len(log) + 1 /\ log'[Len(log) + 1] = new
          /\ \A s \in 1..Len(log) : log'[s] = log[s]
      BY <1>0, <3>1, <3>2
    <3>4. Grown(log, log') /\ Len(log') <= MaxSeq
      BY <1>0, <3>1, <3>3, StoreAssumption DEF Grown
    <3>5. WholeCall(log', next)
      BY <3>3 DEF WholeCall
    <3> QED
      BY <3>1, <3>3, <3>4, <3>5, ProceedWhole
  <2> QED
    BY <2>1, <2>2
<1>5. CASE ServeChange(j)
  <2> DEFINE s == job[j].seq
             gone == log[s].gone \/ job[j].step = "delete"
             next == [step |-> "changed", seq |-> s, gone |-> gone]
  <2>1. s \in 1..Len(log)
    BY <1>0, <1>5 DEF ServeChange, HonestCall
  <2>2. PICK n \in 1..Len(log), g \in BOOLEAN : n = s /\ g = gone
    BY <2>1
  <2>3. log' = [log EXCEPT ![n].gone = g]
    BY <1>5, <2>2 DEF ServeChange
  <2>4. Proceed(j, next)
    BY <1>5 DEF ServeChange
  <2>5. log' \in Seq(Message) /\ Len(log') = Len(log) /\ Grown(log, log')
    BY <1>0, <2>3, GoneFacts
  <2>6. WholeCall(log', next)
    BY DEF WholeCall
  <2> QED
    BY <1>0, <2>4, <2>5, <2>6, ProceedWhole
<1>6. CASE ServeMark(j)
  <2>1. log' = log /\ Proceed(j, Idle)
    BY <1>6 DEF ServeMark
  <2>2. Grown(log, log)
    BY <1>0 DEF Grown
  <2> QED
    BY <1>0, <2>1, <2>2, IdleIsWhole, ProceedWhole
<1> QED
  BY <1>1, <1>2, <1>3, <1>4, <1>5, <1>6 DEF Serve

\* Handling a response leaves all whole.
LEMMA RespondWhole ==
    ASSUME IInv, AllWhole, NEW j \in Jobs, Respond(j)
    PROVE  AllWhole'
<1>0. /\ IsThread(thread) /\ Honest(log, thread.rows) /\ Whole(log, thread)
      /\ HonestCall(log, job[j]) /\ WholeCall(log, job[j]) /\ WholeCall(log, Idle)
  BY IdleIsWhole DEF IInv, NothingInvented, AllWhole
<1>1. CASE Opened(j)
  <2> DEFINE page == job[j].page
             more == job[j].more
             t == [EmptyThread EXCEPT !.rows = page, !.hasMore = more]
  <2>1. Become(j, t, Idle) /\ (more => DOMAIN page # {})
    BY <1>0, <1>1 DEF Opened, WholeCall
  <2>2. t.rows = page /\ t.drafts = {} /\ t.hasMore = more
    BY DEF EmptyThread
  <2> HIDE DEF page, more, t
  <2>3. Whole(log, t)
    BY <2>1, <2>2 DEF Whole
  <2> QED
    BY <1>0, <2>1, <2>3, BecomeWhole
<1>2. CASE OlderLoaded(j)
  <2> DEFINE kept == job[j].kept
             page == job[j].page
             more == job[j].more
             rows == Merge(page, kept.rows)
             t == [kept EXCEPT !.rows = rows, !.hasMore = more]
  <2>1. job[j].step = "olderGot" /\ Become(j, t, Idle)
    BY <1>2 DEF OlderLoaded
  <2>2. /\ IsThread(kept) /\ Honest(log, kept.rows) /\ Whole(log, kept) /\ kept.hasMore
        /\ Honest(log, page)
        /\ \A s \in DOMAIN page : \A n \in DOMAIN kept.rows : s < n
    BY <1>0, <2>1 DEF HonestCall, WholeCall
  <2>3. t.rows = rows /\ t.drafts = kept.drafts /\ t.hasMore = more
    BY <2>2 DEF IsThread
  <2>4. DOMAIN rows = DOMAIN page \cup DOMAIN kept.rows
    BY DEF Merge
  <2> HIDE DEF kept, page, more, rows, t
  <2>5. PICK n \in DOMAIN kept.rows : \A s \in 1..Len(log) : log[s].key \in kept.drafts => n < s
    BY <2>2 DEF Whole
  <2>6. \A s \in DOMAIN page : s \in 1..Len(log) /\ s < n
    BY <2>2 DEF Honest
  <2>7. n \in 1..Len(log)
    BY <2>2 DEF Honest
  <2>8. \A s \in DOMAIN page : log[s].key \notin kept.drafts
    BY <2>5, <2>6, <2>7
  <2>9. Whole(log, t)
    BY <2>2, <2>3, <2>4, <2>5, <2>8 DEF Whole
  <2> QED
    BY <1>0, <2>1, <2>9, BecomeWhole
<1>3. CASE ListLoaded(j)
  <2> DEFINE next == IF IsEmpty(thread) THEN Idle
                     ELSE [step |-> "after", newest |-> Newest(thread)]
  <2>1. WholeCall(log, next) /\ Answer(j, next)
    BY <1>0, <1>3 DEF WholeCall, ListLoaded
  <2> QED
    BY <2>1, AnswerWhole
<1>4. CASE Recovered(j)
  <2> DEFINE page == job[j].page
             keys(S) == {log[s].key : s \in S}
             rows == Merge(page, thread.rows)
             drafts == thread.drafts \ keys(DOMAIN page \ Shown)
             failed == thread.failed \ keys(DOMAIN page)
             t == [thread EXCEPT !.rows = rows, !.drafts = drafts, !.failed = failed]
  <2>1. Become(j, t, Idle)
    BY <1>4 DEF Recovered
  <2>2. DOMAIN rows = DOMAIN page \cup DOMAIN thread.rows
    BY DEF Merge
  <2>3. /\ drafts \subseteq thread.drafts
        /\ \A s \in DOMAIN page \ Shown : log[s].key \notin drafts
    OBVIOUS
  <2> HIDE DEF page, rows, drafts, failed
  <2>4. t.rows = rows /\ t.drafts = drafts /\ t.hasMore = thread.hasMore
    BY <1>0 DEF IsThread
  <2> HIDE DEF t
  <2>5. Whole(log, t)
    BY <1>0, <2>2, <2>3, <2>4 DEF Whole, Shown
  <2> QED
    BY <1>0, <2>1, <2>5, BecomeWhole
<1>5. CASE Enqueued(j)
  <2> DEFINE next == IF Carries(thread, job[j].key) THEN [step |-> "post", key |-> job[j].key]
                     ELSE Idle
  <2>1. WholeCall(log, next) /\ Answer(j, next)
    BY <1>0, <1>5 DEF WholeCall, Enqueued
  <2> QED
    BY <2>1, AnswerWhole
<1>6. CASE Posted(j)
  <2>1. /\ Become(j, Applied(thread, job[j].seq, job[j].gone, job[j].key), Idle)
        /\ job[j].key = log[job[j].seq].key
    BY <1>0, <1>6 DEF Posted, WholeCall
  <2>2. Whole(log, Applied(thread, job[j].seq, job[j].gone, job[j].key))
    BY <1>0, <2>1, AppliedIsWhole
  <2> QED
    BY <1>0, <2>1, <2>2, BecomeWhole
<1>7. CASE PostFails(j)
  <2> DEFINE failed == IF Carries(thread, job[j].key) THEN thread.failed \cup {job[j].key}
                       ELSE thread.failed
             t == [thread EXCEPT !.failed = failed]
  <2>1. Become(j, t, Idle)
    BY <1>7 DEF PostFails
  <2>2. t.rows = thread.rows /\ t.drafts = thread.drafts /\ t.hasMore = thread.hasMore
    BY <1>0 DEF IsThread
  <2> HIDE DEF t
  <2>3. Whole(log, t)
    BY <1>0, <2>2, SameIsWhole
  <2> QED
    BY <1>0, <2>1, <2>3, BecomeWhole
<1>8. CASE Changed(j)
  <2> DEFINE t == Applied(thread, job[j].seq, job[j].gone, log[job[j].seq].key)
  <2>1. Become(j, t, Idle)
    BY <1>8 DEF Changed
  <2>2. Whole(log, t)
    BY <1>0, AppliedIsWhole
  <2> QED
    BY <1>0, <2>1, <2>2, BecomeWhole
<1>9. CASE CallFails(j)
  BY <1>0, <1>9, AnswerWhole DEF CallFails
<1> QED
  BY <1>1, <1>2, <1>3, <1>4, <1>5, <1>6, <1>7, <1>8, <1>9 DEF Respond

\* Events, handled or lost, and the other members leave all whole.
LEMMA OthersWhole ==
    ASSUME IInv, AllWhole, HandleEvent \/ Miss \/ Disconnect \/ TheySend \/ TheyDelete
    PROVE  AllWhole'
<1>0. /\ IsThread(thread) /\ Honest(log, thread.rows) /\ Whole(log, thread)
      /\ log \in Seq(Message) /\ Len(log) <= MaxSeq
      /\ \A i \in Jobs : HonestCall(log, job[i]) /\ WholeCall(log, job[i])
  BY DEF IInv, NothingInvented, AllWhole
<1>1. CASE HandleCreated
  <2>1. PICK event \in news :
          Handled(event, Applied(thread, event.seq, FALSE, log[event.seq].key))
    BY <1>1 DEF HandleCreated
  <2> DEFINE t == Applied(thread, event.seq, FALSE, log[event.seq].key)
  <2>2. Whole(log, t)
    BY <1>0, AppliedIsWhole
  <2> QED
    BY <1>0, <2>1, <2>2 DEF Handled, AllWhole
<1>2. CASE HandleDeleted
  <2>1. PICK event \in news :
          Handled(event, [thread EXCEPT !.rows =
                            IF event.seq \in DOMAIN @ THEN Put(@, event.seq, TRUE) ELSE @])
    BY <1>2 DEF HandleDeleted
  <2> DEFINE rows == IF event.seq \in DOMAIN thread.rows THEN Put(thread.rows, event.seq, TRUE)
                     ELSE thread.rows
             t == [thread EXCEPT !.rows = rows]
  <2>2. DOMAIN rows = DOMAIN thread.rows
    BY DEF Put
  <2>3. Handled(event, t)
    BY <2>1
  <2> HIDE DEF rows
  <2>4. t.rows = rows /\ t.drafts = thread.drafts /\ t.hasMore = thread.hasMore
    BY <1>0 DEF IsThread
  <2> HIDE DEF t
  <2>5. Whole(log, t)
    BY <1>0, <2>2, <2>4 DEF Whole
  <2> QED
    BY <1>0, <2>3, <2>5 DEF Handled, AllWhole
<1>3. CASE Miss \/ Disconnect
  BY <1>3 DEF Miss, Disconnect, AllWhole
<1>4. CASE TheySend
  <2> DEFINE new == [key |-> Theirs, gone |-> FALSE]
  <2>1. log' = Append(log, new) /\ thread' = thread /\ job' = job /\ Len(log) < MaxSeq
    BY <1>4 DEF TheySend
  <2>2. new \in Message
    BY DEF Message
  <2>3. /\ log' \in Seq(Message) /\ Len(log') = Len(log) + 1
        /\ \A s \in 1..Len(log) : log'[s] = log[s]
    BY <1>0, <2>1, <2>2
  <2>4. Grown(log, log') /\ Len(log') <= MaxSeq
    BY <1>0, <2>1, <2>3, StoreAssumption DEF Grown
  <2> QED
    BY <1>0, <2>1, <2>3, <2>4, GrownKeeps DEF AllWhole
<1>5. CASE TheyDelete
  <2>1. PICK s \in 1..Len(log) : log' = [log EXCEPT ![s].gone = TRUE]
    BY <1>5 DEF TheyDelete, Stored
  <2>2. thread' = thread /\ job' = job
    BY <1>5 DEF TheyDelete
  <2>3. log' \in Seq(Message) /\ Len(log') = Len(log) /\ Grown(log, log')
    BY <1>0, <2>1, GoneFacts
  <2> QED
    BY <1>0, <2>2, <2>3, GrownKeeps DEF AllWhole
<1> QED
  BY <1>1, <1>2, <1>3, <1>4, <1>5 DEF HandleEvent

\* The thread and what calls kept of it stay whole.
LEMMA StaysWhole == Spec => []AllWhole
<1>1. Init => AllWhole
  <2> SUFFICES ASSUME Init PROVE AllWhole
    OBVIOUS
  <2>1. PICK n \in 0..MaxSeq : log = [s \in 1..n |-> [key |-> Theirs, gone |-> FALSE]]
    BY DEF Init
  <2>2. Len(log) <= MaxSeq
    BY <2>1, StoreAssumption
  <2>3. Whole(log, thread)
    BY DEF Init, Whole, EmptyThread, NoRows
  <2> QED
    BY <2>2, <2>3, IdleIsWhole DEF Init, AllWhole
<1>2. IInv /\ AllWhole /\ [Next]_vars => AllWhole'
  <2> SUFFICES ASSUME IInv, AllWhole, [Next]_vars PROVE AllWhole'
    OBVIOUS
  <2>1. CASE \E j \in Jobs : Call(j) \/ Serve(j) \/ Respond(j)
    BY <2>1, CallWhole, ServeWhole, RespondWhole
  <2>2. CASE HandleEvent \/ Miss \/ Disconnect \/ TheySend \/ TheyDelete
    BY <2>2, OthersWhole
  <2>3. CASE UNCHANGED vars
    BY <2>3 DEF vars, AllWhole
  <2> QED
    BY <2>1, <2>2, <2>3 DEF Next
<1> QED
  BY <1>1, <1>2, Invariant, PTL DEF Spec

\* No answer, event, page or retry makes a message appear both as sent and as
\* still to be sent, however they overlap.
THEOREM ShowsOnce == Spec => []ShownOnce
<1>1. AllWhole => ShownOnce
  BY DEF AllWhole, Whole, ShownOnce, Shown, Stored
<1> QED
  BY <1>1, StaysWhole, PTL

-------------------------------------------------------------------------------
(* Only a response asked for before the thread changed takes anything away *)

\* What a call that is not outdated knows of the thread.
Unchanged(t, call) ==
    /\ call.step \in {"open", "opened"} => DOMAIN t.rows = {} /\ t.drafts = {}
    /\ call.step \in {"older", "olderGot"} => t.rows = call.kept.rows /\ t.drafts = call.kept.drafts
    /\ call.step = "after" => /\ call.newest \in Nat
                              /\ \A s \in DOMAIN t.rows : s <= call.newest
    /\ call.step = "afterGot" => \A s \in DOMAIN call.page : s \notin DOMAIN t.rows
    /\ call.step \in {"posted", "changed"} =>
          (call.seq \in DOMAIN t.rows /\ t.rows[call.seq] => call.gone)

OwnDelete(l, call) == call.step = "delete" => l[call.seq].key # Theirs

\* A message of others that was deleted before its event was handled has the
\* event of its deletion still to come.
Announced(l, n) ==
    \A event \in n :
        /\ event = [kind |-> event.kind, seq |-> event.seq]
        /\ event.kind = "created" =>
              /\ l[event.seq].key = Theirs
              /\ l[event.seq].gone => [kind |-> "deleted", seq |-> event.seq] \in n

Current ==
    /\ outdated \in [Jobs -> BOOLEAN]
    /\ \A j \in Jobs : outdated[j] \/ Unchanged(thread, job[j])
    /\ \A j \in Jobs : OwnDelete(log, job[j])
    /\ Announced(log, news)

\* u has all of t, or the messages that drafts of t have become.
Keeps(t, u) ==
    /\ DOMAIN t.rows \subseteq DOMAIN u.rows
    /\ \A s \in DOMAIN t.rows : t.rows[s] => u.rows[s]
    /\ \A k \in t.drafts \ u.drafts : \E s \in DOMAIN u.rows : log[s].key = k

Blamed == \E j \in Jobs : outdated[j] /\ job[j] # Idle /\ job'[j] = Idle

\* A set of positions has a last one.
LEMMA Largest ==
    ASSUME NEW L \in Nat, NEW T \in SUBSET (1..L), T # {}
    PROVE  \E x \in T : \A y \in T : y <= x
<1> DEFINE D == {d \in 0..L : L - d \in T}
<1>1. \A x \in T : x \in 1..L /\ L - x \in 0..L /\ L - (L - x) = x
  OBVIOUS
<1>2. \A x \in T : L - x \in D
  BY <1>1
<1>3. D \in SUBSET Nat /\ D # {}
  <2>1. PICK x \in T : TRUE
    OBVIOUS
  <2>2. L - x \in D
    BY <1>2, <2>1
  <2>3. \A d \in D : d \in Nat
    OBVIOUS
  <2> HIDE DEF D
  <2> QED
    BY <2>2, <2>3
<1>4. PICK d \in D : \A e \in D : d <= e
  BY <1>3, Smallest
<1>5. L - d \in T /\ d \in 0..L
  BY <1>4
<1>6. \A y \in T : d <= L - y
  BY <1>2, <1>4
<1> HIDE DEF D
<1>7. \A y \in T : y <= L - d
  BY <1>1, <1>5, <1>6
<1> QED
  BY <1>5, <1>7

\* The newest position of a thread is none of a later page.
LEMMA NewestFacts ==
    ASSUME NEW l \in Seq(Message), NEW t, Honest(l, t.rows)
    PROVE  Newest(t) \in Nat /\ \A s \in DOMAIN t.rows : s <= Newest(t)
<1>1. DOMAIN t.rows \in SUBSET (1..Len(l)) /\ Len(l) \in Nat
  BY DEF Honest
<1>2. CASE DOMAIN t.rows = {}
  BY <1>2 DEF Newest
<1>3. CASE DOMAIN t.rows # {}
  <2>1. \E s \in DOMAIN t.rows : \A n \in DOMAIN t.rows : n <= s
    BY <1>1, <1>3, Largest
  <2> QED
    BY <1>3, <2>1 DEF Newest
<1> QED
  BY <1>2, <1>3

\* What is not in flight knows nothing of the thread.
LEMMA IdleIsUnchanged == \A l, t : Unchanged(t, Idle) /\ OwnDelete(l, Idle)
  BY DEF Unchanged, OwnDelete, Idle

\* A thread that stays keeps everything.
LEMMA SameKeeps ==
    ASSUME NEW t, NEW u, u.rows = t.rows, t.drafts \subseteq u.drafts
    PROVE  Keeps(t, u)
  BY DEF Keeps

\* A step of a call that changes the thread.
LEMMA BecomeCurrent ==
    ASSUME IInv, Current, NEW j \in Jobs, NEW t, NEW next, Become(j, t, next),
           Unchanged(t, next), OwnDelete(log, next)
    PROVE  Current'
<1>1. /\ log' = log /\ news' = news /\ thread' = t
      /\ outdated' = [i \in Jobs |-> i # j /\ job[i] # Idle /\ (outdated[i] \/ t # thread)]
      /\ job' = [job EXCEPT ![j] = next]
  BY DEF Become
<1>2. \A i \in Jobs : job'[i] = IF i = j THEN next ELSE job[i]
  BY <1>1 DEF IInv
<1>3. \A i \in Jobs : outdated'[i] \/ Unchanged(thread', job'[i])
  <2> SUFFICES ASSUME NEW i \in Jobs, ~ outdated'[i] PROVE Unchanged(thread', job'[i])
    OBVIOUS
  <2>1. CASE i = j
    BY <1>1, <1>2, <2>1
  <2>2. CASE i # j /\ job[i] = Idle
    BY <1>1, <1>2, <2>2, IdleIsUnchanged
  <2>3. CASE i # j /\ job[i] # Idle
    <3>1. ~ outdated[i] /\ t = thread
      BY <1>1, <2>3
    <3> QED
      BY <1>1, <1>2, <2>3, <3>1 DEF Current
  <2> QED
    BY <2>1, <2>2, <2>3
<1>4. outdated' \in [Jobs -> BOOLEAN]
  BY <1>1
<1> QED
  BY <1>1, <1>2, <1>3, <1>4 DEF Current

\* The server's part of a call, which may change the log.
LEMMA ProceedCurrent ==
    ASSUME IInv, Current, NEW j \in Jobs, NEW next, Proceed(j, next),
           Grown(log, log'), Announced(log', news'),
           next = Idle \/ outdated[j] \/ Unchanged(thread, next), OwnDelete(log', next)
    PROVE  Current' /\ Keeps(thread, thread')
<1>1. /\ thread' = thread /\ job' = [job EXCEPT ![j] = next]
      /\ outdated' = [outdated EXCEPT ![j] = @ /\ next # Idle]
  BY DEF Proceed
<1>2. \A i \in Jobs : job'[i] = IF i = j THEN next ELSE job[i]
  BY <1>1 DEF IInv
<1>3. /\ outdated' \in [Jobs -> BOOLEAN]
      /\ \A i \in Jobs : outdated'[i] = IF i = j THEN outdated[j] /\ next # Idle ELSE outdated[i]
  BY <1>1 DEF Current
<1>4. \A i \in Jobs : outdated'[i] \/ Unchanged(thread, job'[i])
  BY <1>2, <1>3, IdleIsUnchanged DEF Current
<1>5. \A i \in Jobs : HonestCall(log, job[i]) /\ OwnDelete(log, job[i])
  BY DEF IInv, Current
<1>6. \A i \in Jobs : OwnDelete(log', job[i])
  BY <1>5 DEF HonestCall, OwnDelete, Grown
<1>7. Keeps(thread, thread')
  BY <1>1, SameKeeps
<1> QED
  BY <1>1, <1>2, <1>3, <1>4, <1>6, <1>7 DEF Current

\* The server's part of a call that changes nothing there.
LEMMA AnswerCurrent ==
    ASSUME IInv, Current, NEW j \in Jobs, NEW next, Answer(j, next),
           next = Idle \/ outdated[j] \/ Unchanged(thread, next), OwnDelete(log, next)
    PROVE  Current' /\ Keeps(thread, thread')
<1>1. log' = log /\ news' = news /\ Proceed(j, next)
  BY DEF Answer
<1>2. Grown(log, log') /\ Announced(log', news')
  BY <1>1 DEF Grown, Current, IInv
<1> QED
  BY <1>1, <1>2, ProceedCurrent

\* An event that changes the thread; those that stay are still announced.
LEMMA HandledCurrent ==
    ASSUME IInv, Current, NEW event, NEW t, Handled(event, t), Announced(log, news')
    PROVE  Current'
<1>1. /\ log' = log /\ thread' = t /\ job' = job
      /\ outdated' = [i \in Jobs |-> job[i] # Idle /\ (outdated[i] \/ t # thread)]
  BY DEF Handled
<1>2. \A i \in Jobs : outdated'[i] \/ Unchanged(thread', job'[i])
  <2> SUFFICES ASSUME NEW i \in Jobs, ~ outdated'[i] PROVE Unchanged(thread', job'[i])
    OBVIOUS
  <2>1. CASE job[i] = Idle
    BY <1>1, <2>1, IdleIsUnchanged
  <2>2. CASE job[i] # Idle
    <3>1. ~ outdated[i] /\ t = thread
      BY <1>1, <2>2
    <3> QED
      BY <1>1, <3>1 DEF Current
  <2> QED
    BY <2>1, <2>2
<1> QED
  BY <1>1, <1>2 DEF Current

\* A user's action takes nothing away.
LEMMA CallCurrent ==
    ASSUME IInv, Current, NEW j \in Jobs, Call(j)
    PROVE  Current' /\ Keeps(thread, thread')
<1>0. IsThread(thread) /\ Honest(log, thread.rows)
  BY DEF IInv, NothingInvented
<1>1. CASE OpenConversation(j)
  <2> DEFINE t == [EmptyThread EXCEPT !.loading = TRUE]
             next == [step |-> "open"]
  <2>1. Become(j, t, next) /\ DOMAIN thread.rows = {} /\ thread.drafts = {}
    BY <1>1 DEF OpenConversation, IsEmpty
  <2>2. Unchanged(t, next) /\ OwnDelete(log, next)
    BY DEF Unchanged, OwnDelete, EmptyThread, NoRows
  <2>3. Keeps(thread, t)
    BY <2>1 DEF Keeps
  <2>4. thread' = t
    BY <2>1 DEF Become
  <2> HIDE DEF t, next
  <2> QED
    BY <2>1, <2>2, <2>3, <2>4, BecomeCurrent
<1>2. CASE LoadOlder(j)
  <2> DEFINE t == [thread EXCEPT !.loading = TRUE]
             next == [step |-> "older", kept |-> thread]
  <2>1. t.rows = thread.rows /\ t.drafts = thread.drafts
    BY <1>0 DEF IsThread
  <2>2. Become(j, t, next)
    BY <1>2 DEF LoadOlder
  <2>3. thread' = t
    BY <2>2 DEF Become
  <2> HIDE DEF t
  <2>4. Unchanged(t, next) /\ OwnDelete(log, next)
    BY <2>1 DEF Unchanged, OwnDelete
  <2>5. Keeps(thread, t)
    BY <2>1, SameKeeps
  <2> HIDE DEF next
  <2> QED
    BY <2>2, <2>3, <2>4, <2>5, BecomeCurrent
<1>3. CASE Compose(j)
  <2>1. PICK k \in Keys : Become(j, [thread EXCEPT !.drafts = @ \cup {k}],
                                    [step |-> "enqueue", key |-> k])
    BY <1>3 DEF Compose
  <2> DEFINE t == [thread EXCEPT !.drafts = @ \cup {k}]
             next == [step |-> "enqueue", key |-> k]
  <2>2. t.rows = thread.rows /\ t.drafts = thread.drafts \cup {k}
    BY <1>0 DEF IsThread
  <2>3. Unchanged(t, next) /\ OwnDelete(log, next)
    BY DEF Unchanged, OwnDelete
  <2>4. thread' = t
    BY <2>1 DEF Become
  <2> HIDE DEF t, next
  <2>5. Keeps(thread, t)
    BY <2>2, SameKeeps
  <2> QED
    BY <2>1, <2>3, <2>4, <2>5, BecomeCurrent DEF t, next
<1>4. CASE Retry(j)
  <2>1. PICK k \in Keys : Become(j, [thread EXCEPT !.failed = @ \ {k}],
                                    [step |-> "post", key |-> k])
    BY <1>4 DEF Retry
  <2> DEFINE t == [thread EXCEPT !.failed = @ \ {k}]
             next == [step |-> "post", key |-> k]
  <2>2. t.rows = thread.rows /\ t.drafts = thread.drafts
    BY <1>0 DEF IsThread
  <2>3. Unchanged(t, next) /\ OwnDelete(log, next)
    BY DEF Unchanged, OwnDelete
  <2>4. thread' = t
    BY <2>1 DEF Become
  <2> HIDE DEF t, next
  <2>5. Keeps(thread, t)
    BY <2>2, SameKeeps
  <2> QED
    BY <2>1, <2>3, <2>4, <2>5, BecomeCurrent DEF t, next
<1>5. CASE Change(j)
  <2>1. PICK s \in Shown, step \in {"delete", "react"} :
          Offers(s, step) /\ Answer(j, [step |-> step, seq |-> s])
    BY <1>5 DEF Change
  <2> DEFINE next == [step |-> step, seq |-> s]
  <2>2. Unchanged(thread, next) /\ OwnDelete(log, next)
    BY <2>1 DEF Unchanged, OwnDelete, Offers
  <2> QED
    BY <2>1, <2>2, AnswerCurrent
<1>6. CASE MarkRead(j)
  <2> DEFINE next == [step |-> "mark", seq |-> Newest(thread)]
  <2>1. Unchanged(thread, next) /\ OwnDelete(log, next) /\ Answer(j, next)
    BY <1>6 DEF Unchanged, OwnDelete, MarkRead
  <2> QED
    BY <2>1, AnswerCurrent
<1>7. CASE Connect(j)
  <2> DEFINE next == [step |-> "list"]
  <2>1. Unchanged(thread, next) /\ OwnDelete(log, next)
    BY DEF Unchanged, OwnDelete
  <2>2. /\ log' = log /\ thread' = thread /\ news' = news /\ outdated' = outdated
        /\ \A i \in Jobs : job'[i] = IF i = j THEN next ELSE job[i]
    BY <1>7 DEF Connect, IInv
  <2>3. Keeps(thread, thread')
    BY <2>2, SameKeeps
  <2> QED
    BY <2>1, <2>2, <2>3 DEF Current
<1> QED
  BY <1>1, <1>2, <1>3, <1>4, <1>5, <1>6, <1>7 DEF Call

\* The server's answer takes nothing away.
LEMMA ServeCurrent ==
    ASSUME IInv, Current, NEW j \in Jobs, Serve(j)
    PROVE  Current' /\ Keeps(thread, thread')
<1>0. /\ log \in Seq(Message) /\ Honest(log, thread.rows) /\ HonestCall(log, job[j])
      /\ outdated[j] \/ Unchanged(thread, job[j])
      /\ OwnDelete(log, job[j]) /\ Announced(log, news)
  BY DEF IInv, NothingInvented, Current
<1>1. CASE ServeOpen(j)
  <2> DEFINE next == [step |-> "opened", page |-> Snapshot(Before(MaxSeq + 1)),
                      more |-> MoreBefore(MaxSeq + 1)]
  <2>1. Answer(j, next) /\ job[j].step = "open"
    BY <1>1 DEF ServeOpen
  <2>2. outdated[j] \/ Unchanged(thread, next)
    BY <1>0, <2>1 DEF Unchanged
  <2>3. OwnDelete(log, next)
    BY DEF OwnDelete
  <2> QED
    BY <2>1, <2>2, <2>3, AnswerCurrent
<1>2. CASE ServeOlder(j)
  <2> DEFINE b == Oldest(job[j].kept)
             next == [step |-> "olderGot", kept |-> job[j].kept,
                      page |-> Snapshot(Before(b)), more |-> MoreBefore(b)]
  <2>1. Answer(j, next) /\ job[j].step = "older"
    BY <1>2 DEF ServeOlder
  <2>2. outdated[j] \/ Unchanged(thread, next)
    BY <1>0, <2>1 DEF Unchanged
  <2>3. OwnDelete(log, next)
    BY DEF OwnDelete
  <2> QED
    BY <2>1, <2>2, <2>3, AnswerCurrent
<1>3. CASE ServeAfter(j)
  <2> DEFINE page == Snapshot(After(job[j].newest))
             next == [step |-> "afterGot", page |-> page]
  <2>1. Answer(j, next) /\ job[j].step = "after"
    BY <1>3 DEF ServeAfter
  <2>2. \A s \in DOMAIN page : s \in 1..Len(log) /\ s > job[j].newest
    BY DEF Snapshot, After, Stored
  <2> HIDE DEF page
  <2>3. ASSUME ~ outdated[j] PROVE \A s \in DOMAIN page : s \notin DOMAIN thread.rows
    <3>1. \A s \in DOMAIN thread.rows : s <= job[j].newest /\ s \in 1..Len(log)
      BY <1>0, <2>1, <2>3 DEF Unchanged, Honest
    <3>2. \A s \in 1..Len(log) : ~ (s > job[j].newest /\ s <= job[j].newest)
      BY <1>0, <2>1, <2>3 DEF Unchanged
    <3> QED
      BY <2>2, <3>1, <3>2
  <2>4. outdated[j] \/ Unchanged(thread, next)
    BY <2>3 DEF Unchanged
  <2>5. OwnDelete(log, next)
    BY DEF OwnDelete
  <2> QED
    BY <2>1, <2>4, <2>5, AnswerCurrent
<1>4. CASE ServePost(j)
  <2> DEFINE k == job[j].key
  <2>1. CASE \E s \in Stored : log[s].key = k
    <3> DEFINE s == SeqOf(k)
               next == [step |-> "posted", key |-> k, seq |-> s, gone |-> log[s].gone]
    <3>1. Answer(j, next)
      BY <1>4, <2>1 DEF ServePost
    <3> HIDE DEF s
    <3>2. Unchanged(thread, next) /\ OwnDelete(log, next)
      BY <1>0 DEF Unchanged, OwnDelete, Honest
    <3> QED
      BY <3>1, <3>2, AnswerCurrent
  <2>2. CASE \A s \in Stored : log[s].key # k
    <3> DEFINE new == [key |-> k, gone |-> FALSE]
               next == [step |-> "posted", key |-> k, seq |-> Len(log) + 1, gone |-> FALSE]
    <3>1. log' = Append(log, new) /\ Proceed(j, next) /\ news' = news
      BY <1>4, <2>2 DEF ServePost
    <3>2. new \in Message
      BY <1>0, <1>4 DEF Message, ServePost, HonestCall
    <3>3. Len(log') = Len(log) + 1 /\ \A s \in 1..Len(log) : log'[s] = log[s]
      BY <1>0, <3>1, <3>2
    <3>4. Grown(log, log')
      BY <1>0, <3>3 DEF Grown
    <3>5. Announced(log', news')
      BY <1>0, <3>1, <3>3 DEF Announced, IInv, HonestEvent
    <3>6. Len(log) + 1 \notin DOMAIN thread.rows
      BY <1>0 DEF Honest
    <3>7. Unchanged(thread, next) /\ OwnDelete(log', next)
      BY <3>6 DEF Unchanged, OwnDelete
    <3> QED
      BY <3>1, <3>4, <3>5, <3>7, ProceedCurrent
  <2> QED
    BY <2>1, <2>2
<1>5. CASE ServeChange(j)
  <2> DEFINE s == job[j].seq
             gone == log[s].gone \/ job[j].step = "delete"
             next == [step |-> "changed", seq |-> s, gone |-> gone]
  <2>1. s \in 1..Len(log)
    BY <1>0, <1>5 DEF ServeChange, HonestCall
  <2>2. PICK n \in 1..Len(log), g \in BOOLEAN : n = s /\ g = gone
    BY <2>1
  <2>3. log' = [log EXCEPT ![n].gone = g] /\ Proceed(j, next) /\ news' = news
    BY <1>5, <2>2 DEF ServeChange
  <2>4. Len(log') = Len(log) /\ Grown(log, log')
    BY <1>0, <2>3, GoneFacts
  <2>5. \A i \in 1..Len(log) : i # n => log'[i] = log[i]
    BY <1>0, <2>3
  <2>6. log[n].key = Theirs => log'[n].gone = log[n].gone
    <3>1. log[n] \in Message
      BY <1>0
    <3>2. log'[n].gone = g /\ log[n].gone \in BOOLEAN
      BY <1>0, <2>3, <3>1 DEF Message
    <3>3. log[n].key = Theirs => g = log[n].gone
      BY <1>0, <2>2, <3>2 DEF OwnDelete
    <3> QED
      BY <3>2, <3>3
  <2>7. Announced(log', news')
    BY <1>0, <2>3, <2>4, <2>5, <2>6 DEF Announced, IInv, HonestEvent, Grown
  <2>8. n \in DOMAIN thread.rows /\ thread.rows[n] => g
    BY <1>0, <2>2 DEF Honest
  <2>9. Unchanged(thread, next) /\ OwnDelete(log', next)
    BY <2>2, <2>8 DEF Unchanged, OwnDelete
  <2> QED
    BY <2>3, <2>4, <2>7, <2>9, ProceedCurrent
<1>6. CASE ServeMark(j)
  <2>1. log' = log /\ news' = news /\ Proceed(j, Idle)
    BY <1>6 DEF ServeMark
  <2>2. Grown(log, log)
    BY <1>0 DEF Grown
  <2> QED
    BY <1>0, <2>1, <2>2, IdleIsUnchanged, ProceedCurrent
<1> QED
  BY <1>1, <1>2, <1>3, <1>4, <1>5, <1>6 DEF Serve

\* Applying a message takes nothing away unless it is older than what is shown.
LEMMA AppliedKeeps ==
    ASSUME NEW t, IsThread(t), NEW s, NEW gone, NEW k, k = log[s].key,
           s \in DOMAIN t.rows /\ t.rows[s] => gone
    PROVE  Keeps(t, Applied(t, s, gone, k))
<1>1. PICK r, d, f, m, g : t = [rows |-> r, drafts |-> d, failed |-> f,
                                hasMore |-> m, loading |-> g]
  BY DEF IsThread
<1> DEFINE p == Put(r, s, gone)
           e == IF s \in DOMAIN r THEN d ELSE d \ {k}
           u == Applied(t, s, gone, k)
<1>2. t.rows = r /\ t.drafts = d /\ t.failed = f
  BY <1>1
<1>3. u = [t EXCEPT !.rows = p, !.failed = f \ {k}, !.drafts = e]
  BY <1>2 DEF Applied
<1>4. DOMAIN p = DOMAIN r \cup {s} /\ \A n \in DOMAIN r : p[n] = IF n = s THEN gone ELSE r[n]
  BY DEF Put
<1>5. d \ e \subseteq {k}
  OBVIOUS
<1> HIDE DEF p, u, e
<1>6. u.rows = p /\ u.drafts = e
  BY <1>1, <1>3
<1>7. \A n \in DOMAIN r : r[n] => p[n]
  BY <1>2, <1>4
<1>8. \A x \in d \ e : \E n \in DOMAIN p : log[n].key = x
  BY <1>4, <1>5
<1>9. DOMAIN r \subseteq DOMAIN p
  BY <1>4
<1> QED
  BY <1>2, <1>6, <1>7, <1>8, <1>9 DEF Keeps, u

\* Handling a response takes nothing away unless the call was outdated.
LEMMA RespondCurrent ==
    ASSUME IInv, AllWhole, Current, NEW j \in Jobs, Respond(j)
    PROVE  Current' /\ (Keeps(thread, thread') \/ Blamed)
<1>0. /\ IsThread(thread) /\ Honest(log, thread.rows) /\ log \in Seq(Message)
      /\ HonestCall(log, job[j]) /\ WholeCall(log, job[j])
      /\ outdated[j] \in BOOLEAN /\ (outdated[j] \/ Unchanged(thread, job[j]))
  BY DEF IInv, NothingInvented, AllWhole, Current
<1>done. ASSUME NEW t, Become(j, t, Idle), job[j] # Idle, ~ outdated[j] => Keeps(thread, t)
       PROVE  Current' /\ (Keeps(thread, thread') \/ Blamed)
  <2>1. Current'
    BY <1>done, IdleIsUnchanged, BecomeCurrent
  <2>2. thread' = t /\ job'[j] = Idle
    BY <1>done DEF Become, IInv
  <2> QED
    BY <1>done, <2>1, <2>2 DEF Blamed
<1>1. CASE Opened(j)
  <2> DEFINE t == [EmptyThread EXCEPT !.rows = job[j].page, !.hasMore = job[j].more]
  <2>1. Become(j, t, Idle) /\ job[j].step = "opened"
    BY <1>1 DEF Opened
  <2>2. ~ outdated[j] => Keeps(thread, t)
    BY <1>0, <2>1 DEF Unchanged, Keeps
  <2> QED
    BY <1>done, <2>1, <2>2 DEF Idle
<1>2. CASE OlderLoaded(j)
  <2> DEFINE kept == job[j].kept
             page == job[j].page
             rows == Merge(page, kept.rows)
             t == [kept EXCEPT !.rows = rows, !.hasMore = job[j].more]
  <2>1. job[j].step = "olderGot" /\ Become(j, t, Idle)
    BY <1>2 DEF OlderLoaded
  <2>2. IsThread(kept) /\ \A s \in DOMAIN page : \A n \in DOMAIN kept.rows : s < n
    BY <1>0, <2>1 DEF HonestCall, WholeCall
  <2>3. t.rows = rows /\ t.drafts = kept.drafts
    BY <2>2 DEF IsThread
  <2>4. /\ DOMAIN rows = DOMAIN page \cup DOMAIN kept.rows
        /\ \A s \in DOMAIN kept.rows : s \notin DOMAIN page => rows[s] = kept.rows[s]
    BY DEF Merge
  <2>5. Honest(log, kept.rows)
    BY <1>0, <2>1 DEF HonestCall
  <2>6. \A s \in DOMAIN kept.rows : s \in 1..Len(log) /\ ~ (s < s)
    BY <1>0, <2>5 DEF Honest
  <2>7. ~ outdated[j] => thread.rows = kept.rows /\ thread.drafts = kept.drafts
    BY <1>0, <2>1 DEF Unchanged
  <2> HIDE DEF kept, page, rows, t
  <2>8. \A s \in DOMAIN kept.rows : rows[s] = kept.rows[s]
    BY <2>2, <2>4, <2>6
  <2>9. ~ outdated[j] => Keeps(thread, t)
    BY <2>3, <2>4, <2>7, <2>8 DEF Keeps
  <2> QED
    BY <1>done, <2>1, <2>9 DEF Idle
<1>3. CASE ListLoaded(j)
  <2> DEFINE next == IF IsEmpty(thread) THEN Idle
                     ELSE [step |-> "after", newest |-> Newest(thread)]
  <2>1. Answer(j, next)
    BY <1>3 DEF ListLoaded
  <2>2. Unchanged(thread, next) /\ OwnDelete(log, next)
    BY <1>0, NewestFacts, IdleIsUnchanged DEF Unchanged, OwnDelete
  <2> QED
    BY <2>1, <2>2, AnswerCurrent
<1>4. CASE Recovered(j)
  <2> DEFINE page == job[j].page
             keys(S) == {log[s].key : s \in S}
             rows == Merge(page, thread.rows)
             drafts == thread.drafts \ keys(DOMAIN page \ Shown)
             failed == thread.failed \ keys(DOMAIN page)
             t == [thread EXCEPT !.rows = rows, !.drafts = drafts, !.failed = failed]
  <2>1. Become(j, t, Idle) /\ job[j].step = "afterGot"
    BY <1>4 DEF Recovered
  <2>2. /\ DOMAIN rows = DOMAIN page \cup DOMAIN thread.rows
        /\ \A s \in DOMAIN thread.rows : s \notin DOMAIN page => rows[s] = thread.rows[s]
    BY DEF Merge
  <2>3. \A k \in thread.drafts \ drafts : \E s \in DOMAIN page : log[s].key = k
    OBVIOUS
  <2>4. ~ outdated[j] => \A s \in DOMAIN page : s \notin DOMAIN thread.rows
    BY <1>0, <2>1 DEF Unchanged
  <2> HIDE DEF page, rows, drafts, failed
  <2>5. t.rows = rows /\ t.drafts = drafts
    BY <1>0 DEF IsThread
  <2> HIDE DEF t
  <2>6. ~ outdated[j] => Keeps(thread, t)
    BY <2>2, <2>3, <2>4, <2>5 DEF Keeps
  <2> QED
    BY <1>done, <2>1, <2>6 DEF Idle
<1>5. CASE Enqueued(j)
  <2> DEFINE next == IF Carries(thread, job[j].key) THEN [step |-> "post", key |-> job[j].key]
                     ELSE Idle
  <2>1. Answer(j, next) /\ Unchanged(thread, next) /\ OwnDelete(log, next)
    BY <1>5, IdleIsUnchanged DEF Enqueued, Unchanged, OwnDelete
  <2> QED
    BY <2>1, AnswerCurrent
<1>6. CASE Posted(j)
  <2> DEFINE t == Applied(thread, job[j].seq, job[j].gone, job[j].key)
  <2>1. Become(j, t, Idle) /\ job[j].step = "posted" /\ job[j].key = log[job[j].seq].key
    BY <1>0, <1>6 DEF Posted, WholeCall
  <2>2. ~ outdated[j] => Keeps(thread, t)
    BY <1>0, <2>1, AppliedKeeps DEF Unchanged
  <2> HIDE DEF t
  <2> QED
    BY <1>done, <2>1, <2>2 DEF Idle
<1>7. CASE PostFails(j)
  <2> DEFINE failed == IF Carries(thread, job[j].key) THEN thread.failed \cup {job[j].key}
                       ELSE thread.failed
             t == [thread EXCEPT !.failed = failed]
  <2>1. Become(j, t, Idle) /\ job[j] # Idle
    BY <1>7 DEF PostFails, Idle
  <2>2. t.rows = thread.rows /\ t.drafts = thread.drafts
    BY <1>0 DEF IsThread
  <2> HIDE DEF t
  <2>3. Keeps(thread, t)
    BY <2>2, SameKeeps
  <2> QED
    BY <1>done, <2>1, <2>3
<1>8. CASE Changed(j)
  <2> DEFINE t == Applied(thread, job[j].seq, job[j].gone, log[job[j].seq].key)
  <2>1. Become(j, t, Idle) /\ job[j].step = "changed"
    BY <1>8 DEF Changed
  <2>2. ~ outdated[j] => Keeps(thread, t)
    BY <1>0, <2>1, AppliedKeeps DEF Unchanged
  <2> HIDE DEF t
  <2> QED
    BY <1>done, <2>1, <2>2 DEF Idle
<1>9. CASE CallFails(j)
  BY <1>9, IdleIsUnchanged, AnswerCurrent DEF CallFails
<1> QED
  BY <1>1, <1>2, <1>3, <1>4, <1>5, <1>6, <1>7, <1>8, <1>9 DEF Respond

\* The step takes nothing away, unless an event will bring it back.
Lasting ==
    /\ DOMAIN thread.rows \subseteq DOMAIN thread'.rows
    /\ \A s \in DOMAIN thread.rows :
          thread.rows[s] => thread'.rows[s] \/ [kind |-> "deleted", seq |-> s] \in news'
    /\ \A k \in thread.drafts \ thread'.drafts : \E s \in DOMAIN thread'.rows : log[s].key = k

\* Events, handled or lost, and the other members take nothing away.
LEMMA OthersCurrent ==
    ASSUME IInv, Current, HandleEvent \/ Miss \/ Disconnect \/ TheySend \/ TheyDelete
    PROVE  Current' /\ Lasting
<1>0. /\ IsThread(thread) /\ Honest(log, thread.rows) /\ log \in Seq(Message)
      /\ \A event \in news : HonestEvent(log, event)
      /\ Announced(log, news)
  BY DEF IInv, NothingInvented, Current
<1>1. CASE HandleCreated
  <2>1. PICK event \in news :
          /\ event.kind = "created"
          /\ Handled(event, Applied(thread, event.seq, FALSE, log[event.seq].key))
    BY <1>1 DEF HandleCreated
  <2> DEFINE s == event.seq
             t == Applied(thread, s, FALSE, log[s].key)
  <2>2. news' = news \ {event} /\ thread' = t
    BY <2>1 DEF Handled
  <2>3. \A n : [kind |-> "deleted", seq |-> n] # event
    BY <2>1
  <2>4. Announced(log, news')
    BY <1>0, <2>2, <2>3 DEF Announced
  <2>5. Current'
    BY <2>1, <2>4, HandledCurrent
  <2> HIDE DEF t
  <2>6. CASE s \in DOMAIN thread.rows /\ thread.rows[s]
    <3>1. log[s].gone
      BY <1>0, <2>6 DEF Honest
    <3>2. [kind |-> "deleted", seq |-> s] \in news'
      BY <1>0, <2>1, <2>2, <2>3, <3>1 DEF Announced
    <3>3. t.rows = Put(thread.rows, s, FALSE) /\ t.drafts = thread.drafts
      BY <1>0, <2>6 DEF IsThread, Applied, t
    <3>4. /\ DOMAIN t.rows = DOMAIN thread.rows
          /\ \A n \in DOMAIN thread.rows : n # s => t.rows[n] = thread.rows[n]
      BY <2>6, <3>3 DEF Put
    <3> HIDE DEF s
    <3> QED
      BY <2>2, <2>5, <3>2, <3>3, <3>4 DEF Lasting
  <2>7. CASE ~ (s \in DOMAIN thread.rows /\ thread.rows[s])
    <3>1. Keeps(thread, t)
      BY <1>0, <2>7, AppliedKeeps DEF t
    <3> QED
      BY <2>2, <2>5, <3>1 DEF Keeps, Lasting
  <2> QED
    BY <2>6, <2>7
<1>2. CASE HandleDeleted
  <2>1. PICK event \in news :
          /\ event.kind = "deleted"
          /\ [kind |-> "created", seq |-> event.seq] \notin news
          /\ Handled(event, [thread EXCEPT !.rows =
                               IF event.seq \in DOMAIN @ THEN Put(@, event.seq, TRUE) ELSE @])
    BY <1>2 DEF HandleDeleted
  <2> DEFINE rows == IF event.seq \in DOMAIN thread.rows THEN Put(thread.rows, event.seq, TRUE)
                     ELSE thread.rows
             t == [thread EXCEPT !.rows = rows]
  <2>2. Handled(event, t) /\ news' = news \ {event} /\ thread' = t
    BY <2>1 DEF Handled
  <2>3. \A e \in news : e.kind = "created" => e.seq # event.seq
    BY <1>0, <2>1 DEF Announced
  <2>4. \A n : event = [kind |-> "deleted", seq |-> n] => n = event.seq
    OBVIOUS
  <2>5. Announced(log, news')
    BY <1>0, <2>2, <2>3, <2>4 DEF Announced
  <2>6. /\ DOMAIN rows = DOMAIN thread.rows
        /\ \A n \in DOMAIN thread.rows : thread.rows[n] => rows[n]
    BY DEF Put
  <2> HIDE DEF rows
  <2>7. t.rows = rows /\ t.drafts = thread.drafts
    BY <1>0 DEF IsThread
  <2> HIDE DEF t
  <2>8. Lasting
    BY <2>2, <2>6, <2>7 DEF Lasting
  <2> QED
    BY <2>2, <2>5, <2>8, HandledCurrent
<1>3. CASE Miss \/ Disconnect
  <2>1. /\ log' = log /\ thread' = thread /\ job' = job /\ outdated' = outdated
        /\ news' \subseteq news /\ Unpublished(news')
    BY <1>3 DEF Miss, Disconnect
  <2>2. ASSUME NEW e \in news', e.kind = "created", log[e.seq].gone
        PROVE  [kind |-> "deleted", seq |-> e.seq] \in news'
    <3> DEFINE d == [kind |-> "deleted", seq |-> e.seq]
    <3>1. d \in news /\ e = [kind |-> "created", seq |-> e.seq]
      BY <1>0, <2>1, <2>2 DEF Announced
    <3>2. [d EXCEPT !.kind = "created"] = e
      BY <3>1
    <3>3. d.kind = "deleted"
      OBVIOUS
    <3> HIDE DEF d
    <3>4. d \in news'
      BY <2>1, <3>1, <3>2, <3>3 DEF Unpublished
    <3> QED
      BY <3>4 DEF d
  <2>3. Announced(log', news')
    BY <1>0, <2>1, <2>2 DEF Announced
  <2> QED
    BY <2>1, <2>3 DEF Current, Lasting
<1>4. CASE TheySend
  <2> DEFINE new == [key |-> Theirs, gone |-> FALSE]
             event == [kind |-> "created", seq |-> Len(log) + 1]
  <2>1. /\ log' = Append(log, new) /\ news' = news \cup {event}
        /\ thread' = thread /\ job' = job /\ outdated' = outdated
    BY <1>4 DEF TheySend, Publish
  <2>2. new \in Message
    BY DEF Message
  <2>3. /\ \A s \in 1..Len(log) : log'[s] = log[s]
        /\ log'[Len(log) + 1] = new
    BY <1>0, <2>1, <2>2
  <2>7. \A e \in news : log'[e.seq] = log[e.seq]
    BY <1>0, <2>3 DEF HonestEvent
  <2>8. event.kind = "created" /\ event.seq = Len(log) + 1 /\ new.key = Theirs /\ ~ new.gone
    OBVIOUS
  <2>9. event = [kind |-> event.kind, seq |-> event.seq]
    OBVIOUS
  <2> HIDE DEF new, event
  <2>4. Announced(log', news')
    <3> SUFFICES ASSUME NEW e \in news'
                 PROVE  /\ e = [kind |-> e.kind, seq |-> e.seq]
                        /\ e.kind = "created" =>
                              /\ log'[e.seq].key = Theirs
                              /\ log'[e.seq].gone => [kind |-> "deleted", seq |-> e.seq] \in news'
      BY Zenon DEF Announced
    <3>1. CASE e = event
      BY <2>3, <2>8, <2>9, <3>1
    <3>2. CASE e \in news
      BY <1>0, <2>1, <2>7, <3>2 DEF Announced
    <3> QED
      BY <2>1, <3>1, <3>2
  <2>5. \A j \in Jobs : HonestCall(log, job[j]) /\ OwnDelete(log, job[j])
    BY DEF IInv, Current
  <2>6. \A j \in Jobs : OwnDelete(log', job[j])
    BY <2>3, <2>5 DEF OwnDelete, HonestCall
  <2> QED
    BY <2>1, <2>4, <2>6 DEF Current, Lasting
<1>5. CASE TheyDelete
  <2>1. PICK s \in 1..Len(log) :
          /\ log' = [log EXCEPT ![s].gone = TRUE]
          /\ news' = news \cup {[kind |-> "deleted", seq |-> s]}
    BY <1>5 DEF TheyDelete, Stored, Publish
  <2>2. thread' = thread /\ job' = job /\ outdated' = outdated
    BY <1>5 DEF TheyDelete
  <2>3. Grown(log, log')
    BY <1>0, <2>1, GoneFacts
  <2>7. \A i \in 1..Len(log) : i # s => log'[i] = log[i]
    BY <1>0, <2>1
  <2>8. \A e \in news : /\ log'[e.seq].key = log[e.seq].key
                        /\ e.seq # s => log'[e.seq] = log[e.seq]
    BY <1>0, <2>3, <2>7 DEF HonestEvent, Grown
  <2>9. /\ \A e \in news' : e \in news \/ e.kind # "created"
        /\ \A e \in news' : e \in news \/ e = [kind |-> e.kind, seq |-> e.seq]
        /\ [kind |-> "deleted", seq |-> s] \in news' /\ news \subseteq news'
    BY <2>1
  <2>4. Announced(log', news')
    <3> SUFFICES ASSUME NEW e \in news'
                 PROVE  /\ e = [kind |-> e.kind, seq |-> e.seq]
                        /\ e.kind = "created" =>
                              /\ log'[e.seq].key = Theirs
                              /\ log'[e.seq].gone => [kind |-> "deleted", seq |-> e.seq] \in news'
      BY Zenon DEF Announced
    <3>1. CASE e \notin news
      BY <2>9, <3>1
    <3>2. CASE e \in news
      <4>1. /\ e = [kind |-> e.kind, seq |-> e.seq]
            /\ e.kind = "created" =>
                  /\ log[e.seq].key = Theirs
                  /\ log[e.seq].gone => [kind |-> "deleted", seq |-> e.seq] \in news
        BY <1>0, <3>2 DEF Announced
      <4>2. log'[e.seq].key = log[e.seq].key
        BY <2>8, <3>2
      <4>3. CASE e.seq = s
        BY <2>9, <4>1, <4>2, <4>3
      <4>4. CASE e.seq # s
        BY <2>8, <2>9, <3>2, <4>1, <4>2, <4>4
      <4> QED
        BY <4>3, <4>4
    <3> QED
      BY <3>1, <3>2
  <2>5. \A j \in Jobs : HonestCall(log, job[j]) /\ OwnDelete(log, job[j])
    BY DEF IInv, Current
  <2>6. \A j \in Jobs : OwnDelete(log', job[j])
    BY <2>3, <2>5 DEF OwnDelete, HonestCall, Grown
  <2> QED
    BY <2>1, <2>2, <2>4, <2>6 DEF Current, Lasting
<1> QED
  BY <1>1, <1>2, <1>3, <1>4, <1>5 DEF HandleEvent

\* Every step takes nothing away, or has an outdated call to blame.
LEMMA NextCurrent ==
    ASSUME IInv, AllWhole, Current, [Next]_vars
    PROVE  Current' /\ (Lasting \/ Blamed)
<1>1. ASSUME Keeps(thread, thread') PROVE Lasting
  BY <1>1 DEF Keeps, Lasting
<1>2. CASE \E j \in Jobs : Call(j) \/ Serve(j) \/ Respond(j)
  BY <1>1, <1>2, CallCurrent, ServeCurrent, RespondCurrent
<1>3. CASE HandleEvent \/ Miss \/ Disconnect \/ TheySend \/ TheyDelete
  BY <1>3, OthersCurrent
<1>4. CASE UNCHANGED vars
  BY <1>4 DEF vars, Current, Lasting
<1> QED
  BY <1>2, <1>3, <1>4 DEF Next

\* The server's log and the thread do not change in one step.
LEMMA OneAtATime == [Next]_vars => log' = log \/ thread' = thread
<1> SUFFICES ASSUME [Next]_vars PROVE log' = log \/ thread' = thread
  OBVIOUS
<1>1. ASSUME NEW j \in Jobs, Call(j) PROVE log' = log
  BY <1>1 DEF Call, OpenConversation, LoadOlder, Compose, Retry, Change, MarkRead, Connect,
              Become, Answer
<1>2. ASSUME NEW j \in Jobs, Serve(j) PROVE thread' = thread
  BY <1>2 DEF Serve, ServeOpen, ServeOlder, ServeAfter, ServePost, ServeChange, ServeMark,
              Answer, Proceed
<1>3. ASSUME NEW j \in Jobs, Respond(j) PROVE log' = log
  BY <1>3 DEF Respond, Opened, OlderLoaded, ListLoaded, Recovered, Enqueued, Posted,
              PostFails, Changed, CallFails, Become, Answer
<1>4. CASE HandleEvent \/ Miss \/ Disconnect
  BY <1>4 DEF HandleEvent, HandleCreated, HandleDeleted, Handled, Miss, Disconnect
<1>5. CASE TheySend \/ TheyDelete
  BY <1>5 DEF TheySend, TheyDelete
<1>6. CASE UNCHANGED vars
  BY <1>6 DEF vars
<1> QED
  BY <1>1, <1>2, <1>3, <1>4, <1>5, <1>6 DEF Next

\* A message, a draft or a deletion leaves the thread only by a response that was
\* asked for before the thread changed, for any number of calls in flight.
THEOREM OnlyStaleTakesAway == Spec => OnlyStaleAnswersUndo
<1> DEFINE Undo ==
        \/ Shown \ Shown' # {}
        \/ \E s \in Shown \cap Shown' : thread.rows[s] /\ ~ thread'.rows[s]
                                        /\ [kind |-> "deleted", seq |-> s] \notin news'
        \/ \E k \in thread.drafts \ thread'.drafts : \A s \in Shown' : log'[s].key # k
<1>1. Init => Current
  BY IdleIsUnchanged DEF Init, Current, Announced
<1>2. IInv /\ AllWhole /\ Current /\ [Next]_vars => Current'
  BY NextCurrent
<1>3. IInv /\ AllWhole /\ Current /\ [Next]_vars => [Undo => Blamed]_vars
  <2> SUFFICES ASSUME IInv, AllWhole, Current, [Next]_vars, Undo PROVE Blamed
    OBVIOUS
  <2>1. CASE Lasting /\ log' = log
    BY <2>1 DEF Lasting, Shown
  <2>2. CASE Lasting /\ thread' = thread
    BY <2>2 DEF Lasting, Shown
  <2> QED
    BY <2>1, <2>2, NextCurrent, OneAtATime
<1>4. Spec => [][Undo => Blamed]_vars
  BY <1>1, <1>2, <1>3, Invariant, StaysWhole, PTL DEF Spec
<1> QED
  BY <1>4 DEF OnlyStaleAnswersUndo, Blamed

-------------------------------------------------------------------------------
(* Types *)

\* Rows are functions of positions.
LEMMA RowsFacts ==
    /\ \A f \in Rows : /\ f = [s \in DOMAIN f |-> f[s]] /\ DOMAIN f \subseteq Seqs
                       /\ \A s \in DOMAIN f : f[s] \in BOOLEAN
    /\ \A S \in SUBSET Seqs : \A f \in [S -> BOOLEAN] : f \in Rows
  BY DEF Rows

\* Two functions become one.
LEMMA RowsClosed ==
    ASSUME NEW f \in Rows
    PROVE  /\ \A s \in Seqs : \A v \in BOOLEAN : Put(f, s, v) \in Rows
           /\ \A g \in Rows : Merge(f, g) \in Rows
<1>1. /\ DOMAIN f \subseteq Seqs
      /\ \A s \in DOMAIN f : f[s] \in BOOLEAN
  BY RowsFacts
<1>2. ASSUME NEW s \in Seqs, NEW v \in BOOLEAN PROVE Put(f, s, v) \in Rows
  <2>1. Put(f, s, v) \in [DOMAIN f \cup {s} -> BOOLEAN]
    BY <1>1 DEF Put
  <2>2. DOMAIN f \cup {s} \in SUBSET Seqs
    BY <1>1
  <2> QED
    BY <2>1, <2>2, RowsFacts
<1>3. ASSUME NEW g \in Rows PROVE Merge(f, g) \in Rows
  <2>1. DOMAIN g \subseteq Seqs /\ \A s \in DOMAIN g : g[s] \in BOOLEAN
    BY RowsFacts
  <2>2. Merge(f, g) \in [DOMAIN f \cup DOMAIN g -> BOOLEAN]
    BY <1>1, <2>1 DEF Merge
  <2>3. DOMAIN f \cup DOMAIN g \in SUBSET Seqs
    BY <1>1, <2>1
  <2> QED
    BY <2>2, <2>3, RowsFacts
<1> QED
  BY <1>2, <1>3

\* What the server reads.
LEMMA SnapshotType ==
    ASSUME log \in Seq(Message), Len(log) <= MaxSeq
    PROVE  /\ Stored \subseteq Seqs
           /\ \A s \in Stored : log[s] \in Message /\ log[s].gone \in BOOLEAN
           /\ \A S \in SUBSET Stored : Snapshot(S) \in Rows
           /\ \A b : Before(b) \subseteq Stored /\ After(b) \subseteq Stored
           /\ \A b : MoreBefore(b) \in BOOLEAN
<1>1. Stored \subseteq Seqs
  BY StoreAssumption DEF Stored, Seqs
<1>2. ASSUME NEW s \in Stored PROVE log[s] \in Message /\ log[s].gone \in BOOLEAN
  <2>1. log[s] \in Message
    BY DEF Stored
  <2> QED
    BY <2>1 DEF Message
<1>3. ASSUME NEW S \in SUBSET Stored PROVE Snapshot(S) \in Rows
  <2>1. Snapshot(S) \in [S -> BOOLEAN] /\ S \in SUBSET Seqs
    BY <1>1, <1>2 DEF Snapshot
  <2> QED
    BY <2>1, RowsFacts
<1> QED
  BY <1>1, <1>2, <1>3 DEF Before, After, MoreBefore

\* The fields of a thread.
LEMMA ThreadFields ==
    ASSUME NEW t
    PROVE  t \in Thread <=> /\ IsThread(t)
                            /\ t.rows \in Rows /\ t.drafts \in SUBSET Keys
                            /\ t.failed \in SUBSET Keys
                            /\ t.hasMore \in BOOLEAN /\ t.loading \in BOOLEAN
<1>1. ASSUME t \in Thread
      PROVE  /\ IsThread(t) /\ t.rows \in Rows /\ t.drafts \in SUBSET Keys
             /\ t.failed \in SUBSET Keys /\ t.hasMore \in BOOLEAN /\ t.loading \in BOOLEAN
  BY <1>1 DEF Thread, IsThread
<1>2. ASSUME IsThread(t), t.rows \in Rows, t.drafts \in SUBSET Keys, t.failed \in SUBSET Keys,
             t.hasMore \in BOOLEAN, t.loading \in BOOLEAN
      PROVE  t \in Thread
  <2>1. [rows |-> t.rows, drafts |-> t.drafts, failed |-> t.failed, hasMore |-> t.hasMore,
         loading |-> t.loading] \in Thread
    BY <1>2 DEF Thread
  <2> QED
    BY <1>2, <2>1, Zenon DEF IsThread
<1> QED
  BY <1>1, <1>2

\* A thread with some fields changed.
LEMMA ThreadClosed ==
    ASSUME NEW t \in Thread
    PROVE  /\ \A l \in BOOLEAN : [t EXCEPT !.loading = l] \in Thread
           /\ \A d \in SUBSET Keys : [t EXCEPT !.drafts = d] \in Thread
           /\ \A f \in SUBSET Keys : [t EXCEPT !.failed = f] \in Thread
           /\ \A r \in Rows : [t EXCEPT !.rows = r] \in Thread
           /\ \A r \in Rows : \A m \in BOOLEAN :
                 [t EXCEPT !.rows = r, !.hasMore = m] \in Thread
           /\ \A r \in Rows : \A d, f \in SUBSET Keys :
                 /\ [t EXCEPT !.rows = r, !.drafts = d, !.failed = f] \in Thread
                 /\ [t EXCEPT !.rows = r, !.failed = f, !.drafts = d] \in Thread
  BY DEF Thread

\* The empty thread is a thread.
LEMMA EmptyThreadType == EmptyThread \in Thread /\ NoRows \in Rows
<1>1. NoRows \in [{} -> BOOLEAN]
  BY DEF NoRows
<1>2. NoRows \in Rows
  BY <1>1, RowsFacts
<1> QED
  BY <1>2 DEF EmptyThread, Thread

\* A thread to which a row is applied is one.
LEMMA AppliedType ==
    ASSUME NEW t \in Thread, NEW s \in Seqs, NEW gone \in BOOLEAN, NEW k
    PROVE  Applied(t, s, gone, k) \in Thread
<1>1. t.rows \in Rows /\ t.drafts \in SUBSET Keys /\ t.failed \in SUBSET Keys
  BY ThreadFields
<1>2. Put(t.rows, s, gone) \in Rows
  BY <1>1, RowsClosed
<1> DEFINE p == Put(t.rows, s, gone)
           d == IF s \in DOMAIN t.rows THEN t.drafts ELSE t.drafts \ {k}
           f == t.failed \ {k}
<1>3. p \in Rows /\ d \in SUBSET Keys /\ f \in SUBSET Keys
  BY <1>1, <1>2
<1>4. Applied(t, s, gone, k) = [t EXCEPT !.rows = p, !.failed = f, !.drafts = d]
  BY DEF Applied
<1> HIDE DEF p, d, f
<1>5. [t EXCEPT !.rows = p, !.failed = f, !.drafts = d] \in Thread
  BY <1>3, ThreadClosed, Zenon
<1> QED
  BY <1>4, <1>5, Zenon

\* What the calls remember.
LEMMA JobTypes ==
    /\ \A step \in {"idle", "open", "list"} : [step |-> step] \in Job
    /\ \A p \in Rows : /\ \A m \in BOOLEAN : [step |-> "opened", page |-> p, more |-> m] \in Job
                       /\ [step |-> "afterGot", page |-> p] \in Job
    /\ \A t \in Thread : /\ [step |-> "older", kept |-> t] \in Job
                         /\ \A p \in Rows : \A m \in BOOLEAN :
                             [step |-> "olderGot", kept |-> t, page |-> p, more |-> m] \in Job
    /\ \A n \in Nat : [step |-> "after", newest |-> n] \in Job
    /\ \A step \in {"enqueue", "post"} : \A k \in Keys : [step |-> step, key |-> k] \in Job
    /\ \A k \in Keys : \A s \in Seqs : \A g \in BOOLEAN :
          [step |-> "posted", key |-> k, seq |-> s, gone |-> g] \in Job
    /\ \A step \in {"delete", "react", "mark"} : \A s \in Seqs : [step |-> step, seq |-> s] \in Job
    /\ \A s \in Seqs : \A g \in BOOLEAN : [step |-> "changed", seq |-> s, gone |-> g] \in Job
  BY DEF Job

\* What is not in flight is a call.
LEMMA IdleType == Idle \in Job
  BY JobTypes DEF Idle

\* The fields of a call, by its step.
LEMMA JobFields ==
    ASSUME NEW c \in Job
    PROVE  /\ c.step \in {"opened", "olderGot", "afterGot"} => c.page \in Rows
           /\ c.step \in {"opened", "olderGot"} => c.more \in BOOLEAN
           /\ c.step \in {"older", "olderGot"} => c.kept \in Thread
           /\ c.step = "after" => c.newest \in Nat
           /\ c.step \in {"enqueue", "post", "posted"} => c.key \in Keys
           /\ c.step \in {"posted", "delete", "react", "mark", "changed"} => c.seq \in Seqs
           /\ c.step \in {"posted", "changed"} => c.gone \in BOOLEAN
           /\ c.step = "idle" => c = Idle
           /\ c.step = "open" => c = [step |-> "open"]
           /\ c.step = "list" => c = [step |-> "list"]
  BY DEF Job, Idle

\* A response that makes the thread t.
LEMMA BecomeType ==
    ASSUME TypeOK, NEW j \in Jobs, NEW t \in Thread, NEW next \in Job, Become(j, t, next)
    PROVE  TypeOK'
  BY DEF TypeOK, Become

\* A step of the server on a call.
LEMMA ProceedType ==
    ASSUME TypeOK, NEW j \in Jobs, NEW next \in Job, Proceed(j, next), news' = news,
           log' \in Seq(Message), Len(log') <= MaxSeq, readTo' \in Nat
    PROVE  TypeOK'
  BY DEF TypeOK, Proceed

\* An answer that changes nothing at the server.
LEMMA AnswerType ==
    ASSUME TypeOK, NEW j \in Jobs, NEW next \in Job, Answer(j, next)
    PROVE  TypeOK'
  BY ProceedType DEF Answer, TypeOK

\* An event that makes the thread t.
LEMMA HandledType ==
    ASSUME TypeOK, NEW event, NEW t \in Thread, Handled(event, t)
    PROVE  TypeOK'
  BY DEF TypeOK, Handled

\* A step keeps the types, given that calls and events name positions of the log.
LEMMA CallTyped ==
    ASSUME IInv, TypeOK, NEW j \in Jobs, Call(j)
    PROVE  TypeOK'
<1>0. thread \in Thread /\ Idle \in Job /\ thread.drafts \in SUBSET Keys
      /\ thread.failed \in SUBSET Keys /\ job \in [Jobs -> Job]
      /\ DOMAIN thread.rows \subseteq Seqs
  BY IdleType, ThreadFields, RowsFacts DEF TypeOK
<1>1. CASE OpenConversation(j)
  <2>1. [EmptyThread EXCEPT !.loading = TRUE] \in Thread
    BY EmptyThreadType, ThreadClosed
  <2>2. [step |-> "open"] \in Job
    BY JobTypes
  <2> QED
    BY <1>1, <2>1, <2>2, BecomeType DEF OpenConversation
<1>2. CASE LoadOlder(j)
  <2>1. [thread EXCEPT !.loading = TRUE] \in Thread
    BY <1>0, ThreadClosed
  <2>2. [step |-> "older", kept |-> thread] \in Job
    BY <1>0, JobTypes
  <2> QED
    BY <1>2, <2>1, <2>2, BecomeType DEF LoadOlder
<1>3. CASE Compose(j)
  <2>1. PICK k \in Keys : Become(j, [thread EXCEPT !.drafts = @ \cup {k}],
                                 [step |-> "enqueue", key |-> k])
    BY <1>3 DEF Compose
  <2> DEFINE d == thread.drafts \cup {k}
  <2>2. d \in SUBSET Keys
    BY <1>0
  <2>3. Become(j, [thread EXCEPT !.drafts = d], [step |-> "enqueue", key |-> k])
    BY <2>1
  <2> HIDE DEF d
  <2>4. [thread EXCEPT !.drafts = d] \in Thread /\ [step |-> "enqueue", key |-> k] \in Job
    BY <1>0, <2>2, ThreadClosed, JobTypes
  <2> QED
    BY <2>3, <2>4, BecomeType
<1>4. CASE Retry(j)
  <2>1. PICK k \in Keys : Become(j, [thread EXCEPT !.failed = @ \ {k}],
                                 [step |-> "post", key |-> k])
    BY <1>4 DEF Retry
  <2> DEFINE f == thread.failed \ {k}
  <2>2. f \in SUBSET Keys
    BY <1>0
  <2>3. Become(j, [thread EXCEPT !.failed = f], [step |-> "post", key |-> k])
    BY <2>1
  <2> HIDE DEF f
  <2>4. [thread EXCEPT !.failed = f] \in Thread /\ [step |-> "post", key |-> k] \in Job
    BY <1>0, <2>2, ThreadClosed, JobTypes
  <2> QED
    BY <2>3, <2>4, BecomeType
<1>5. CASE Change(j)
  <2>1. PICK s \in Shown, step \in {"delete", "react"} : Answer(j, [step |-> step, seq |-> s])
    BY <1>5 DEF Change
  <2>2. [step |-> step, seq |-> s] \in Job
    BY <1>0, JobTypes DEF Shown
  <2> QED
    BY <2>1, <2>2, AnswerType
<1>6. CASE MarkRead(j)
  <2>1. Answer(j, [step |-> "mark", seq |-> Newest(thread)]) /\ Newest(thread) > readTo
    BY <1>6 DEF MarkRead
  <2>2. Newest(thread) \in Seqs
    <3>1. CASE DOMAIN thread.rows = {}
      BY <2>1, <3>1 DEF Newest, TypeOK
    <3>2. CASE DOMAIN thread.rows # {}
      <4>1. \E s \in DOMAIN thread.rows : \A n \in DOMAIN thread.rows : n <= s
        BY <1>0, <3>2, Largest, StoreAssumption DEF Seqs
      <4> QED
        BY <1>0, <3>2, <4>1 DEF Newest
    <3> QED
      BY <3>1, <3>2
  <2>3. [step |-> "mark", seq |-> Newest(thread)] \in Job
    BY <2>2, JobTypes
  <2> QED
    BY <2>1, <2>3, AnswerType
<1>7. CASE Connect(j)
  <2>1. [step |-> "list"] \in Job
    BY JobTypes
  <2> QED
    BY <1>7, <2>1 DEF Connect, TypeOK
<1> QED
  BY <1>1, <1>2, <1>3, <1>4, <1>5, <1>6, <1>7 DEF Call

\* The server answers with what it has.
LEMMA ServeTyped ==
    ASSUME IInv, TypeOK, NEW j \in Jobs, Serve(j)
    PROVE  TypeOK'
<1>0. /\ log \in Seq(Message) /\ Len(log) \in Nat /\ Len(log) <= MaxSeq /\ job[j] \in Job
      /\ HonestCall(log, job[j])
  BY DEF TypeOK, IInv
<1>00. MaxSeq \in Nat
  BY StoreAssumption
<1>1. CASE ServeOpen(j)
  <2>1. Snapshot(Before(MaxSeq + 1)) \in Rows /\ MoreBefore(MaxSeq + 1) \in BOOLEAN
    BY <1>0, SnapshotType
  <2>2. [step |-> "opened", page |-> Snapshot(Before(MaxSeq + 1)),
         more |-> MoreBefore(MaxSeq + 1)] \in Job
    BY <2>1, JobTypes
  <2> QED
    BY <1>1, <2>2, AnswerType DEF ServeOpen
<1>2. CASE ServeOlder(j)
  <2> DEFINE b == Oldest(job[j].kept)
  <2>1. Snapshot(Before(b)) \in Rows /\ MoreBefore(b) \in BOOLEAN
    BY <1>0, SnapshotType
  <2>2. job[j].kept \in Thread
    BY <1>0, <1>2, JobFields DEF ServeOlder
  <2>3. Answer(j, [step |-> "olderGot", kept |-> job[j].kept, page |-> Snapshot(Before(b)),
                   more |-> MoreBefore(b)])
    BY <1>2 DEF ServeOlder
  <2> HIDE DEF b
  <2>4. [step |-> "olderGot", kept |-> job[j].kept, page |-> Snapshot(Before(b)),
         more |-> MoreBefore(b)] \in Job
    BY <2>1, <2>2, JobTypes
  <2> QED
    BY <2>3, <2>4, AnswerType
<1>3. CASE ServeAfter(j)
  <2>1. Snapshot(After(job[j].newest)) \in Rows
    BY <1>0, SnapshotType
  <2>2. [step |-> "afterGot", page |-> Snapshot(After(job[j].newest))] \in Job
    BY <2>1, JobTypes
  <2> QED
    BY <1>3, <2>2, AnswerType DEF ServeAfter
<1>4. CASE ServePost(j)
  <2>0. job[j].key \in Keys
    BY <1>0, <1>4, JobFields DEF ServePost
  <2>1. CASE \E s \in Stored : log[s].key = job[j].key
    <3> DEFINE s == SeqOf(job[j].key)
    <3>1. s \in Stored
      BY <2>1 DEF SeqOf
    <3>2. Answer(j, [step |-> "posted", key |-> job[j].key, seq |-> s, gone |-> log[s].gone])
      BY <1>4, <2>1 DEF ServePost
    <3> HIDE DEF s
    <3>3. s \in Seqs /\ log[s].gone \in BOOLEAN
      BY <1>0, <3>1, SnapshotType
    <3>4. [step |-> "posted", key |-> job[j].key, seq |-> s, gone |-> log[s].gone] \in Job
      BY <2>0, <3>3, JobTypes
    <3> QED
      BY <3>2, <3>4, AnswerType
  <2>2. CASE ~ \E s \in Stored : log[s].key = job[j].key
    <3> DEFINE next == [step |-> "posted", key |-> job[j].key, seq |-> Len(log) + 1, gone |-> FALSE]
    <3>1. /\ Len(log) < MaxSeq
          /\ log' = Append(log, [key |-> job[j].key, gone |-> FALSE])
          /\ readTo' = Len(log) + 1 /\ news' = news
          /\ Proceed(j, next)
      BY <1>4, <2>2 DEF ServePost
    <3>2. Len(log) + 1 \in Seqs
      BY <1>0, <1>00, <3>1 DEF Seqs
    <3>3. next \in Job
      BY <2>0, <3>2, JobTypes
    <3>4. [key |-> job[j].key, gone |-> FALSE] \in Message
      BY <2>0 DEF Message
    <3> HIDE DEF next
    <3>5. log' \in Seq(Message) /\ Len(log') = Len(log) + 1
      BY <1>0, <3>1, <3>4
    <3>6. Len(log') <= MaxSeq /\ readTo' \in Nat
      BY <1>0, <1>00, <3>1, <3>5
    <3> QED
      BY <3>1, <3>3, <3>5, <3>6, ProceedType
  <2> QED
    BY <2>1, <2>2
<1>5. CASE ServeChange(j)
  <2> DEFINE s == job[j].seq
             gone == log[s].gone \/ job[j].step = "delete"
             next == [step |-> "changed", seq |-> s, gone |-> gone]
  <2>1. /\ log' = [log EXCEPT ![s].gone = gone]
        /\ Proceed(j, next) /\ readTo' = readTo /\ news' = news
    BY <1>5 DEF ServeChange
  <2>2. s \in Stored
    BY <1>0, <1>5 DEF ServeChange, HonestCall, Stored
  <2>3. s \in Seqs /\ gone \in BOOLEAN
    BY <1>0, <2>2, SnapshotType
  <2>4. next \in Job
    BY <2>3, JobTypes
  <2> HIDE DEF next, gone
  <2>5. log' \in Seq(Message) /\ Len(log') = Len(log)
    BY <1>0, <2>1, <2>2, <2>3, GoneFacts DEF Stored
  <2> QED
    BY <1>0, <2>1, <2>4, <2>5, ProceedType DEF TypeOK
<1>6. CASE ServeMark(j)
  <2>1. job[j].seq \in Nat
    BY <1>0, <1>6, JobFields DEF ServeMark, Seqs
  <2> QED
    BY <1>0, <1>6, <2>1, IdleType, ProceedType DEF ServeMark, TypeOK
<1> QED
  BY <1>1, <1>2, <1>3, <1>4, <1>5, <1>6 DEF Serve

\* A response changes the thread.
LEMMA RespondTyped ==
    ASSUME IInv, TypeOK, NEW j \in Jobs, Respond(j)
    PROVE  TypeOK'
<1>0. /\ thread \in Thread /\ Idle \in Job /\ job[j] \in Job /\ HonestCall(log, job[j])
      /\ thread.rows \in Rows /\ thread.drafts \in SUBSET Keys /\ thread.failed \in SUBSET Keys
  BY IdleType, ThreadFields DEF TypeOK, IInv
<1>1. CASE Opened(j)
  <2>1. job[j].page \in Rows /\ job[j].more \in BOOLEAN
    BY <1>0, <1>1, JobFields DEF Opened
  <2>2. [EmptyThread EXCEPT !.rows = job[j].page, !.hasMore = job[j].more] \in Thread
    BY <2>1, EmptyThreadType, ThreadClosed
  <2> QED
    BY <1>0, <1>1, <2>2, BecomeType DEF Opened
<1>2. CASE OlderLoaded(j)
  <2>1. job[j].page \in Rows /\ job[j].more \in BOOLEAN /\ job[j].kept \in Thread
    BY <1>0, <1>2, JobFields DEF OlderLoaded
  <2>2. Merge(job[j].page, job[j].kept.rows) \in Rows
    BY <2>1, RowsClosed, ThreadFields
  <2> DEFINE r == Merge(job[j].page, job[j].kept.rows)
  <2>3. Become(j, [job[j].kept EXCEPT !.rows = r, !.hasMore = job[j].more], Idle)
    BY <1>2 DEF OlderLoaded
  <2> HIDE DEF r
  <2>4. [job[j].kept EXCEPT !.rows = r, !.hasMore = job[j].more] \in Thread
    BY <2>1, <2>2, ThreadClosed DEF r
  <2> QED
    BY <1>0, <2>3, <2>4, BecomeType
<1>3. CASE ListLoaded(j)
  <2>1. Newest(thread) \in Nat
    BY NewestFacts DEF IInv, NothingInvented
  <2>2. [step |-> "after", newest |-> Newest(thread)] \in Job
    BY <2>1, JobTypes
  <2> QED
    BY <1>0, <1>3, <2>2, AnswerType DEF ListLoaded
<1>4. CASE Recovered(j)
  <2>1. job[j].page \in Rows
    BY <1>0, <1>4, JobFields DEF Recovered
  <2> DEFINE keys(S) == {log[s].key : s \in S}
             r == Merge(job[j].page, thread.rows)
             d == thread.drafts \ keys(DOMAIN job[j].page \ Shown)
             f == thread.failed \ keys(DOMAIN job[j].page)
  <2>2. r \in Rows /\ d \in SUBSET Keys /\ f \in SUBSET Keys
    BY <1>0, <2>1, RowsClosed
  <2>3. Become(j, [thread EXCEPT !.rows = r, !.drafts = d, !.failed = f], Idle)
    BY <1>4 DEF Recovered
  <2> HIDE DEF r, d, f
  <2>4. [thread EXCEPT !.rows = r, !.drafts = d, !.failed = f] \in Thread
    BY <1>0, <2>2, ThreadClosed
  <2> QED
    BY <1>0, <2>3, <2>4, BecomeType
<1>5. CASE Enqueued(j)
  <2>1. job[j].key \in Keys
    BY <1>0, <1>5, JobFields DEF Enqueued
  <2>2. [step |-> "post", key |-> job[j].key] \in Job
    BY <2>1, JobTypes
  <2> QED
    BY <1>0, <1>5, <2>2, AnswerType DEF Enqueued
<1>6. CASE Posted(j)
  <2>1. job[j].seq \in Seqs /\ job[j].gone \in BOOLEAN
    BY <1>0, <1>6, JobFields DEF Posted
  <2>2. Applied(thread, job[j].seq, job[j].gone, job[j].key) \in Thread
    BY <1>0, <2>1, AppliedType
  <2> QED
    BY <1>0, <1>6, <2>2, BecomeType DEF Posted
<1>7. CASE PostFails(j)
  <2> DEFINE k == job[j].key
             f == IF Carries(thread, k) THEN thread.failed \cup {k} ELSE thread.failed
  <2>1. k \in Keys
    BY <1>0, <1>7, JobFields DEF PostFails
  <2>2. f \in SUBSET Keys
    BY <1>0, <2>1
  <2>3. Become(j, [thread EXCEPT !.failed = f], Idle)
    BY <1>7 DEF PostFails
  <2> HIDE DEF f
  <2>4. [thread EXCEPT !.failed = f] \in Thread
    BY <1>0, <2>2, ThreadClosed
  <2> QED
    BY <1>0, <2>3, <2>4, BecomeType
<1>8. CASE Changed(j)
  <2>1. job[j].seq \in Seqs /\ job[j].gone \in BOOLEAN
    BY <1>0, <1>8, JobFields DEF Changed
  <2>2. Applied(thread, job[j].seq, job[j].gone, log[job[j].seq].key) \in Thread
    BY <1>0, <2>1, AppliedType
  <2> QED
    BY <1>0, <1>8, <2>2, BecomeType DEF Changed
<1>9. CASE CallFails(j)
  BY <1>0, <1>9, AnswerType DEF CallFails
<1> QED
  BY <1>1, <1>2, <1>3, <1>4, <1>5, <1>6, <1>7, <1>8, <1>9 DEF Respond

\* Events and other members.
LEMMA OthersTyped ==
    ASSUME IInv, TypeOK, HandleEvent \/ Miss \/ Disconnect \/ TheySend \/ TheyDelete
    PROVE  TypeOK'
<1>0. /\ log \in Seq(Message) /\ Len(log) \in Nat /\ Len(log) <= MaxSeq /\ MaxSeq \in Nat
      /\ thread \in Thread /\ thread.rows \in Rows /\ news \subseteq Event
      /\ \A event \in news : event.seq \in Seqs
  BY ThreadFields, StoreAssumption DEF TypeOK, Event
<1>1. CASE HandleCreated
  <2>1. PICK event \in news :
          Handled(event, Applied(thread, event.seq, FALSE, log[event.seq].key))
    BY <1>1 DEF HandleCreated
  <2> DEFINE t == Applied(thread, event.seq, FALSE, log[event.seq].key)
  <2>2. t \in Thread
    BY <1>0, AppliedType
  <2> HIDE DEF t
  <2> QED
    BY <2>1, <2>2, HandledType DEF t
<1>2. CASE HandleDeleted
  <2> DEFINE r(s) == IF s \in DOMAIN thread.rows THEN Put(thread.rows, s, TRUE) ELSE thread.rows
  <2>1. PICK event \in news : Handled(event, [thread EXCEPT !.rows = r(event.seq)])
    BY <1>2 DEF HandleDeleted
  <2>2. r(event.seq) \in Rows
    BY <1>0, RowsClosed
  <2> HIDE DEF r
  <2>3. [thread EXCEPT !.rows = r(event.seq)] \in Thread
    BY <1>0, <2>2, ThreadClosed
  <2> QED
    BY <2>1, <2>3, HandledType
<1>3. CASE Miss \/ Disconnect
  BY <1>3 DEF Miss, Disconnect, TypeOK
<1>4. CASE TheySend
  <2>1. /\ Len(log) < MaxSeq
        /\ log' = Append(log, [key |-> Theirs, gone |-> FALSE])
        /\ news' = news \cup {[kind |-> "created", seq |-> Len(log) + 1]}
        /\ UNCHANGED <<readTo, link, thread, job, outdated>>
    BY <1>4 DEF TheySend, Publish
  <2>2. [key |-> Theirs, gone |-> FALSE] \in Message
    BY DEF Message
  <2>3. log' \in Seq(Message) /\ Len(log') = Len(log) + 1
    BY <1>0, <2>1, <2>2
  <2>4. [kind |-> "created", seq |-> Len(log) + 1] \in Event
    BY <1>0, <2>1 DEF Event, Seqs
  <2>5. Len(log') <= MaxSeq
    BY <1>0, <2>1, <2>3
  <2> QED
    BY <2>1, <2>3, <2>4, <2>5 DEF TypeOK
<1>5. CASE TheyDelete
  <2>1. PICK s \in Stored : /\ log' = [log EXCEPT ![s].gone = TRUE]
                            /\ news' = news \cup {[kind |-> "deleted", seq |-> s]}
    BY <1>5 DEF TheyDelete, Publish
  <2>2. log' \in Seq(Message) /\ Len(log') = Len(log)
    BY <1>0, <2>1, GoneFacts DEF Stored
  <2>3. [kind |-> "deleted", seq |-> s] \in Event
    BY <1>0, SnapshotType DEF Event
  <2> QED
    BY <1>5, <2>1, <2>2, <2>3 DEF TypeOK, TheyDelete
<1> QED
  BY <1>1, <1>2, <1>3, <1>4, <1>5 DEF HandleEvent

\* Threads, calls and events keep their shape, whatever overlaps.
THEOREM TypeCorrect == Spec => []TypeOK
<1>1. Init => TypeOK
  <2> SUFFICES ASSUME Init PROVE TypeOK
    OBVIOUS
  <2>1. PICK n \in 0..MaxSeq : log = [s \in 1..n |-> [key |-> Theirs, gone |-> FALSE]]
    BY DEF Init
  <2>2. log \in Seq(Message) /\ Len(log) = n
    BY <2>1, StoreAssumption DEF Message
  <2>3. Len(log) <= MaxSeq
    BY <2>2, StoreAssumption
  <2> QED
    BY <2>2, <2>3, EmptyThreadType, IdleType DEF Init, TypeOK
<1>2. IInv /\ TypeOK /\ [Next]_vars => TypeOK'
  <2> SUFFICES ASSUME IInv, TypeOK, [Next]_vars PROVE TypeOK'
    OBVIOUS
  <2>1. CASE \E j \in Jobs : Call(j) \/ Serve(j) \/ Respond(j)
    BY <2>1, CallTyped, ServeTyped, RespondTyped
  <2>2. CASE HandleEvent \/ Miss \/ Disconnect \/ TheySend \/ TheyDelete
    BY <2>2, OthersTyped
  <2>3. CASE UNCHANGED vars
    BY <2>3 DEF vars, TypeOK
  <2> QED
    BY <2>1, <2>2, <2>3 DEF Next
<1> QED
  BY <1>1, <1>2, Invariant, PTL DEF Spec

-------------------------------------------------------------------------------
(* With a careful environment nothing is missing for good *)

Created(s) == [kind |-> "created", seq |-> s]
Deleted(s) == [kind |-> "deleted", seq |-> s]

\* A position from the oldest one shown on, and one after all that are shown.
Above(s) == \E n \in Shown : n <= s
Beyond(s) == Shown # {} /\ \A n \in Shown : n < s

\* Events are being missed, or what was missed is being asked for.
Recovering == link = "down" \/ \E j \in Jobs : job[j].step \in {"list", "after", "afterGot"}

\* The answer to a deletion of s is on its way.
Answering(s) == \E j \in Jobs : job[j].step = "changed" /\ job[j].seq = s

Single == \A i, j \in Jobs : job[i] # Idle /\ job[j] # Idle => i = j

\* Each message of the thread's range is shown, announced, or a draft still, or
\* the recovery will bring it.
Explained ==
    \A s \in Stored : Above(s) =>
        \/ s \in Shown \/ Created(s) \in news \/ log[s].key \in thread.drafts
        \/ Beyond(s) /\ Recovering

\* What comes after a message that is announced is announced, too.
Consecutive ==
    link = "up" => \A s, n \in Stored : Created(s) \in news /\ s < n =>
        Created(n) \in news \/ n \in Shown \/ log[n].key \in thread.drafts

\* The read position is in the log, and of what comes after the thread it covers
\* the user's own messages only.
ReadShown ==
    /\ readTo <= Len(log)
    /\ \A s \in Stored : Beyond(s) /\ s <= readTo => log[s].key # Theirs

\* A draft that has been stored is not before the thread, and a failed one is there.
DraftsAbove == \A s \in Stored : Shown # {} /\ log[s].key \in thread.drafts => Above(s)
FailedCarried == \A k \in thread.failed : Carries(thread, k)
KeysOnce == \A s, n \in Stored : log[s].key = log[n].key /\ log[s].key # Theirs => s = n

\* A deletion that the thread does not show, or will forget, is still announced.
GoneExplained ==
    /\ \A s \in Shown : log[s].gone /\ ~ thread.rows[s] => Deleted(s) \in news \/ Answering(s)
    /\ \A s \in Stored : Created(s) \in news =>
          log[s].key = Theirs /\ (log[s].gone => Deleted(s) \in news)

OnePageBehind == Recovering /\ Shown # {} => \E n \in Shown : Len(log) <= n + PageSize

Facts ==
    /\ Explained /\ Consecutive /\ ReadShown /\ DraftsAbove /\ FailedCarried /\ KeysOnce
    /\ GoneExplained /\ OnePageBehind /\ HistoryReachable

\* What the one call in flight has read is so.
Fresh(c) ==
    /\ c.step \in {"open", "opened"} => thread.drafts = {} /\ Shown = {}
    /\ c.step = "opened" => /\ c.page = Snapshot(Before(MaxSeq + 1))
                            /\ c.more = MoreBefore(MaxSeq + 1)
    /\ c.step \in {"older", "olderGot"} => c.kept = [thread EXCEPT !.loading = FALSE]
    /\ c.step = "olderGot" => /\ c.page = Snapshot(Before(Oldest(thread)))
                              /\ c.more = MoreBefore(Oldest(thread))
    /\ c.step \in {"list", "after", "afterGot", "enqueue", "post", "posted"} =>
          link = "up" /\ news = {}
    /\ c.step = "after" => c.newest = Newest(thread)
    /\ c.step = "afterGot" => c.page = Snapshot(After(Newest(thread)))
    /\ c.step = "post" => Carries(thread, c.key)
    /\ c.step = "posted" => /\ log[c.seq].key = c.key /\ c.gone = log[c.seq].gone
                            /\ Shown # {} => Above(c.seq)
    /\ c.step \in {"delete", "react", "changed"} => c.seq \in Shown
    /\ c.step = "delete" => log[c.seq].key # Theirs
    /\ c.step = "changed" => c.gone = log[c.seq].gone
    /\ c.step = "mark" => c.seq \in Shown

CarefulInv == Single /\ Facts /\ \A j \in Jobs : Fresh(job[j])

-------------------------------------------------------------------------------

\* What the types and the invariant of every behaviour give.
LEMMA Basics ==
    ASSUME TypeOK, IInv
    PROVE  /\ Len(log) \in Nat /\ readTo \in Nat /\ Stored = 1..Len(log) /\ Len(log) <= MaxSeq
           /\ Shown \subseteq Stored /\ Stored \subseteq Nat /\ Shown \subseteq Nat
           /\ thread.drafts \subseteq Keys /\ thread.failed \subseteq Keys /\ Theirs \notin Keys
           /\ \A s \in Stored : log[s].key \in Keys \cup {Theirs} /\ log[s].gone \in BOOLEAN
           /\ \A s \in Shown : thread.rows[s] \in BOOLEAN /\ (thread.rows[s] => log[s].gone)
           /\ thread \in Thread /\ MaxSeq \in Nat /\ PageSize \in Nat \ {0}
<1>1. thread \in Thread /\ thread.drafts \in SUBSET Keys /\ thread.failed \in SUBSET Keys
      /\ thread.rows \in Rows
  BY ThreadFields DEF TypeOK
<1>2. Shown \subseteq Stored /\ \A s \in Shown : thread.rows[s] => log[s].gone
  BY DEF IInv, NothingInvented, Honest, Shown, Stored
<1>3. ASSUME NEW s \in Stored PROVE log[s].key \in Keys \cup {Theirs} /\ log[s].gone \in BOOLEAN
  <2>1. log[s] \in Message
    BY DEF TypeOK, Stored
  <2> QED
    BY <2>1 DEF Message
<1>4. \A s \in Shown : thread.rows[s] \in BOOLEAN
  BY <1>1, RowsFacts DEF Shown
<1> QED
  BY <1>1, <1>2, <1>3, <1>4, StoreAssumption DEF TypeOK, Stored

\* With one call at a time, the others are idle before and after its step.
LEMMA Turn ==
    ASSUME TypeOK, Single, OneCall, NEW j \in Jobs, NEW next,
           job' = [job EXCEPT ![j] = next], job[j] # Idle \/ next # Idle
    PROVE  /\ job'[j] = next /\ \A i \in Jobs : i # j => job[i] = Idle /\ job'[i] = Idle
           /\ Single'
           /\ Recovering <=> link = "down" \/ job[j].step \in {"list", "after", "afterGot"}
           /\ Recovering' <=> link' = "down" \/ next.step \in {"list", "after", "afterGot"}
           /\ \A s : Answering(s) <=> job[j].step = "changed" /\ job[j].seq = s
           /\ \A s : Answering(s)' <=> next.step = "changed" /\ next.seq = s
<1>1. job'[j] = next /\ \A i \in Jobs : i # j => job'[i] = job[i]
  BY DEF TypeOK
<1>2. Single'
  BY DEF OneCall, Single
<1>3. \A i \in Jobs : i # j => job[i] = Idle /\ job'[i] = Idle
  BY <1>1, <1>2 DEF Single
<1>4. Idle.step = "idle"
  BY DEF Idle
<1>5. /\ Recovering <=> link = "down" \/ job[j].step \in {"list", "after", "afterGot"}
      /\ Recovering' <=> link' = "down" \/ next.step \in {"list", "after", "afterGot"}
  BY <1>1, <1>3, <1>4 DEF Recovering
<1>6. /\ \A s : Answering(s) <=> job[j].step = "changed" /\ job[j].seq = s
      /\ \A s : Answering(s)' <=> next.step = "changed" /\ next.seq = s
  BY <1>1, <1>3, <1>4 DEF Answering
<1> QED
  BY <1>1, <1>2, <1>3, <1>5, <1>6

\* What is not in flight has read nothing.
LEMMA IdleIsFresh == Fresh(Idle)
  BY DEF Fresh, Idle

\* A step that leaves the log, the rows and the events alone.
LEMMA Quiet ==
    ASSUME TypeOK, IInv, Facts,
           log' = log, readTo' = readTo \/ readTo' \in Shown,
           news' = news, link' = link \/ news = {},
           Shown' = Shown, \A s \in Shown : thread'.rows[s] = thread.rows[s],
           thread.drafts \subseteq thread'.drafts,
           \A k \in thread'.drafts \ thread.drafts : \A s \in Stored : log[s].key # k,
           \A k \in thread'.failed : k \in thread.failed \/ Carries(thread, k),
           thread'.hasMore = thread.hasMore \/ Shown = {},
           Shown # {} => (Recovering <=> Recovering'),
           \A s : Answering(s) => Answering(s)'
    PROVE  Facts'
<1>1. Stored' = Stored /\ \A s : (Above(s)' <=> Above(s)) /\ (Beyond(s)' <=> Beyond(s))
  BY DEF Stored, Above, Beyond
<1>2. Explained'
  BY <1>1 DEF Facts, Explained, Created, Beyond
<1>3. Consecutive'
  BY <1>1 DEF Facts, Consecutive, Created
<1>4. ReadShown' /\ KeysOnce'
  <2>1. CASE readTo' = readTo
    BY <1>1, <2>1 DEF Facts, ReadShown, KeysOnce
  <2>2. CASE readTo' \in Shown
    <3>1. readTo' <= Len(log) /\ \A s \in Stored : Beyond(s) => ~ (s <= readTo')
      BY <2>2, Basics DEF Beyond
    <3> QED
      BY <1>1, <3>1 DEF Facts, ReadShown, KeysOnce
  <2> QED
    BY <2>1, <2>2
<1>5. DraftsAbove'
  BY <1>1 DEF Facts, DraftsAbove
<1>6. FailedCarried'
  BY <1>1 DEF Facts, FailedCarried, Carries, Shown
<1>7. GoneExplained'
  BY <1>1 DEF Facts, GoneExplained, Created, Deleted
<1>8. OnePageBehind'
  BY <1>1 DEF Facts, OnePageBehind
<1>9. HistoryReachable'
  BY <1>1 DEF Facts, HistoryReachable
<1> QED
  BY <1>2, <1>3, <1>4, <1>5, <1>6, <1>7, <1>8, <1>9 DEF Facts

\* A step that adds rows, takes drafts whose messages are now shown, and handles
\* events.
LEMMA Grow ==
    ASSUME TypeOK, IInv, Facts, TypeOK', IInv',
           log' = log, readTo' = readTo, news' \subseteq news, link' = link,
           Shown \subseteq Shown',
           Shown = {} /\ Shown' # {} => Shown' = Stored,
           thread'.drafts \subseteq thread.drafts,
           \A k \in thread.drafts \ thread'.drafts : \E s \in Shown' : log[s].key = k,
           thread'.failed \subseteq thread.failed,
           thread'.hasMore = thread.hasMore \/ HistoryReachable',
           \A s : Created(s) \in news \ news' => s \in Shown',
           \A n \in Shown' \ Shown : \A s \in Stored :
               n < s /\ ~ Above(s) =>
                  s \in Shown' \/ Created(s) \in news \/ log[s].key \in thread.drafts,
           \A s \in Stored : Beyond(s) /\ Recovering => s \in Shown' \/ (Beyond(s)' /\ Recovering'),
           Recovering' => Recovering,
           GoneExplained'
    PROVE  Facts'
<1>0. Stored' = Stored /\ Shown' \subseteq Stored
  BY DEF IInv, NothingInvented, Honest, Shown, Stored
<1>00. /\ Shown \subseteq Nat /\ Shown' \subseteq Nat
       /\ Stored \subseteq Nat /\ Stored = 1..Len(log)
       /\ Len(log) \in Nat /\ thread.drafts \subseteq Keys /\ Theirs \notin Keys
       /\ PageSize \in Nat
  BY <1>0, Basics
<1>1. ASSUME NEW s \in Stored, log[s].key \in thread.drafts
      PROVE  s \in Shown' \/ log[s].key \in thread'.drafts
  <2>1. CASE log[s].key \notin thread'.drafts
    <3>1. PICK n \in Shown' : log[n].key = log[s].key
      BY <1>1, <2>1
    <3>2. n \in Stored /\ log[s].key # Theirs
      BY <1>0, <1>00, <1>1
    <3>3. n = s
      BY <3>1, <3>2 DEF Facts, KeysOnce
    <3> QED
      BY <3>3
  <2> QED
    BY <2>1
<1>2. Explained'
  <2> SUFFICES ASSUME NEW s \in Stored, Above(s)', s \notin Shown', Created(s) \notin news',
                      log[s].key \notin thread'.drafts
               PROVE  Beyond(s)' /\ Recovering'
    BY <1>0 DEF Explained, Created
  <2>1. Created(s) \notin news /\ log[s].key \notin thread.drafts /\ s \notin Shown
    BY <1>1
  <2>2. PICK n \in Shown' : n <= s
    BY DEF Above
  <2>3. Above(s)
    <3>1. CASE n \in Shown
      BY <2>2, <3>1 DEF Above
    <3>2. CASE n \notin Shown
      <4>1. n < s
        BY <1>00, <2>2
      <4> QED
        BY <2>1, <3>2, <4>1
    <3> QED
      BY <3>1, <3>2
  <2>4. Beyond(s) /\ Recovering
    BY <2>1, <2>3 DEF Facts, Explained
  <2> QED
    BY <2>4
<1>3. Consecutive'
  <2> SUFFICES ASSUME link = "up", NEW s \in Stored, NEW n \in Stored, Created(s) \in news', s < n
               PROVE  Created(n) \in news' \/ n \in Shown' \/ log[n].key \in thread'.drafts
    BY <1>0 DEF Consecutive, Created
  <2>1. Created(n) \in news \/ n \in Shown \/ log[n].key \in thread.drafts
    BY DEF Facts, Consecutive
  <2> QED
    BY <1>1, <2>1
<1>4. ReadShown'
  <2>1. \A s \in Stored : Beyond(s)' => Beyond(s)
    BY <1>0, <1>00 DEF Beyond
  <2> QED
    BY <1>0, <2>1 DEF Facts, ReadShown
<1>5. DraftsAbove'
  <2> SUFFICES ASSUME NEW s \in Stored, Shown' # {}, log[s].key \in thread'.drafts PROVE Above(s)'
    BY <1>0 DEF DraftsAbove
  <2>1. CASE Shown = {}
    BY <1>00, <2>1 DEF Above
  <2>2. CASE Shown # {}
    <3>1. Above(s)
      BY <2>2 DEF Facts, DraftsAbove
    <3> QED
      BY <3>1 DEF Above
  <2> QED
    BY <2>1, <2>2
<1>6. FailedCarried'
  <2> SUFFICES ASSUME NEW k \in thread'.failed PROVE Carries(thread, k)'
    BY DEF FailedCarried
  <2>1. Carries(thread, k)
    BY DEF Facts, FailedCarried
  <2>2. k \in thread'.drafts \/ \E s \in Shown' : s \in Stored /\ log[s].key = k
    BY <1>0, <2>1 DEF Carries, Shown
  <2> QED
    BY <1>0, <2>2 DEF Carries, Shown
<1>7. KeysOnce'
  BY <1>0 DEF Facts, KeysOnce
<1>8. OnePageBehind'
  <2> SUFFICES ASSUME Recovering', Shown' # {} PROVE \E n \in Shown' : Len(log) <= n + PageSize
    BY DEF OnePageBehind
  <2>1. CASE Shown = {}
    <3>1. Len(log) \in Shown' /\ Len(log) <= Len(log) + PageSize
      BY <1>00, <2>1
    <3> QED
      BY <3>1
  <2>2. CASE Shown # {}
    BY <2>2 DEF Facts, OnePageBehind
  <2> QED
    BY <2>1, <2>2
<1>9. HistoryReachable'
  <2>1. ASSUME thread'.hasMore = thread.hasMore, Shown' # {}, 1 \notin Shown' PROVE thread'.hasMore
    <3>1. CASE Shown = {}
      <4>1. 1 \in Stored
        BY <1>00, <2>1, <3>1
      <4> QED
        BY <2>1, <3>1, <4>1
    <3>2. CASE Shown # {}
      BY <2>1, <3>2 DEF Facts, HistoryReachable
    <3> QED
      BY <3>1, <3>2
  <2> QED
    BY <2>1 DEF HistoryReachable
<1> QED
  BY <1>2, <1>3, <1>4, <1>5, <1>6, <1>7, <1>8, <1>9 DEF Facts

\* It is enough to look at the call whose turn it was.
LEMMA FreshOnly ==
    ASSUME Facts', Single', NEW j \in Jobs, \A i \in Jobs : i # j => job'[i] = Idle,
           Fresh(job[j])'
    PROVE  CarefulInv'
<1>1. ASSUME NEW i \in Jobs, i # j PROVE Fresh(job[i])'
  <2>1. job'[i].step = "idle"
    BY <1>1 DEF Idle
  <2> QED
    BY <2>1 DEF Fresh
<1> QED
  BY <1>1 DEF CarefulInv

\* A thread that has been marked as loading, or no more.
LEMMA LoadingOf ==
    ASSUME NEW t \in Thread, NEW v
    PROVE  /\ [t EXCEPT !.loading = v].rows = t.rows
           /\ [t EXCEPT !.loading = v].drafts = t.drafts
           /\ [t EXCEPT !.loading = v].failed = t.failed
           /\ [t EXCEPT !.loading = v].hasMore = t.hasMore
           /\ t.loading = FALSE => t = [[t EXCEPT !.loading = v] EXCEPT !.loading = FALSE]
  BY DEF Thread

\* A thread with other drafts.
LEMMA DraftsOf ==
    ASSUME NEW t \in Thread, NEW v
    PROVE  /\ [t EXCEPT !.drafts = v].rows = t.rows
           /\ [t EXCEPT !.drafts = v].drafts = v
           /\ [t EXCEPT !.drafts = v].failed = t.failed
           /\ [t EXCEPT !.drafts = v].hasMore = t.hasMore
  BY DEF Thread

\* A thread with other marks.
LEMMA FailedOf ==
    ASSUME NEW t \in Thread, NEW v
    PROVE  /\ [t EXCEPT !.failed = v].rows = t.rows
           /\ [t EXCEPT !.failed = v].drafts = t.drafts
           /\ [t EXCEPT !.failed = v].failed = v
           /\ [t EXCEPT !.failed = v].hasMore = t.hasMore
  BY DEF Thread

\* And those of a thread to which a row is applied.
LEMMA AppliedFields ==
    ASSUME NEW t \in Thread, NEW s, NEW g, NEW k
    PROVE  /\ Applied(t, s, g, k).rows = Put(t.rows, s, g)
           /\ Applied(t, s, g, k).failed \subseteq t.failed
           /\ Applied(t, s, g, k).drafts \subseteq t.drafts
           /\ \A i \in t.drafts \ Applied(t, s, g, k).drafts : i = k /\ s \notin DOMAIN t.rows
           /\ Applied(t, s, g, k).hasMore = t.hasMore
<1> DEFINE v == Put(t.rows, s, g)
           w == IF s \in DOMAIN t.rows THEN t.drafts ELSE t.drafts \ {k}
           x == t.failed \ {k}
<1>1. Applied(t, s, g, k) = [t EXCEPT !.rows = v, !.failed = x, !.drafts = w]
  BY DEF Applied
<1> HIDE DEF v, w, x
<1>2. /\ Applied(t, s, g, k).rows = v /\ Applied(t, s, g, k).failed = x
      /\ Applied(t, s, g, k).drafts = w /\ Applied(t, s, g, k).hasMore = t.hasMore
  BY <1>1 DEF Thread
<1> QED
  BY <1>2 DEF v, w, x

\* A user's action, with no call in flight.
LEMMA CallCareful ==
    ASSUME TypeOK, IInv, CarefulInv, TypeOK', IInv', OneCall, Careful, NEW j \in Jobs, Call(j)
    PROVE  CarefulInv'
<1>0. /\ thread \in Thread /\ Facts /\ Single /\ Idle.step = "idle"
  BY DEF TypeOK, CarefulInv, Idle
<1>1. CASE OpenConversation(j)
  <2>1. /\ job[j] = Idle /\ Shown = {} /\ thread.drafts = {}
        /\ log' = log /\ readTo' = readTo /\ link' = link /\ news' = news
        /\ thread' = [EmptyThread EXCEPT !.loading = TRUE]
        /\ job' = [job EXCEPT ![j] = [step |-> "open"]]
    BY <1>1 DEF OpenConversation, Become, IsEmpty, Shown
  <2>2. Shown' = {} /\ thread'.drafts = {} /\ thread'.failed = {}
    BY <2>1 DEF EmptyThread, NoRows, Shown
  <2>3. [step |-> "open"] # Idle /\ [step |-> "open"].step = "open"
    BY DEF Idle
  <2>4. Single' /\ job'[j].step = "open" /\ \A i \in Jobs : i # j => job'[i] = Idle
    BY <1>0, <2>1, <2>3, Turn
  <2>5. \A s : ~ Answering(s)
    BY <1>0, <2>1, <2>3, Turn
  <2>6. Facts'
    BY <1>0, <2>1, <2>2, <2>5, Quiet
  <2>7. Fresh(job[j])'
    BY <2>2, <2>4 DEF Fresh
  <2> QED
    BY <2>4, <2>6, <2>7, FreshOnly
<1>2. CASE LoadOlder(j)
  <2> DEFINE next == [step |-> "older", kept |-> thread]
  <2>1. /\ job[j] = Idle /\ thread.loading = FALSE
        /\ log' = log /\ readTo' = readTo /\ link' = link /\ news' = news
        /\ thread' = [thread EXCEPT !.loading = TRUE]
        /\ job' = [job EXCEPT ![j] = next]
    BY <1>0, <1>2 DEF LoadOlder, Become, Thread
  <2>2. /\ Shown' = Shown /\ thread'.rows = thread.rows /\ thread'.drafts = thread.drafts
        /\ thread'.failed = thread.failed /\ thread'.hasMore = thread.hasMore
        /\ thread = [thread' EXCEPT !.loading = FALSE]
    BY <1>0, <2>1, LoadingOf DEF Shown
  <2>3. next # Idle /\ next.step = "older" /\ next.kept = thread
    BY DEF Idle
  <2> HIDE DEF next
  <2>4. Single' /\ job'[j] = next /\ \A i \in Jobs : i # j => job'[i] = Idle
    BY <1>0, <2>1, <2>3, Turn
  <2>5. (\A s : ~ Answering(s)) /\ (Recovering <=> Recovering')
    BY <1>0, <2>1, <2>3, Turn
  <2>6. Facts'
    BY <1>0, <2>1, <2>2, <2>5, Quiet
  <2>7. Fresh(job[j])'
    BY <2>2, <2>3, <2>4 DEF Fresh
  <2> QED
    BY <2>4, <2>6, <2>7, FreshOnly
<1>3. CASE Compose(j)
  <2>1. PICK k \in Keys :
          /\ \A s \in Stored : log[s].key # k
          /\ Become(j, [thread EXCEPT !.drafts = @ \cup {k}], [step |-> "enqueue", key |-> k])
    BY <1>3 DEF Compose
  <2> DEFINE next == [step |-> "enqueue", key |-> k]
  <2>2. /\ job[j] = Idle
        /\ log' = log /\ readTo' = readTo /\ link' = link /\ news' = news
        /\ thread' = [thread EXCEPT !.drafts = thread.drafts \cup {k}]
        /\ job' = [job EXCEPT ![j] = next]
    BY <1>3, <2>1 DEF Compose, Become
  <2>3. /\ Shown' = Shown /\ thread'.rows = thread.rows
        /\ thread'.drafts = thread.drafts \cup {k}
        /\ thread'.failed = thread.failed /\ thread'.hasMore = thread.hasMore
    <3>1. /\ thread'.rows = thread.rows /\ thread'.drafts = thread.drafts \cup {k}
          /\ thread'.failed = thread.failed /\ thread'.hasMore = thread.hasMore
      BY <1>0, <2>2, DraftsOf
    <3> QED
      BY <3>1 DEF Shown
  <2>4. next # Idle /\ next.step = "enqueue"
    BY DEF Idle
  <2> HIDE DEF next
  <2>5. Single' /\ job'[j] = next /\ \A i \in Jobs : i # j => job'[i] = Idle
    BY <1>0, <2>2, <2>4, Turn
  <2>6. (\A s : ~ Answering(s)) /\ (Recovering <=> Recovering')
    BY <1>0, <2>2, <2>4, Turn
  <2>7. Facts'
    BY <1>0, <2>1, <2>2, <2>3, <2>6, Quiet
  <2>8. link = "up" /\ news = {}
    BY <2>4, <2>5 DEF Careful
  <2>9. Fresh(job[j])'
    BY <2>2, <2>4, <2>5, <2>8 DEF Fresh
  <2> QED
    BY <2>5, <2>7, <2>9, FreshOnly
<1>4. CASE Retry(j)
  <2>1. PICK k \in Keys : /\ k \in thread.failed
                          /\ Become(j, [thread EXCEPT !.failed = @ \ {k}],
                                    [step |-> "post", key |-> k])
    BY <1>4 DEF Retry
  <2> DEFINE next == [step |-> "post", key |-> k]
  <2>2. /\ job[j] = Idle
        /\ log' = log /\ readTo' = readTo /\ link' = link /\ news' = news
        /\ thread' = [thread EXCEPT !.failed = thread.failed \ {k}]
        /\ job' = [job EXCEPT ![j] = next]
    BY <1>4, <2>1 DEF Retry, Become
  <2>3. /\ Shown' = Shown /\ thread'.rows = thread.rows /\ thread'.drafts = thread.drafts
        /\ thread'.failed \subseteq thread.failed /\ thread'.hasMore = thread.hasMore
    <3> DEFINE rest == thread.failed \ {k}
    <3>1. thread' = [thread EXCEPT !.failed = rest]
      BY <2>2
    <3> HIDE DEF rest
    <3>2. thread'.failed = rest /\ thread'.rows = thread.rows
          /\ thread'.drafts = thread.drafts /\ thread'.hasMore = thread.hasMore
      BY <1>0, <3>1 DEF Thread
    <3> QED
      BY <3>2 DEF Shown, rest
  <2>4. next # Idle /\ next.step = "post" /\ next.key = k
    BY DEF Idle
  <2> HIDE DEF next
  <2>5. Single' /\ job'[j] = next /\ \A i \in Jobs : i # j => job'[i] = Idle
    BY <1>0, <2>2, <2>4, Turn
  <2>6. (\A s : ~ Answering(s)) /\ (Recovering <=> Recovering')
    BY <1>0, <2>2, <2>4, Turn
  <2>7. Facts'
    BY <1>0, <2>2, <2>3, <2>6, Quiet
  <2>8. link = "up" /\ news = {}
    BY <2>4, <2>5 DEF Careful
  <2>9. Carries(thread, k)'
    BY <1>0, <2>1, <2>2, <2>3 DEF Facts, FailedCarried, Carries, Stored
  <2>10. Fresh(job[j])'
    BY <2>2, <2>4, <2>5, <2>8, <2>9 DEF Fresh
  <2> QED
    BY <2>5, <2>7, <2>10, FreshOnly
<1>5. ASSUME NEW next, next # Idle, job[j] = Idle, job' = [job EXCEPT ![j] = next],
             log' = log, readTo' = readTo, news' = news, thread' = thread,
             link' = link \/ news = {}, next.step # "changed",
             link = "down" <=> (link' = "down" \/ next.step \in {"list", "after", "afterGot"}),
             Fresh(next)'
      PROVE  CarefulInv'
  <2>1. Single' /\ job'[j] = next /\ \A i \in Jobs : i # j => job'[i] = Idle
    BY <1>0, <1>5, Turn
  <2>2. (\A s : ~ Answering(s)) /\ (Recovering <=> Recovering')
    BY <1>0, <1>5, Turn
  <2>3. Facts'
    BY <1>0, <1>5, <2>2, Quiet DEF Shown
  <2> QED
    BY <1>5, <2>1, <2>3, FreshOnly
<1>6. CASE Change(j)
  <2>1. PICK s \in Shown, step \in {"delete", "react"} :
          Offers(s, step) /\ Answer(j, [step |-> step, seq |-> s])
    BY <1>6 DEF Change
  <2> DEFINE next == [step |-> step, seq |-> s]
  <2>2. /\ job[j] = Idle
        /\ log' = log /\ readTo' = readTo /\ link' = link /\ news' = news
        /\ thread' = thread /\ job' = [job EXCEPT ![j] = next]
    BY <1>6, <2>1 DEF Change, Answer, Proceed
  <2>3. next # Idle /\ next.step = step /\ next.seq = s
    BY DEF Idle
  <2> HIDE DEF next
  <2>4. Fresh(next)'
    BY <2>1, <2>2, <2>3 DEF Fresh, Offers, Shown
  <2> QED
    BY <1>5, <2>2, <2>3, <2>4
<1>7. CASE MarkRead(j)
  <2>0. PICK newest : newest = Newest(thread)
    OBVIOUS
  <2> DEFINE next == [step |-> "mark", seq |-> newest]
  <2>1. /\ job[j] = Idle
        /\ log' = log /\ readTo' = readTo /\ link' = link /\ news' = news
        /\ thread' = thread /\ job' = [job EXCEPT ![j] = next]
    BY <1>7, <2>0 DEF MarkRead, Answer, Proceed
  <2>2. newest \in Shown
    <3>1. Shown # {}
      BY <1>7, Basics DEF MarkRead, Newest, Shown
    <3>2. \E s \in Shown : \A n \in Shown : n <= s
      BY <3>1, Basics, Largest
    <3> QED
      BY <2>0, <3>1, <3>2 DEF Newest, Shown
  <2>3. next # Idle /\ next.step = "mark" /\ next.seq \in Shown
    BY <2>2 DEF Idle
  <2> HIDE DEF next
  <2>4. Fresh(next)'
    BY <2>1, <2>3 DEF Fresh, Shown
  <2> QED
    BY <1>5, <2>1, <2>3, <2>4
<1>8. CASE Connect(j)
  <2> DEFINE next == [step |-> "list"]
  <2>1. /\ job[j] = Idle /\ link = "down" /\ link' = "up"
        /\ log' = log /\ readTo' = readTo /\ news' = news
        /\ thread' = thread /\ job' = [job EXCEPT ![j] = next]
    BY <1>8 DEF Connect
  <2>2. news = {}
    BY <2>1 DEF Careful
  <2>3. next # Idle /\ next.step = "list"
    BY DEF Idle
  <2> HIDE DEF next
  <2>4. Fresh(next)'
    BY <2>1, <2>2, <2>3 DEF Fresh
  <2> QED
    BY <1>5, <2>1, <2>2, <2>3, <2>4
<1> QED
  BY <1>1, <1>2, <1>3, <1>4, <1>6, <1>7, <1>8 DEF Call

\* The call in flight goes on and nothing else happens.
LEMMA AnswerCareful ==
    ASSUME TypeOK, IInv, CarefulInv, OneCall, NEW j \in Jobs, NEW next, Answer(j, next),
           job[j] # Idle, job[j].step # "changed",
           job[j].step \in {"list", "after", "afterGot"} =>
              Shown = {} \/ next.step \in {"list", "after", "afterGot"},
           next.step \in {"list", "after", "afterGot"} =>
              job[j].step \in {"list", "after", "afterGot"},
           Fresh(next)'
    PROVE  CarefulInv'
<1>1. /\ log' = log /\ readTo' = readTo /\ link' = link /\ news' = news
      /\ thread' = thread /\ job' = [job EXCEPT ![j] = next]
  BY DEF Answer, Proceed
<1>2. Facts /\ Single
  BY DEF CarefulInv
<1>3. /\ Single' /\ job'[j] = next /\ \A i \in Jobs : i # j => job'[i] = Idle
      /\ \A s : ~ Answering(s)
      /\ Recovering <=> link = "down" \/ job[j].step \in {"list", "after", "afterGot"}
      /\ Recovering' <=> link' = "down" \/ next.step \in {"list", "after", "afterGot"}
  BY <1>1, <1>2, Turn
<1>4. Facts'
  BY <1>1, <1>2, <1>3, Quiet DEF Shown
<1> QED
  BY <1>3, <1>4, FreshOnly

\* With no call in flight there are no facts about it.
LEMMA IdleStaysFresh == Fresh(Idle)'
  BY DEF Fresh, Idle

\* What the server reads for a call is what the call then knows.
LEMMA ReadCareful ==
    ASSUME TypeOK, IInv, CarefulInv, OneCall, NEW j \in Jobs,
           ServeOpen(j) \/ ServeOlder(j) \/ ServeAfter(j)
    PROVE  CarefulInv'
<1>0. Fresh(job[j]) /\ Idle.step = "idle"
  BY DEF CarefulInv, Idle
<1>1. CASE ServeOpen(j)
  <2>1. PICK page, more : page = Snapshot(Before(MaxSeq + 1)) /\ more = MoreBefore(MaxSeq + 1)
    OBVIOUS
  <2> DEFINE next == [step |-> "opened", page |-> page, more |-> more]
  <2>2. Answer(j, next) /\ job[j].step = "open" /\ thread' = thread /\ log' = log
    BY <1>1, <2>1 DEF ServeOpen, Answer, Proceed
  <2>3. next.step = "opened" /\ next.page = page /\ next.more = more
    OBVIOUS
  <2> HIDE DEF next
  <2>4. Fresh(next)'
    <3>1. page = Snapshot(Before(MaxSeq + 1))' /\ more = MoreBefore(MaxSeq + 1)'
      BY <2>1, <2>2 DEF Snapshot, Before, MoreBefore, Stored
    <3>2. Shown' = {} /\ thread'.drafts = {}
      BY <1>0, <2>2 DEF Fresh, Shown
    <3> QED
      BY <2>3, <3>1, <3>2 DEF Fresh
  <2> QED
    BY <1>0, <2>2, <2>3, <2>4, AnswerCareful
<1>2. CASE ServeOlder(j)
  <2>1. PICK kept, page, more :
          /\ kept = job[j].kept
          /\ page = Snapshot(Before(Oldest(kept))) /\ more = MoreBefore(Oldest(kept))
    OBVIOUS
  <2> DEFINE next == [step |-> "olderGot", kept |-> kept, page |-> page, more |-> more]
  <2>2. Answer(j, next) /\ job[j].step = "older" /\ thread' = thread /\ log' = log
    BY <1>2, <2>1 DEF ServeOlder, Answer, Proceed
  <2>3. next.step = "olderGot" /\ next.kept = kept /\ next.page = page /\ next.more = more
    OBVIOUS
  <2> HIDE DEF next
  <2>4. Fresh(next)'
    <3>1. kept = [thread EXCEPT !.loading = FALSE]
      BY <1>0, <2>1, <2>2 DEF Fresh
    <3>2. kept.rows = thread.rows
      BY <3>1, LoadingOf DEF TypeOK
    <3>3. Oldest(kept) = Oldest(thread)
      BY <3>2 DEF Oldest
    <3>4. page = Snapshot(Before(Oldest(thread))) /\ more = MoreBefore(Oldest(thread))
      BY <2>1, <3>3
    <3>5. page = Snapshot(Before(Oldest(thread)))' /\ more = MoreBefore(Oldest(thread))'
      BY <2>2, <3>4 DEF Snapshot, Before, MoreBefore, Stored, Oldest
    <3> QED
      BY <2>2, <2>3, <3>1, <3>5 DEF Fresh
  <2> QED
    BY <1>0, <2>2, <2>3, <2>4, AnswerCareful
<1>3. CASE ServeAfter(j)
  <2>1. PICK page : page = Snapshot(After(job[j].newest))
    OBVIOUS
  <2> DEFINE next == [step |-> "afterGot", page |-> page]
  <2>2. /\ Answer(j, next) /\ job[j].step = "after" /\ thread' = thread /\ log' = log
        /\ link' = link /\ news' = news
    BY <1>3, <2>1 DEF ServeAfter, Answer, Proceed
  <2>3. next.step = "afterGot" /\ next.page = page
    OBVIOUS
  <2> HIDE DEF next
  <2>4. Fresh(next)'
    <3>1. job[j].newest = Newest(thread) /\ link = "up" /\ news = {}
      BY <1>0, <2>2 DEF Fresh
    <3>2. page = Snapshot(After(Newest(thread)))
      BY <2>1, <3>1
    <3>3. page = Snapshot(After(Newest(thread)))'
      BY <2>2, <3>2 DEF Snapshot, After, Stored, Newest
    <3> QED
      BY <2>2, <2>3, <3>1, <3>3 DEF Fresh
  <2> QED
    BY <1>0, <2>2, <2>3, <2>4, AnswerCareful
<1> QED
  BY <1>1, <1>2, <1>3

\* The server stores a message of the user, or has it already.
LEMMA PostCareful ==
    ASSUME TypeOK, IInv, CarefulInv, TypeOK', OneCall, NEW j \in Jobs, ServePost(j)
    PROVE  CarefulInv'
<1>0. /\ Fresh(job[j]) /\ Facts /\ Single /\ Idle.step = "idle" /\ job[j].step = "post"
  BY DEF CarefulInv, Idle, ServePost
<1>1. PICK k \in Keys : k = job[j].key
  BY <1>0, JobFields DEF TypeOK
<1>2. link = "up" /\ news = {} /\ Carries(thread, k) /\ k # Theirs
  BY <1>0, <1>1, StoreAssumption DEF Fresh
<1>3. CASE \E s \in Stored : log[s].key = k
  <2>1. PICK s : s = SeqOf(k)
    OBVIOUS
  <2>2. s \in Stored /\ log[s].key = k
    BY <1>3, <2>1 DEF SeqOf
  <2>3. PICK gone : gone = log[s].gone
    OBVIOUS
  <2> DEFINE next == [step |-> "posted", key |-> k, seq |-> s, gone |-> gone]
  <2>4. Answer(j, next)
    BY <1>1, <1>3, <2>1, <2>3 DEF ServePost
  <2>5. log' = log /\ thread' = thread /\ link' = link /\ news' = news
    BY <2>4 DEF Answer, Proceed
  <2>6. next.step = "posted" /\ next.key = k /\ next.seq = s /\ next.gone = gone
    OBVIOUS
  <2> HIDE DEF next
  <2>7. Shown # {} => Above(s)
    <3>1. CASE k \in thread.drafts
      BY <1>0, <2>2, <3>1 DEF Facts, DraftsAbove
    <3>2. CASE k \notin thread.drafts
      <4>1. PICK n \in Shown : n \in Stored /\ log[n].key = k
        BY <1>2, <3>2 DEF Carries, Shown
      <4>2. n = s
        BY <1>0, <1>2, <2>2, <4>1 DEF Facts, KeysOnce
      <4> QED
        BY <4>1, <4>2, Basics DEF Above
    <3> QED
      BY <3>1, <3>2
  <2>8. Fresh(next)'
    BY <1>2, <2>2, <2>3, <2>5, <2>6, <2>7 DEF Fresh, Above, Shown
  <2> QED
    BY <1>0, <2>4, <2>6, <2>8, AnswerCareful
<1>4. CASE \A s \in Stored : log[s].key # k
  <2> DEFINE L == Len(log)
             next == [step |-> "posted", key |-> k, seq |-> Len(log) + 1, gone |-> FALSE]
  <2>1. /\ log' = Append(log, [key |-> k, gone |-> FALSE]) /\ readTo' = L + 1
        /\ job' = [job EXCEPT ![j] = next] /\ link' = link /\ thread' = thread /\ news' = news
    BY <1>1, <1>4 DEF ServePost, Proceed
  <2>2. /\ next.step = "posted" /\ next.key = k /\ next.seq = L + 1 /\ next.gone = FALSE
    OBVIOUS
  <2> HIDE DEF next
  <2>3. /\ Single' /\ job'[j] = next /\ \A i \in Jobs : i # j => job'[i] = Idle
        /\ ~ Recovering /\ ~ Recovering' /\ \A s : ~ Answering(s)
    BY <1>0, <1>2, <2>1, <2>2, Turn
  <2>4. /\ L \in Nat /\ Stored = 1..L /\ Stored' = 1..(L + 1) /\ Len(log') = L + 1
        /\ \A s \in Stored : log'[s] = log[s]
        /\ log'[L + 1].key = k /\ log'[L + 1].gone = FALSE
    BY <2>1 DEF TypeOK, Stored
  <2>5. /\ Shown' = Shown /\ Shown \subseteq 1..L /\ thread.drafts \subseteq Keys
        /\ \A s : (Above(s)' <=> Above(s)) /\ (Beyond(s)' <=> Beyond(s))
    BY <2>1, Basics DEF Shown, Above, Beyond
  <2>6. k \in thread.drafts
    BY <1>2, <1>4 DEF Carries
  <2>7. Shown # {} => Above(L + 1)
    <3>1. \A n \in Shown : n <= L + 1
      BY <2>4, <2>5
    <3> QED
      BY <3>1 DEF Above
  <2>8. \A s \in Stored : Above(s) => s \in Shown \/ log[s].key \in thread.drafts
    BY <1>0, <1>2, <2>3 DEF Facts, Explained
  <2>9. Explained'
    BY <2>1, <2>4, <2>5, <2>6, <2>8 DEF Explained
  <2>10. Consecutive'
    BY <1>2, <2>1 DEF Consecutive
  <2>11. ReadShown'
    <3> SUFFICES ASSUME NEW s \in Stored', Beyond(s) PROVE log'[s].key # Theirs
      BY <2>1, <2>4, <2>5 DEF ReadShown
    <3>1. CASE s = L + 1
      BY <1>2, <2>4, <3>1
    <3>2. CASE s # L + 1
      <4>1. s \in Stored /\ s \notin Shown /\ Above(s)
        BY <2>4, <2>5, <3>2 DEF Beyond, Above
      <4>2. log[s].key \in Keys
        BY <2>5, <2>8, <4>1
      <4> QED
        BY <2>4, <4>1, <4>2, StoreAssumption
    <3> QED
      BY <3>1, <3>2
  <2>12. DraftsAbove'
    BY <1>0, <2>1, <2>4, <2>5, <2>7 DEF Facts, DraftsAbove
  <2>13. FailedCarried'
    BY <1>0, <2>1, <2>4 DEF Facts, FailedCarried, Carries
  <2>14. KeysOnce'
    BY <1>0, <1>4, <2>4 DEF Facts, KeysOnce
  <2>15. GoneExplained'
    BY <1>0, <1>2, <2>1, <2>3, <2>4, <2>5 DEF Facts, GoneExplained
  <2>16. OnePageBehind' /\ HistoryReachable'
    BY <1>0, <2>1, <2>3, <2>5 DEF Facts, OnePageBehind, HistoryReachable
  <2>17. Facts'
    BY <2>9, <2>10, <2>11, <2>12, <2>13, <2>14, <2>15, <2>16 DEF Facts
  <2>18. Fresh(job[j])'
    BY <1>2, <2>1, <2>2, <2>3, <2>4, <2>5, <2>7 DEF Fresh
  <2> QED
    BY <2>3, <2>17, <2>18, FreshOnly
<1> QED
  BY <1>3, <1>4

\* The server deletes a message or does not, and answers with it.
LEMMA ChangeCareful ==
    ASSUME TypeOK, IInv, CarefulInv, TypeOK', OneCall, NEW j \in Jobs, ServeChange(j)
    PROVE  CarefulInv'
<1>0. /\ Fresh(job[j]) /\ Facts /\ Single /\ Idle.step = "idle"
      /\ job[j].step \in {"delete", "react"}
  BY DEF CarefulInv, Idle, ServeChange
<1>1. PICK s \in Shown : s = job[j].seq
  BY <1>0 DEF Fresh
<1>2. s \in Stored /\ log[s].gone \in BOOLEAN /\ (job[j].step = "delete" => log[s].key # Theirs)
  BY <1>0, <1>1, Basics DEF Fresh
<1>3. PICK gone \in BOOLEAN : gone = (log[s].gone \/ job[j].step = "delete")
  BY <1>2
<1> DEFINE next == [step |-> "changed", seq |-> s, gone |-> gone]
<1>4. /\ log' = [log EXCEPT ![s].gone = gone] /\ readTo' = readTo
      /\ job' = [job EXCEPT ![j] = next] /\ link' = link /\ thread' = thread /\ news' = news
  BY <1>1, <1>3 DEF ServeChange, Proceed
<1>5. next.step = "changed" /\ next.seq = s /\ next.gone = gone
  OBVIOUS
<1> HIDE DEF next
<1>6. /\ Single' /\ job'[j] = next /\ \A i \in Jobs : i # j => job'[i] = Idle
      /\ (Recovering <=> Recovering') /\ Answering(s)' /\ \A n : ~ Answering(n)
  BY <1>0, <1>4, <1>5, Turn
<1>7. /\ Stored' = Stored /\ Len(log') = Len(log)
      /\ \A n \in Stored : n # s => log'[n] = log[n]
      /\ log'[s].key = log[s].key /\ log'[s].gone = gone
  <2>1. log \in Seq(Message) /\ log[s] \in Message
    BY <1>2 DEF TypeOK, Stored
  <2>2. log'[s] = [log[s] EXCEPT !.gone = gone]
    BY <1>2, <1>4, <2>1 DEF Stored
  <2> QED
    BY <1>2, <1>4, <2>1, <2>2 DEF Stored, Message
<1>8. \A n \in Stored : log'[n].key = log[n].key
  BY <1>7
<1>9. /\ Shown' = Shown /\ Shown \subseteq Stored
      /\ \A n : (Above(n)' <=> Above(n)) /\ (Beyond(n)' <=> Beyond(n))
  BY <1>4, Basics DEF Shown, Above, Beyond
<1>10. Explained' /\ Consecutive' /\ KeysOnce' /\ DraftsAbove'
  BY <1>0, <1>4, <1>6, <1>7, <1>8, <1>9
  DEF Facts, Explained, Consecutive, KeysOnce, DraftsAbove, Created
<1>11. ReadShown' /\ OnePageBehind' /\ HistoryReachable'
  BY <1>0, <1>4, <1>6, <1>7, <1>8, <1>9 DEF Facts, ReadShown, OnePageBehind, HistoryReachable
<1>12. FailedCarried'
  BY <1>0, <1>4, <1>7, <1>8 DEF Facts, FailedCarried, Carries
<1>13. GoneExplained'
  <2>1. ASSUME NEW n \in Shown, log'[n].gone, ~ thread.rows[n]
        PROVE  Deleted(n) \in news \/ Answering(n)'
    <3>1. CASE n = s
      BY <1>6, <3>1
    <3>2. CASE n # s
      BY <1>0, <1>6, <1>7, <1>9, <2>1, <3>2 DEF Facts, GoneExplained
    <3> QED
      BY <3>1, <3>2
  <2>2. ASSUME NEW n \in Stored, Created(n) \in news
        PROVE  log'[n].key = Theirs /\ (log'[n].gone => Deleted(n) \in news)
    <3>1. log[n].key = Theirs /\ (log[n].gone => Deleted(n) \in news)
      BY <1>0, <2>2 DEF Facts, GoneExplained
    <3>2. log'[n].gone => log[n].gone
      BY <1>2, <1>3, <1>7, <3>1
    <3> QED
      BY <1>8, <3>1, <3>2
  <2> QED
    BY <1>4, <1>7, <1>9, <2>1, <2>2 DEF GoneExplained, Created, Deleted
<1>14. Facts'
  BY <1>10, <1>11, <1>12, <1>13 DEF Facts
<1>15. Fresh(job[j])'
  BY <1>5, <1>6, <1>7, <1>9 DEF Fresh
<1> QED
  BY <1>6, <1>14, <1>15, FreshOnly

\* The read position becomes that of a message that is shown.
LEMMA MarkCareful ==
    ASSUME TypeOK, IInv, CarefulInv, OneCall, NEW j \in Jobs, ServeMark(j)
    PROVE  CarefulInv'
<1>0. /\ Fresh(job[j]) /\ Facts /\ Single /\ Idle.step = "idle" /\ job[j].step = "mark"
  BY DEF CarefulInv, Idle, ServeMark
<1>1. /\ log' = log /\ job' = [job EXCEPT ![j] = Idle] /\ link' = link /\ thread' = thread
      /\ news' = news /\ (readTo' = readTo \/ readTo' \in Shown)
  BY <1>0 DEF ServeMark, Proceed, Fresh
<1>2. /\ Single' /\ job'[j] = Idle /\ \A i \in Jobs : i # j => job'[i] = Idle
      /\ (Recovering <=> Recovering') /\ \A s : ~ Answering(s)
  BY <1>0, <1>1, Turn
<1>3. Facts'
  BY <1>0, <1>1, <1>2, Quiet DEF Shown
<1>4. Fresh(job[j])'
  BY <1>2, IdleStaysFresh
<1> QED
  BY <1>2, <1>3, <1>4, FreshOnly

\* A step of the server on a call.
LEMMA ServeCareful ==
    ASSUME TypeOK, IInv, CarefulInv, TypeOK', OneCall, NEW j \in Jobs, Serve(j)
    PROVE  CarefulInv'
  BY ReadCareful, PostCareful, ChangeCareful, MarkCareful DEF Serve

\* The size of an interval that is empty at most by one.
LEMMA IntervalSize ==
    ASSUME NEW a \in Int, NEW b \in Int, a <= b + 1
    PROVE  Cardinality(a..b) = (b - a) + 1
<1>1. Cardinality(a..b) = IF a > b THEN 0 ELSE (b - a) + 1
  BY FS_Interval
<1> QED
  BY <1>1

\* The page before a position is the interval of that length that ends there.
LEMMA BeforeFacts ==
    ASSUME TypeOK, NEW b \in Nat, NEW e \in 0..Len(log), b = e + 1 \/ (e = Len(log) /\ e < b)
    PROVE  /\ \A s : s \in Before(b) <=> s \in 1..e /\ e < s + PageSize
           /\ MoreBefore(b) <=> e > PageSize
<1>1. Len(log) \in Nat /\ Stored = 1..Len(log) /\ PageSize \in Nat /\ e \in Nat
  BY StoreAssumption DEF TypeOK, Stored
<1>2. \A s \in Stored : s < b <=> s <= e
  BY <1>1
<1>3. {s \in Stored : s < b} = 1..e
  BY <1>1, <1>2
<1>4. Cardinality(1..e) = e
  BY <1>1, FS_Interval
<1>5. ASSUME NEW s \in 1..e
      PROVE  Cardinality({n \in Stored : s < n /\ n < b}) < PageSize <=> e < s + PageSize
  <2>1. {n \in Stored : s < n /\ n < b} = (s + 1)..e
    BY <1>1, <1>2
  <2>2. Cardinality((s + 1)..e) = (e - (s + 1)) + 1
    BY <1>1, IntervalSize
  <2>3. (e - (s + 1)) + 1 < PageSize <=> e < s + PageSize
    BY <1>1
  <2> QED
    BY <2>1, <2>2, <2>3
<1>6. \A s : s \in Before(b) <=> s \in 1..e /\ e < s + PageSize
  BY <1>1, <1>2, <1>5 DEF Before
<1>7. MoreBefore(b) <=> e > PageSize
  BY <1>3, <1>4 DEF MoreBefore
<1> QED
  BY <1>6, <1>7

\* The page after a position, with no more than that to come, is all that comes.
LEMMA AfterFacts ==
    ASSUME TypeOK, NEW a \in Nat, Len(log) <= a + PageSize
    PROVE  \A s \in Stored : a < s => s \in After(a)
<1>1. Len(log) \in Nat /\ Stored = 1..Len(log) /\ PageSize \in Nat
  BY StoreAssumption DEF TypeOK, Stored
<1> SUFFICES ASSUME NEW s \in Stored, a < s PROVE s \in After(a)
  OBVIOUS
<1>2. {n \in Stored : a < n /\ n < s} = (a + 1)..(s - 1)
  BY <1>1
<1>3. Cardinality((a + 1)..(s - 1)) = ((s - 1) - (a + 1)) + 1
  <2>1. a + 1 \in Int /\ s - 1 \in Int /\ a + 1 <= (s - 1) + 1
    BY <1>1
  <2> QED
    BY <2>1, IntervalSize
<1>4. ((s - 1) - (a + 1)) + 1 < PageSize
  BY <1>1
<1> QED
  BY <1>2, <1>3, <1>4 DEF After

\* The newest and the oldest message are shown, and the others between them.
LEMMA EndFacts ==
    ASSUME TypeOK, IInv, Shown # {}
    PROVE  /\ Newest(thread) \in Shown /\ \A s \in Shown : s <= Newest(thread)
           /\ Oldest(thread) \in Shown /\ \A s \in Shown : Oldest(thread) <= s
<1>1. Len(log) \in Nat /\ Shown \subseteq 1..Len(log) /\ Shown \subseteq Nat
  BY Basics
<1>2. \E s \in Shown : \A n \in Shown : n <= s
  BY <1>1, Largest
<1>3. \E s \in Shown : \A n \in Shown : s <= n
  BY <1>1, Smallest
<1> QED
  BY <1>2, <1>3 DEF Newest, Oldest, Shown

\* A response that is the last step of its call.
LEMMA LastCareful ==
    ASSUME Single', Facts', NEW j \in Jobs, job'[j] = Idle,
           \A i \in Jobs : i # j => job'[i] = Idle
    PROVE  CarefulInv'
  BY IdleStaysFresh, FreshOnly

\* The first page of a thread has all from its first message on.
LEMMA OpenedCareful ==
    ASSUME TypeOK, IInv, CarefulInv, TypeOK', IInv', OneCall, NEW j \in Jobs, Opened(j)
    PROVE  CarefulInv'
<1>0. /\ Fresh(job[j]) /\ Facts /\ Single /\ Idle.step = "idle" /\ job[j].step = "opened"
  BY DEF CarefulInv, Idle, Opened
<1> DEFINE B == Before(MaxSeq + 1)
           L == Len(log)
<1>1. /\ thread.drafts = {} /\ Shown = {} /\ job[j].page = Snapshot(B)
      /\ job[j].more = MoreBefore(MaxSeq + 1)
  BY <1>0 DEF Fresh
<1>2. /\ log' = log /\ readTo' = readTo /\ link' = link /\ news' = news
      /\ job' = [job EXCEPT ![j] = Idle]
      /\ thread' = [EmptyThread EXCEPT !.rows = Snapshot(B), !.hasMore = MoreBefore(MaxSeq + 1)]
  BY <1>1 DEF Opened, Become
<1>3. /\ thread'.rows = Snapshot(B) /\ thread'.drafts = {} /\ thread'.failed = {}
      /\ thread'.hasMore = MoreBefore(MaxSeq + 1)
  BY <1>2 DEF EmptyThread
<1>4. /\ Single' /\ job'[j] = Idle /\ \A i \in Jobs : i # j => job'[i] = Idle
  BY <1>0, <1>2, Turn
<1>5. /\ L \in Nat /\ L <= MaxSeq /\ Stored = 1..L /\ PageSize \in Nat \ {0} /\ MaxSeq \in Nat
      /\ Stored' = Stored
  BY <1>2, Basics DEF Stored
<1>6. /\ \A s : s \in B <=> s \in 1..L /\ L < s + PageSize
      /\ MoreBefore(MaxSeq + 1) <=> L > PageSize
  BY <1>5, BeforeFacts
<1>7. Shown' = B /\ \A s \in B : thread'.rows[s] = log[s].gone
  BY <1>3 DEF Shown, Snapshot
<1> HIDE DEF B, L
<1>8. /\ B # {} => L \in B
      /\ \A s \in Stored : (\E n \in B : n <= s) => s \in B
  BY <1>5, <1>6
<1>9. Explained' /\ ReadShown' /\ OnePageBehind'
  <2>1. Explained'
    BY <1>5, <1>7, <1>8 DEF Explained, Above
  <2>2. \A s \in Stored : ~ Beyond(s)'
    BY <1>5, <1>7, <1>8 DEF Beyond
  <2>3. ReadShown'
    BY <1>0, <1>2, <1>5, <2>2 DEF Facts, ReadShown
  <2>4. OnePageBehind'
    BY <1>2, <1>5, <1>7, <1>8 DEF OnePageBehind, L
  <2> QED
    BY <2>1, <2>3, <2>4
<1>10. Consecutive' /\ KeysOnce'
  BY <1>0, <1>1, <1>2, <1>5 DEF Facts, Consecutive, KeysOnce, Created
<1>11. DraftsAbove' /\ FailedCarried'
  BY <1>3 DEF DraftsAbove, FailedCarried
<1>12. GoneExplained'
  BY <1>0, <1>2, <1>5, <1>7 DEF Facts, GoneExplained, Created, Deleted
<1>13. HistoryReachable'
  BY <1>3, <1>5, <1>6, <1>7 DEF HistoryReachable
<1>14. Facts'
  BY <1>9, <1>10, <1>11, <1>12, <1>13 DEF Facts
<1> QED
  BY <1>4, <1>14, LastCareful

\* An older page ends where the thread begins.
LEMMA OlderCareful ==
    ASSUME TypeOK, IInv, CarefulInv, TypeOK', IInv', OneCall, Lucky, NEW j \in Jobs,
           OlderLoaded(j)
    PROVE  CarefulInv'
<1>0. /\ Fresh(job[j]) /\ Facts /\ Single /\ Idle.step = "idle" /\ job[j].step = "olderGot"
  BY DEF CarefulInv, Idle, OlderLoaded
<1>1. PICK O, B, rows, more, kept :
         /\ kept = job[j].kept
         /\ O = Oldest(thread) /\ B = Before(O) /\ more = MoreBefore(O)
         /\ rows = Merge(Snapshot(B), thread.rows)
  OBVIOUS
<1>2. /\ kept = [thread EXCEPT !.loading = FALSE] /\ job[j].page = Snapshot(B)
      /\ job[j].more = more
  BY <1>0, <1>1 DEF Fresh
<1>3. kept.rows = thread.rows /\ kept \in Thread
      /\ kept.drafts = thread.drafts /\ kept.failed = thread.failed
      /\ thread \in Thread
  <2>1. thread \in Thread
    BY DEF TypeOK
  <2>2. kept \in Thread
    BY <1>2, <2>1 DEF Thread
  <2>3. kept.rows = thread.rows /\ kept.drafts = thread.drafts /\ kept.failed = thread.failed
    BY <1>2, <2>1 DEF Thread
  <2> QED
    BY <2>1, <2>2, <2>3
<1>4. /\ log' = log /\ readTo' = readTo /\ link' = link /\ news' = news
      /\ job' = [job EXCEPT ![j] = Idle]
      /\ thread' = [kept EXCEPT !.rows = rows, !.hasMore = more]
  BY <1>1, <1>2, <1>3 DEF OlderLoaded, Become
<1>5. /\ thread'.rows = rows /\ thread'.drafts = thread.drafts /\ thread'.failed = thread.failed
      /\ thread'.hasMore = more
  BY <1>3, <1>4 DEF Thread
<1>6. /\ Single' /\ job'[j] = Idle /\ \A i \in Jobs : i # j => job'[i] = Idle
      /\ (Recovering <=> Recovering') /\ \A s : ~ Answering(s)
  BY <1>0, <1>4, Turn
<1>7. /\ Len(log) \in Nat /\ Stored = 1..Len(log) /\ PageSize \in Nat \ {0}
      /\ Stored' = Stored /\ Shown \subseteq Stored
  BY <1>4, Basics DEF Stored
<1>8. /\ Shown' = B \cup Shown
      /\ \A s \in Shown' : thread'.rows[s] = IF s \in B THEN log[s].gone ELSE thread.rows[s]
  <2>1. /\ DOMAIN rows = B \cup Shown
        /\ \A s \in B \cup Shown : rows[s] = IF s \in B THEN log[s].gone ELSE thread.rows[s]
    BY <1>1 DEF Shown, Merge, Snapshot
  <2> QED
    BY <1>5, <2>1 DEF Shown
<1>9. Shown = {} /\ Shown' # {} => Shown' = Stored
  BY <1>0, <1>4, <1>6, <1>7 DEF Lucky, Stored
<1>10. ASSUME Shown # {}
       PROVE  /\ O \in Shown /\ O \in Nat \ {0} /\ \A s \in Shown : O <= s
              /\ \A s : s \in B <=> s \in 1..(O - 1) /\ O - 1 < s + PageSize
              /\ more <=> O - 1 > PageSize
  <2>1. O \in Shown /\ \A s \in Shown : O <= s
    BY <1>1, <1>10, EndFacts
  <2>2. O \in Nat \ {0} /\ O - 1 \in 0..Len(log) /\ O = (O - 1) + 1
    BY <1>7, <2>1
  <2>3. /\ \A s : s \in B <=> s \in 1..(O - 1) /\ O - 1 < s + PageSize
        /\ more <=> O - 1 > PageSize
    BY <1>1, <2>2, BeforeFacts
  <2> QED
    BY <2>1, <2>2, <2>3
<1>11. HistoryReachable'
  <2> SUFFICES ASSUME Shown' # {}, 1 \notin Shown' PROVE more
    BY <1>5 DEF HistoryReachable
  <2>1. CASE Shown = {}
    BY <1>7, <1>9, <2>1
  <2>2. CASE Shown # {}
    BY <1>7, <1>8, <1>10, <2>2
  <2> QED
    BY <2>1, <2>2
<1>12. \A n \in Shown' \ Shown : \A s \in Stored :
          n < s /\ ~ Above(s) => s \in Shown'
  <2>1. CASE Shown = {}
    BY <1>9, <2>1
  <2>2. CASE Shown # {}
    <3> SUFFICES ASSUME NEW n \in B, NEW s \in Stored, n < s, ~ Above(s) PROVE s \in B
      BY <1>8
    <3>1. s < O
      BY <1>7, <1>10, <2>2 DEF Above
    <3> QED
      BY <1>7, <1>10, <2>2, <3>1
  <2> QED
    BY <2>1, <2>2
<1>13. \A s \in Stored : Beyond(s) => Beyond(s)'
  <2> SUFFICES ASSUME NEW s \in Stored, Beyond(s) PROVE Shown' # {} /\ \A n \in Shown' : n < s
    BY DEF Beyond
  <2>1. Shown # {} /\ \A n \in Shown : n < s
    BY DEF Beyond
  <2>2. \A n \in B : n < s
    BY <1>7, <1>10, <2>1
  <2> QED
    BY <1>8, <2>1, <2>2
<1>14. GoneExplained'
  <2>1. ASSUME NEW s \in Shown', log[s].gone, ~ thread'.rows[s] PROVE Deleted(s) \in news
    BY <1>0, <1>6, <1>8, <2>1 DEF Facts, GoneExplained
  <2> QED
    BY <1>0, <1>4, <1>7, <2>1 DEF Facts, GoneExplained, Created, Deleted
<1>15. Facts'
  BY <1>0, <1>4, <1>5, <1>6, <1>8, <1>9, <1>11, <1>12, <1>13, <1>14, Grow
<1> QED
  BY <1>6, <1>15, LastCareful

\* A response that leaves the thread as it is.
LEMMA UnusedCareful ==
    ASSUME TypeOK, IInv, CarefulInv, TypeOK', IInv', OneCall, Lucky, NEW j \in Jobs,
           ListLoaded(j) \/ Enqueued(j) \/ (CallFails(j) /\ ~ Recovered(j) /\ ~ Changed(j))
    PROVE  CarefulInv'
<1>0. /\ Fresh(job[j]) /\ Idle.step = "idle" /\ Facts /\ Single
  BY DEF CarefulInv, Idle
<1>1. CASE ListLoaded(j)
  <2>0. job[j].step = "list" /\ link = "up" /\ news = {}
    BY <1>0, <1>1 DEF ListLoaded, Fresh
  <2>1. CASE IsEmpty(thread)
    <3>1. Answer(j, Idle) /\ Shown = {}
      BY <1>1, <2>1 DEF ListLoaded, IsEmpty, Shown
    <3> QED
      BY <1>0, <2>0, <3>1, IdleStaysFresh, AnswerCareful
  <2>2. CASE ~ IsEmpty(thread)
    <3>1. PICK newest : newest = Newest(thread)
      OBVIOUS
    <3> DEFINE next == [step |-> "after", newest |-> newest]
    <3>2. Answer(j, next)
      BY <1>1, <2>2, <3>1 DEF ListLoaded
    <3>3. thread' = thread /\ link' = link /\ news' = news
      BY <3>2 DEF Answer, Proceed
    <3>4. next.step = "after" /\ next.newest = newest
      OBVIOUS
    <3> HIDE DEF next
    <3>5. Fresh(next)'
      BY <2>0, <3>1, <3>3, <3>4 DEF Fresh
    <3> QED
      BY <1>0, <2>0, <3>2, <3>4, <3>5, AnswerCareful
  <2> QED
    BY <2>1, <2>2
<1>2. CASE Enqueued(j)
  <2>0. job[j].step = "enqueue" /\ link = "up" /\ news = {}
    BY <1>0, <1>2 DEF Enqueued, Fresh
  <2>1. PICK k : k = job[j].key
    OBVIOUS
  <2>2. CASE ~ Carries(thread, k)
    <3>1. Answer(j, Idle)
      BY <1>2, <2>1, <2>2 DEF Enqueued
    <3> QED
      BY <1>0, <2>0, <3>1, IdleStaysFresh, AnswerCareful
  <2>3. CASE Carries(thread, k)
    <3> DEFINE next == [step |-> "post", key |-> k]
    <3>1. Answer(j, next)
      BY <1>2, <2>1, <2>3 DEF Enqueued
    <3>2. thread' = thread /\ link' = link /\ news' = news /\ log' = log
      BY <3>1 DEF Answer, Proceed
    <3>3. next.step = "post" /\ next.key = k
      OBVIOUS
    <3> HIDE DEF next
    <3>4. Fresh(next)'
      BY <2>0, <2>3, <3>2, <3>3 DEF Fresh, Carries, Stored
    <3> QED
      BY <1>0, <2>0, <3>1, <3>3, <3>4, AnswerCareful
  <2> QED
    BY <2>2, <2>3
<1>3. CASE CallFails(j) /\ ~ Recovered(j) /\ ~ Changed(j)
  <2>1. Answer(j, Idle) /\ job[j].step # "idle"
    BY <1>3 DEF CallFails
  <2>2. job' = [job EXCEPT ![j] = Idle]
    BY <2>1 DEF Answer, Proceed
  <2>3. job'[j] = Idle /\ \A i \in Jobs : i # j => job[i] = Idle
    BY <1>0, <2>1, <2>2, Turn
  <2>4. job[j].step \notin {"after", "afterGot", "changed", "list"}
    <3>1. job[j].step # "after"
      BY <2>3 DEF Lucky
    <3>2. job[j].step \notin {"afterGot", "changed"}
      BY <1>3, <2>3 DEF Lucky
    <3>3. job[j].step # "list"
      BY <1>3 DEF CallFails
    <3> QED
      BY <3>1, <3>2, <3>3
  <2> QED
    BY <1>0, <2>1, <2>4, IdleStaysFresh, AnswerCareful
<1> QED
  BY <1>1, <1>2, <1>3

\* A message that could not be sent is marked, if the thread has it.
LEMMA FailedCareful ==
    ASSUME TypeOK, IInv, CarefulInv, OneCall, NEW j \in Jobs, PostFails(j)
    PROVE  CarefulInv'
<1>0. /\ Fresh(job[j]) /\ Idle.step = "idle" /\ Facts /\ Single /\ thread \in Thread
      /\ job[j].step \in {"post", "posted"}
  BY DEF CarefulInv, Idle, TypeOK, PostFails
<1>1. PICK k, failed :
         /\ k = job[j].key
         /\ failed = IF Carries(thread, k) THEN thread.failed \cup {k} ELSE thread.failed
  OBVIOUS
<1>2. /\ log' = log /\ readTo' = readTo /\ link' = link /\ news' = news
      /\ job' = [job EXCEPT ![j] = Idle]
      /\ thread' = [thread EXCEPT !.failed = failed]
  BY <1>1 DEF PostFails, Become
<1>3. /\ thread'.rows = thread.rows /\ thread'.drafts = thread.drafts
      /\ thread'.failed = failed /\ thread'.hasMore = thread.hasMore
  BY <1>0, <1>2, FailedOf
<1>4. /\ Single' /\ job'[j] = Idle /\ \A i \in Jobs : i # j => job'[i] = Idle
      /\ (Recovering <=> Recovering') /\ \A s : ~ Answering(s)
  BY <1>0, <1>2, Turn
<1>5. \A i \in failed : i \in thread.failed \/ Carries(thread, i)
  BY <1>1
<1>6. Facts'
  BY <1>0, <1>2, <1>3, <1>4, <1>5, Quiet DEF Shown
<1> QED
  BY <1>4, <1>6, LastCareful

\* The sent message takes its place.
LEMMA PostedCareful ==
    ASSUME TypeOK, IInv, CarefulInv, TypeOK', IInv', OneCall, Lucky, NEW j \in Jobs,
           Posted(j)
    PROVE  CarefulInv'
<1>0. /\ Fresh(job[j]) /\ Idle.step = "idle" /\ Facts /\ Single /\ thread \in Thread
      /\ job[j].step = "posted"
  BY DEF CarefulInv, Idle, TypeOK, Posted
<1>1. PICK s, gone, k : s = job[j].seq /\ gone = job[j].gone /\ k = job[j].key
  OBVIOUS
<1>2. /\ log[s].key = k /\ gone = log[s].gone /\ (Shown # {} => Above(s))
      /\ link = "up" /\ news = {}
  BY <1>0, <1>1 DEF Fresh
<1>3. /\ log' = log /\ readTo' = readTo /\ link' = link /\ news' = news
      /\ job' = [job EXCEPT ![j] = Idle]
      /\ thread' = Applied(thread, s, gone, k)
  BY <1>1 DEF Posted, Become
<1>4. /\ thread'.rows = Put(thread.rows, s, gone) /\ thread'.failed \subseteq thread.failed
      /\ thread'.drafts \subseteq thread.drafts
      /\ \A i \in thread.drafts \ thread'.drafts : i = k
      /\ thread'.hasMore = thread.hasMore
  BY <1>0, <1>3, AppliedFields
<1>5. /\ Shown' = Shown \cup {s}
      /\ thread'.rows[s] = gone /\ \A n \in Shown : n # s => thread'.rows[n] = thread.rows[n]
  BY <1>4 DEF Shown, Put
<1>6. /\ Single' /\ job'[j] = Idle /\ \A i \in Jobs : i # j => job'[i] = Idle
      /\ ~ Recovering /\ ~ Recovering' /\ \A n : ~ Answering(n)
  BY <1>0, <1>2, <1>3, Turn
<1>7. Stored \subseteq Nat /\ Stored' = Stored /\ Stored = 1..Len(log) /\ Shown \subseteq Stored
      /\ s \in Stored
  BY <1>0, <1>1, <1>3, Basics DEF Stored, IInv, HonestCall
<1>8. Shown = {} => Shown' = Stored
  BY <1>0, <1>3, <1>5, <1>6, <1>7 DEF Lucky, Stored
<1>9. \A n \in Shown' \ Shown : \A m \in Stored : n < m /\ ~ Above(m) => m \in Shown'
  <2>1. CASE Shown = {}
    BY <1>8, <2>1
  <2>2. CASE Shown # {}
    <3>1. PICK n \in Shown : n <= s
      BY <1>2, <2>2 DEF Above
    <3>2. \A m \in Stored : s < m => n <= m
      BY <1>7, <3>1
    <3> QED
      BY <1>5, <3>2 DEF Above
  <2> QED
    BY <2>1, <2>2
<1>10. GoneExplained'
  BY <1>0, <1>2, <1>3, <1>5, <1>6, <1>7 DEF Facts, GoneExplained, Created, Deleted
<1>11. Facts'
  BY <1>0, <1>2, <1>3, <1>4, <1>5, <1>6, <1>8, <1>9, <1>10, Grow
<1> QED
  BY <1>6, <1>11, LastCareful

\* The answer to a deletion or a reaction brings a message that is shown.
LEMMA ChangedCareful ==
    ASSUME TypeOK, IInv, CarefulInv, TypeOK', IInv', OneCall, NEW j \in Jobs, Changed(j)
    PROVE  CarefulInv'
<1>0. /\ Fresh(job[j]) /\ Idle.step = "idle" /\ Facts /\ Single /\ thread \in Thread
      /\ job[j].step = "changed"
  BY DEF CarefulInv, Idle, TypeOK, Changed
<1>1. PICK s, gone, k : s = job[j].seq /\ gone = job[j].gone /\ k = log[job[j].seq].key
  OBVIOUS
<1>2. s \in Shown /\ gone = log[s].gone
  BY <1>0, <1>1 DEF Fresh
<1>3. /\ log' = log /\ readTo' = readTo /\ link' = link /\ news' = news
      /\ job' = [job EXCEPT ![j] = Idle]
      /\ thread' = Applied(thread, s, gone, k)
  BY <1>1 DEF Changed, Become
<1>4. /\ thread'.rows = Put(thread.rows, s, gone) /\ thread'.failed \subseteq thread.failed
      /\ thread'.drafts = thread.drafts /\ thread'.hasMore = thread.hasMore
  <2>1. /\ thread'.rows = Put(thread.rows, s, gone) /\ thread'.failed \subseteq thread.failed
        /\ thread'.drafts \subseteq thread.drafts /\ thread'.hasMore = thread.hasMore
        /\ \A i \in thread.drafts \ thread'.drafts : s \notin Shown
    BY <1>0, <1>3, AppliedFields DEF Shown
  <2> QED
    BY <1>2, <2>1
<1>5. /\ Shown' = Shown
      /\ thread'.rows[s] = gone /\ \A n \in Shown : n # s => thread'.rows[n] = thread.rows[n]
  BY <1>2, <1>4 DEF Shown, Put
<1>6. /\ Single' /\ job'[j] = Idle /\ \A i \in Jobs : i # j => job'[i] = Idle
      /\ (Recovering <=> Recovering') /\ \A n : Answering(n) => n = s
  BY <1>0, <1>1, <1>3, Turn
<1>7. Stored' = Stored
  BY <1>3 DEF Stored
<1>8. GoneExplained'
  BY <1>0, <1>2, <1>3, <1>5, <1>6, <1>7 DEF Facts, GoneExplained, Created, Deleted
<1>9. \A n : Beyond(n)' <=> Beyond(n)
  BY <1>5 DEF Beyond
<1>10. Facts'
  BY <1>0, <1>3, <1>4, <1>5, <1>6, <1>8, <1>9, Grow
<1> QED
  BY <1>6, <1>10, LastCareful

\* The recovery brings all that was missed.
LEMMA RecoveredCareful ==
    ASSUME TypeOK, IInv, CarefulInv, TypeOK', IInv', OneCall, Lucky, NEW j \in Jobs,
           Recovered(j)
    PROVE  CarefulInv'
<1>0. /\ Fresh(job[j]) /\ Idle.step = "idle" /\ Facts /\ Single /\ thread \in Thread
      /\ job[j].step = "afterGot"
  BY DEF CarefulInv, Idle, TypeOK, Recovered
<1>1. PICK N, A, rows, drafts, failed :
         /\ N = Newest(thread) /\ A = After(N) /\ rows = Merge(Snapshot(A), thread.rows)
         /\ drafts = thread.drafts \ {log[s].key : s \in A \ Shown}
         /\ failed = thread.failed \ {log[s].key : s \in A}
  OBVIOUS
<1>2. job[j].page = Snapshot(A) /\ link = "up" /\ news = {} /\ DOMAIN Snapshot(A) = A
  BY <1>0, <1>1 DEF Fresh, Snapshot
<1>3. /\ log' = log /\ readTo' = readTo /\ link' = link /\ news' = news
      /\ job' = [job EXCEPT ![j] = Idle]
      /\ thread' = [thread EXCEPT !.rows = rows, !.drafts = drafts, !.failed = failed]
  BY <1>1, <1>2 DEF Recovered, Become
<1>4. /\ thread'.rows = rows /\ thread'.drafts = drafts /\ thread'.failed = failed
      /\ thread'.hasMore = thread.hasMore
  BY <1>0, <1>3 DEF Thread
<1>5. /\ Single' /\ job'[j] = Idle /\ \A i \in Jobs : i # j => job'[i] = Idle
      /\ Recovering /\ ~ Recovering' /\ \A s : ~ Answering(s)
  BY <1>0, <1>2, <1>3, Turn
<1>6. Stored' = Stored /\ Stored \subseteq Nat /\ Stored = 1..Len(log) /\ Shown \subseteq Stored
      /\ Len(log) \in Nat /\ PageSize \in Nat
  BY <1>3, Basics DEF Stored
<1>7. /\ Shown' = A \cup Shown
      /\ \A s \in Shown' : thread'.rows[s] = IF s \in A THEN log[s].gone ELSE thread.rows[s]
  <2>1. /\ DOMAIN rows = A \cup Shown
        /\ \A s \in A \cup Shown : rows[s] = IF s \in A THEN log[s].gone ELSE thread.rows[s]
    BY <1>1 DEF Shown, Merge, Snapshot
  <2> QED
    BY <1>4, <2>1 DEF Shown
<1>8. Shown = {} /\ Shown' # {} => Shown' = Stored
  BY <1>0, <1>3, <1>5, <1>6 DEF Lucky, Stored
<1>9. \A s \in A : s \in Stored /\ N < s
  BY <1>1 DEF After
<1>10. ASSUME Shown # {} PROVE \A s \in Stored : N < s => s \in A
  <2>1. N \in Nat /\ \A n \in Shown : n <= N
    BY <1>1, <1>6, <1>10, EndFacts
  <2>2. PICK n \in Shown : Len(log) <= n + PageSize
    BY <1>0, <1>5, <1>10 DEF Facts, OnePageBehind
  <2>3. Len(log) <= N + PageSize
    BY <1>6, <2>1, <2>2
  <2> QED
    BY <1>1, <2>1, <2>3, AfterFacts
<1>11. \A n \in Shown' \ Shown : \A m \in Stored : n < m /\ ~ Above(m) => m \in Shown'
  <2>1. CASE Shown = {}
    BY <1>8, <2>1
  <2>2. CASE Shown # {}
    <3>1. N \in Nat
      BY <1>1, <1>6, <2>2, EndFacts
    <3>2. \A n \in A : \A m \in Stored : n < m => N < m
      BY <1>6, <1>9, <3>1
    <3> QED
      BY <1>7, <1>10, <2>2, <3>2
  <2> QED
    BY <2>1, <2>2
<1>12. \A s \in Stored : Beyond(s) => s \in Shown'
  <2> SUFFICES ASSUME NEW s \in Stored, Beyond(s) PROVE s \in Shown'
    OBVIOUS
  <2>1. Shown # {} /\ N < s
    BY <1>1, EndFacts DEF Beyond
  <2> QED
    BY <1>7, <1>10, <2>1
<1>13. GoneExplained'
  BY <1>0, <1>2, <1>3, <1>5, <1>6, <1>7 DEF Facts, GoneExplained, Created, Deleted
<1>14. /\ thread'.drafts \subseteq thread.drafts /\ thread'.failed \subseteq thread.failed
       /\ \A k \in thread.drafts \ thread'.drafts : \E s \in Shown' : log[s].key = k
  BY <1>1, <1>4, <1>7
<1>15. Facts'
  BY <1>0, <1>2, <1>3, <1>4, <1>5, <1>7, <1>8, <1>11, <1>12, <1>13, <1>14, Grow
<1> QED
  BY <1>5, <1>15, LastCareful

\* A response.
LEMMA RespondCareful ==
    ASSUME TypeOK, IInv, CarefulInv, TypeOK', IInv', OneCall, Lucky, NEW j \in Jobs,
           Respond(j)
    PROVE  CarefulInv'
  BY OpenedCareful, OlderCareful, UnusedCareful, FailedCareful, PostedCareful, ChangedCareful,
     RecoveredCareful DEF Respond

\* The names of the events.
LEMMA EventNames ==
    ASSUME TypeOK, NEW event \in news
    PROVE  /\ event.kind = "created" => event = Created(event.seq)
           /\ event.kind = "deleted" => event = Deleted(event.seq)
           /\ event.kind = "created" \/ event.kind = "deleted"
           /\ \A s, n : Created(s) # Deleted(n) /\ (Created(s) = Created(n) => s = n)
                        /\ (Deleted(s) = Deleted(n) => s = n)
           /\ \A s : /\ Created(s).kind = "created" /\ Created(s).seq = s
                     /\ Deleted(s).kind = "deleted" /\ Deleted(s).seq = s
<1>1. event \in Event
  BY DEF TypeOK
<1>2. /\ event.kind = "created" => event = Created(event.seq)
      /\ event.kind = "deleted" => event = Deleted(event.seq)
      /\ event.kind = "created" \/ event.kind = "deleted"
  BY <1>1 DEF Event, Created, Deleted
<1>3. \A s : /\ Created(s).kind = "created" /\ Created(s).seq = s
             /\ Deleted(s).kind = "deleted" /\ Deleted(s).seq = s
  BY DEF Created, Deleted
<1>4. \A s, n : Created(s) # Deleted(n) /\ (Created(s) = Created(n) => s = n)
                /\ (Deleted(s) = Deleted(n) => s = n)
  BY <1>3
<1> QED
  BY <1>2, <1>3, <1>4

\* A step of the socket with no call in flight.
LEMMA NoCallCareful ==
    ASSUME TypeOK, Facts', job' = job, \A j \in Jobs : job[j] = Idle
    PROVE  CarefulInv'
<1>1. \A j \in Jobs : job'[j] = Idle
  OBVIOUS
<1> QED
  BY <1>1, IdleStaysFresh DEF CarefulInv, Single

\* With no call in flight only a closed socket leaves something to recover.
LEMMA NoCall ==
    ASSUME job' = job, \A j \in Jobs : job[j] = Idle
    PROVE  /\ Recovering <=> link = "down"
           /\ Recovering' <=> link' = "down"
           /\ \A s : ~ Answering(s) /\ ~ Answering(s)'
<1>1. Idle.step = "idle" /\ \A j \in Jobs : job'[j] = Idle
  BY DEF Idle
<1> QED
  BY <1>1 DEF Recovering, Answering

\* A message that is announced is shown; it is the first of those announced.
LEMMA CreatedCareful ==
    ASSUME TypeOK, IInv, CarefulInv, TypeOK', IInv', Lucky, HandleCreated
    PROVE  CarefulInv'
<1>0. Facts /\ thread \in Thread /\ Idle.step = "idle" /\ \A j \in Jobs : job[j] = Idle
  BY DEF CarefulInv, TypeOK, Idle, Lucky, HandleEvent
<1>1. PICK event \in news :
        /\ event.kind = "created"
        /\ Handled(event, Applied(thread, event.seq, FALSE, log[event.seq].key))
  BY DEF HandleCreated
<1>2. PICK s, k, gone : s = event.seq /\ k = log[event.seq].key /\ gone = FALSE
  OBVIOUS
<1>3. /\ log' = log /\ readTo' = readTo /\ link' = link /\ job' = job /\ link = "up"
      /\ news' = news \ {Created(s)} /\ Created(s) \in news
      /\ thread' = Applied(thread, s, gone, k)
  BY <1>1, <1>2, EventNames DEF Handled
<1>4. /\ thread'.rows = Put(thread.rows, s, gone) /\ thread'.failed \subseteq thread.failed
      /\ thread'.drafts \subseteq thread.drafts
      /\ \A i \in thread.drafts \ thread'.drafts : i = log[s].key
      /\ thread'.hasMore = thread.hasMore
  <2>1. /\ thread'.rows = Put(thread.rows, s, gone) /\ thread'.failed \subseteq thread.failed
        /\ thread'.drafts \subseteq thread.drafts
        /\ \A i \in thread.drafts \ thread'.drafts : i = k
        /\ thread'.hasMore = thread.hasMore
    BY <1>0, <1>3, AppliedFields
  <2> QED
    BY <1>2, <2>1
<1>5. /\ Shown' = Shown \cup {s}
      /\ \A n \in Shown : n # s => thread'.rows[n] = thread.rows[n]
  BY <1>4 DEF Shown, Put
<1>6. ~ Recovering /\ ~ Recovering' /\ \A n : ~ Answering(n) /\ ~ Answering(n)'
  BY <1>0, <1>3, NoCall
<1>7. Stored' = Stored /\ Stored = 1..Len(log) /\ s \in Stored
  BY <1>2, <1>3 DEF Stored, IInv, HonestEvent
<1>8. Shown = {} => Shown' = Stored
  BY <1>0, <1>3, <1>5, <1>7 DEF Lucky, Stored
<1>9. \A m \in Stored : s < m => \/ m \in Shown' \/ Created(m) \in news
                                 \/ log[m].key \in thread.drafts
  BY <1>0, <1>3, <1>5, <1>7 DEF Facts, Consecutive
<1>10. /\ \A n : Created(n) \in news \ news' => n = s
       /\ \A n : Deleted(n) \in news => Deleted(n) \in news'
  BY <1>3, EventNames
<1>11. GoneExplained'
  <2>1. ASSUME NEW n \in Shown', log[n].gone, ~ thread'.rows[n] PROVE Deleted(n) \in news'
    <3>1. CASE n = s
      BY <1>0, <1>3, <1>7, <1>10, <2>1, <3>1 DEF Facts, GoneExplained
    <3>2. CASE n # s
      BY <1>0, <1>5, <1>6, <1>10, <2>1, <3>2 DEF Facts, GoneExplained
    <3> QED
      BY <3>1, <3>2
  <2>2. ASSUME NEW n \in Stored, Created(n) \in news'
        PROVE  log[n].key = Theirs /\ (log[n].gone => Deleted(n) \in news')
    BY <1>0, <1>3, <1>10, <2>2 DEF Facts, GoneExplained
  <2> QED
    BY <1>3, <1>7, <2>1, <2>2 DEF GoneExplained, Created, Deleted
<1>12. Facts'
  BY <1>0, <1>3, <1>4, <1>5, <1>6, <1>8, <1>9, <1>10, <1>11, Grow
<1> QED
  BY <1>0, <1>3, <1>12, NoCallCareful

\* A deletion that is announced is shown.
LEMMA DeletedCareful ==
    ASSUME TypeOK, IInv, CarefulInv, TypeOK', IInv', Lucky, HandleDeleted
    PROVE  CarefulInv'
<1>0. Facts /\ thread \in Thread /\ Idle.step = "idle" /\ \A j \in Jobs : job[j] = Idle
  BY DEF CarefulInv, TypeOK, Idle, Lucky, HandleEvent
<1>1. PICK event \in news :
        /\ event.kind = "deleted"
        /\ [kind |-> "created", seq |-> event.seq] \notin news
        /\ Handled(event, [thread EXCEPT !.rows =
                             IF event.seq \in DOMAIN @ THEN Put(@, event.seq, TRUE) ELSE @])
  BY DEF HandleDeleted
<1>2. PICK s, rows : s = event.seq /\ rows = IF event.seq \in DOMAIN thread.rows
                                             THEN Put(thread.rows, event.seq, TRUE)
                                             ELSE thread.rows
  OBVIOUS
<1>3. /\ log' = log /\ readTo' = readTo /\ link' = link /\ job' = job
      /\ news' = news \ {Deleted(s)} /\ Created(s) \notin news
      /\ thread' = [thread EXCEPT !.rows = rows]
  BY <1>1, <1>2, EventNames DEF Handled, Created
<1>4. /\ thread'.rows = rows /\ thread'.failed = thread.failed
      /\ thread'.drafts = thread.drafts /\ thread'.hasMore = thread.hasMore
  BY <1>0, <1>3 DEF Thread
<1>5. /\ Shown' = Shown /\ (s \in Shown => thread'.rows[s])
      /\ \A n \in Shown : n # s => thread'.rows[n] = thread.rows[n]
  BY <1>2, <1>4 DEF Shown, Put
<1>6. (Recovering <=> Recovering') /\ \A n : ~ Answering(n) /\ ~ Answering(n)'
  BY <1>0, <1>3, NoCall
<1>7. Stored' = Stored
  BY <1>3 DEF Stored
<1>8. /\ \A n : Created(n) \in news => Created(n) \in news'
      /\ \A n : n # s /\ Deleted(n) \in news => Deleted(n) \in news'
  BY <1>1, <1>3, EventNames
<1>9. GoneExplained'
  <2>1. ASSUME NEW n \in Shown, log[n].gone, ~ thread'.rows[n] PROVE Deleted(n) \in news'
    BY <1>0, <1>5, <1>6, <1>8, <2>1 DEF Facts, GoneExplained
  <2>2. ASSUME NEW n \in Stored, Created(n) \in news'
        PROVE  log[n].key = Theirs /\ (log[n].gone => Deleted(n) \in news')
    BY <1>0, <1>3, <1>8, <2>2 DEF Facts, GoneExplained
  <2> QED
    BY <1>3, <1>5, <1>7, <2>1, <2>2 DEF GoneExplained, Created, Deleted
<1>10. \A n : Beyond(n)' <=> Beyond(n)
  BY <1>5 DEF Beyond
<1>11. Facts'
  BY <1>0, <1>3, <1>4, <1>5, <1>6, <1>8, <1>9, <1>10, Grow
<1> QED
  BY <1>0, <1>3, <1>11, NoCallCareful

\* Events that are lost announce what the recovery will bring.
LEMMA LostCareful ==
    ASSUME TypeOK, IInv, CarefulInv, Careful, Miss \/ Disconnect
    PROVE  CarefulInv'
<1>0. Facts /\ Single /\ \A j \in Jobs : Fresh(job[j])
  BY DEF CarefulInv
<1>1. /\ log' = log /\ readTo' = readTo /\ thread' = thread /\ job' = job /\ link' = "down"
      /\ news' \subseteq news /\ (link = "down" \/ link = "up")
  BY DEF Miss, Disconnect
<1>2. /\ \A event \in news : event.kind = "created" /\ event.seq > Newest(thread)
      /\ link = "up" => \A j \in Jobs : job[j] = Idle
      /\ Shown # {} => Len(log) <= Newest(thread) + PageSize
  BY <1>1 DEF Careful, Shown
<1>3. /\ Shown' = Shown /\ Stored' = Stored /\ Recovering'
      /\ \A s : (Above(s)' <=> Above(s)) /\ (Beyond(s)' <=> Beyond(s))
      /\ \A s : Answering(s)' <=> Answering(s)
  BY <1>1 DEF Shown, Stored, Recovering, Above, Beyond, Answering
<1>4. \A s : Deleted(s) \notin news
  BY <1>2 DEF Deleted
<1>5. \A s \in Stored : Created(s) \in news /\ Shown # {} => Beyond(s)
  <2> SUFFICES ASSUME NEW s \in Stored, Created(s) \in news, Shown # {} PROVE Beyond(s)
    OBVIOUS
  <2>1. Created(s).seq > Newest(thread) /\ Created(s).seq = s
    BY <1>2 DEF Created
  <2>2. \A n \in Shown : n <= Newest(thread) /\ Newest(thread) \in Shown
    BY EndFacts
  <2> QED
    BY <2>1, <2>2, Basics DEF Beyond
<1>6. Explained'
  <2> SUFFICES ASSUME NEW s \in Stored, Above(s)
               PROVE  s \in Shown \/ log[s].key \in thread.drafts \/ Beyond(s)
    BY <1>1, <1>3 DEF Explained
  <2>1. Shown # {}
    BY DEF Above
  <2> QED
    BY <1>0, <1>5, <2>1 DEF Facts, Explained
<1>7. Consecutive'
  BY <1>1 DEF Consecutive
<1>8. ReadShown' /\ DraftsAbove' /\ KeysOnce' /\ HistoryReachable'
  BY <1>0, <1>1, <1>3 DEF Facts, ReadShown, DraftsAbove, KeysOnce, HistoryReachable
<1>9. FailedCarried'
  BY <1>0, <1>1 DEF Facts, FailedCarried, Carries, Stored
<1>10. GoneExplained'
  BY <1>0, <1>1, <1>3, <1>4 DEF Facts, GoneExplained, Created, Deleted
<1>11. OnePageBehind'
  BY <1>1, <1>2, <1>3, EndFacts DEF OnePageBehind
<1>12. Facts'
  BY <1>6, <1>7, <1>8, <1>9, <1>10, <1>11 DEF Facts
<1>13. CASE link = "up"
  BY <1>1, <1>2, <1>12, <1>13, NoCallCareful
<1>14. CASE link = "down"
  <2> SUFFICES ASSUME NEW j \in Jobs PROVE Fresh(job[j])'
    BY <1>0, <1>1, <1>12 DEF CarefulInv, Single
  <2>1. Fresh(job[j])
    BY <1>0
  <2>2. job[j].step \notin {"list", "after", "afterGot", "enqueue", "post", "posted"}
    BY <1>14, <2>1 DEF Fresh
  <2> QED
    BY <1>1, <1>3, <2>1, <2>2 DEF Fresh, Snapshot, Before, MoreBefore, Stored, Oldest
<1> QED
  BY <1>1, <1>13, <1>14

\* What the others send is announced.
LEMMA SentCareful ==
    ASSUME TypeOK, IInv, CarefulInv, Lucky, Careful, TheySend
    PROVE  CarefulInv'
<1>0. Facts /\ Idle.step = "idle" /\ \A j \in Jobs : job[j] = Idle
  BY DEF CarefulInv, Idle, Lucky
<1>1. PICK L : L = Len(log)
  OBVIOUS
<1>2. /\ log' = Append(log, [key |-> Theirs, gone |-> FALSE]) /\ readTo' = readTo
      /\ link' = link /\ thread' = thread /\ job' = job
      /\ news' = news \cup {Created(L + 1)}
  BY <1>1 DEF TheySend, Publish, Created
<1>3. /\ L \in Nat /\ Stored = 1..L /\ Stored' = 1..(L + 1) /\ Len(log') = L + 1
      /\ \A s \in Stored : log'[s] = log[s]
      /\ log'[L + 1].key = Theirs /\ log'[L + 1].gone = FALSE
  BY <1>1, <1>2 DEF TypeOK, Stored
<1>4. /\ Shown' = Shown /\ Shown \subseteq Stored
      /\ \A s : (Above(s)' <=> Above(s)) /\ (Beyond(s)' <=> Beyond(s))
  BY <1>2, Basics DEF Shown, Above, Beyond
<1>5. /\ (Recovering <=> Recovering') /\ (Recovering' <=> link' = "down")
      /\ \A n : ~ Answering(n) /\ ~ Answering(n)'
  BY <1>0, <1>2, NoCall
<1>6. \A s \in Stored' : s = L + 1 \/ s \in Stored
  BY <1>3
<1>7. Explained'
  BY <1>0, <1>2, <1>3, <1>4, <1>5, <1>6 DEF Facts, Explained, Created
<1>8. Consecutive'
  <2> SUFFICES ASSUME link = "up", NEW s \in Stored', NEW n \in Stored', Created(s) \in news', s < n
               PROVE  Created(n) \in news' \/ n \in Shown \/ log'[n].key \in thread.drafts
    BY <1>2, <1>4 DEF Consecutive, Created
  <2>1. CASE n = L + 1
    BY <1>2, <2>1
  <2>2. CASE n # L + 1
    <3>1. s \in Stored /\ n \in Stored /\ s # L + 1
      BY <1>3, <2>2
    <3>2. Created(s) \in news
      BY <1>2, <3>1 DEF Created
    <3> QED
      BY <1>0, <1>2, <1>3, <3>1, <3>2 DEF Facts, Consecutive
  <2> QED
    BY <2>1, <2>2
<1>9. ReadShown'
  <2>1. readTo \in Nat /\ readTo <= L
    BY <1>0, <1>1, Basics DEF Facts, ReadShown
  <2>2. \A s \in Stored' : s <= readTo => s \in Stored
    BY <1>3, <2>1
  <2>3. readTo' <= Len(log')
    BY <1>2, <1>3, <2>1
  <2> QED
    BY <1>0, <1>2, <1>3, <1>4, <2>2, <2>3 DEF Facts, ReadShown
<1>10. DraftsAbove'
  <2>1. Theirs \notin thread.drafts
    BY Basics
  <2> QED
    BY <1>0, <1>2, <1>3, <1>4, <1>6, <2>1 DEF Facts, DraftsAbove
<1>11. FailedCarried'
  BY <1>0, <1>2, <1>3 DEF Facts, FailedCarried, Carries
<1>12. KeysOnce'
  BY <1>0, <1>3, <1>6 DEF Facts, KeysOnce
<1>13. GoneExplained'
  <2>1. ASSUME NEW s \in Shown, log'[s].gone, ~ thread.rows[s] PROVE Deleted(s) \in news'
    BY <1>0, <1>2, <1>3, <1>4, <1>5, <2>1 DEF Facts, GoneExplained
  <2>2. ASSUME NEW s \in Stored', Created(s) \in news'
        PROVE  log'[s].key = Theirs /\ (log'[s].gone => Deleted(s) \in news')
    <3>1. CASE s = L + 1
      BY <1>3, <3>1
    <3>2. CASE s # L + 1
      <4>1. s \in Stored /\ Created(s) \in news
        BY <1>2, <1>6, <2>2, <3>2 DEF Created
      <4> QED
        BY <1>0, <1>2, <1>3, <4>1 DEF Facts, GoneExplained
    <3> QED
      BY <3>1, <3>2
  <2> QED
    BY <1>2, <1>4, <2>1, <2>2 DEF GoneExplained, Created, Deleted
<1>14. OnePageBehind'
  <2> SUFFICES ASSUME link' = "down", Shown # {} PROVE \E n \in Shown : Len(log') <= n + PageSize
    BY <1>4, <1>5 DEF OnePageBehind
  <2>1. Len(log') <= Newest(thread) + PageSize
    BY <1>2, <1>4 DEF Careful
  <2> QED
    BY <2>1, EndFacts
<1>15. HistoryReachable'
  BY <1>0, <1>2, <1>4 DEF Facts, HistoryReachable
<1>16. Facts'
  BY <1>7, <1>8, <1>9, <1>10, <1>11, <1>12, <1>13, <1>14, <1>15 DEF Facts
<1> QED
  BY <1>0, <1>2, <1>16, NoCallCareful

\* What the others delete is announced, and the socket is open.
LEMMA TheirsCareful ==
    ASSUME TypeOK, IInv, CarefulInv, Lucky, Careful, TheyDelete
    PROVE  CarefulInv'
<1>0. Facts /\ Idle.step = "idle" /\ \A j \in Jobs : job[j] = Idle
  BY DEF CarefulInv, Idle, Lucky
<1>1. PICK s \in Stored : /\ log[s] = [key |-> Theirs, gone |-> FALSE]
                          /\ log' = [log EXCEPT ![s].gone = TRUE]
                          /\ Publish("deleted", s)
  BY DEF TheyDelete
<1>2. /\ readTo' = readTo /\ link' = link /\ thread' = thread /\ job' = job
      /\ news' = news \cup {Deleted(s)}
  BY <1>1 DEF TheyDelete, Publish, Deleted
<1>3. /\ Stored' = Stored /\ Len(log') = Len(log)
      /\ \A n \in Stored : n # s => log'[n] = log[n]
      /\ \A n \in Stored : log'[n].key = log[n].key
  <2>1. log \in Seq(Message) /\ log'[s] = [log[s] EXCEPT !.gone = TRUE]
    BY <1>1 DEF TypeOK, Stored
  <2>2. log'[s].key = log[s].key
    BY <1>1, <2>1
  <2> QED
    BY <1>1, <2>1, <2>2 DEF Stored
<1>4. link = "up"
  <2>1. link \in {"up", "down"}
    BY DEF TypeOK
  <2>2. Deleted(s) \in news' /\ Deleted(s).kind # "created"
    BY <1>2 DEF Deleted
  <2> QED
    BY <1>2, <2>1, <2>2 DEF Careful
<1>5. /\ Shown' = Shown /\ Shown \subseteq Stored
      /\ \A n : (Above(n)' <=> Above(n)) /\ (Beyond(n)' <=> Beyond(n))
  BY <1>2, Basics DEF Shown, Above, Beyond
<1>6. ~ Recovering /\ ~ Recovering' /\ \A n : ~ Answering(n) /\ ~ Answering(n)'
  BY <1>0, <1>2, <1>4, NoCall
<1>7. /\ \A n : Created(n) \in news' <=> Created(n) \in news
      /\ \A n : Deleted(n) \in news => Deleted(n) \in news'
      /\ Deleted(s) \in news'
  BY <1>2 DEF Created, Deleted
<1>8. Explained' /\ Consecutive' /\ DraftsAbove' /\ KeysOnce'
  <2>1. \A n : Created(n)' = Created(n)
    BY DEF Created
  <2> QED
    BY <1>0, <1>2, <1>3, <1>5, <1>6, <1>7, <2>1
    DEF Facts, Explained, Consecutive, DraftsAbove, KeysOnce
<1>9. ReadShown' /\ OnePageBehind' /\ HistoryReachable'
  BY <1>0, <1>2, <1>3, <1>5, <1>6 DEF Facts, ReadShown, OnePageBehind, HistoryReachable
<1>10. FailedCarried'
  BY <1>0, <1>2, <1>3 DEF Facts, FailedCarried, Carries
<1>11. GoneExplained'
  <2>1. ASSUME NEW n \in Shown, log'[n].gone, ~ thread.rows[n] PROVE Deleted(n) \in news'
    BY <1>0, <1>3, <1>5, <1>6, <1>7, <2>1 DEF Facts, GoneExplained
  <2>2. ASSUME NEW n \in Stored, Created(n) \in news'
        PROVE  log'[n].key = Theirs /\ (log'[n].gone => Deleted(n) \in news')
    BY <1>0, <1>3, <1>7, <2>2 DEF Facts, GoneExplained
  <2> QED
    BY <1>2, <1>3, <1>5, <2>1, <2>2 DEF GoneExplained, Created, Deleted
<1>12. Facts'
  BY <1>8, <1>9, <1>10, <1>11 DEF Facts
<1> QED
  BY <1>0, <1>2, <1>12, NoCallCareful

\* In a careful environment every step keeps it.
LEMMA NextCareful ==
    ASSUME TypeOK, IInv, CarefulInv, TypeOK', IInv', CarefulNext
    PROVE  CarefulInv'
<1>1. Next /\ OneCall /\ Lucky /\ Careful
  BY DEF CarefulNext
<1>2. ASSUME NEW j \in Jobs, Call(j) \/ Serve(j) \/ Respond(j) PROVE CarefulInv'
  BY <1>1, <1>2, CallCareful, ServeCareful, RespondCareful
<1>3. ASSUME HandleEvent \/ Miss \/ Disconnect \/ TheySend \/ TheyDelete PROVE CarefulInv'
  BY <1>1, <1>3, CreatedCareful, DeletedCareful, LostCareful, SentCareful, TheirsCareful
  DEF HandleEvent
<1> QED
  BY <1>1, <1>2, <1>3 DEF Next

\* A careful environment is one of those of Spec.
LEMMA CarefulIsSpec == CarefulSpec => Spec
<1>1. [CarefulNext]_vars => [Next]_vars
  BY DEF CarefulNext
<1> QED
  BY <1>1, PTL DEF CarefulSpec, Spec

\* The inductive invariant of a careful environment: what the thread lacks from
\* its oldest message on is announced, a draft, or about to be recovered, and
\* what the call in flight has read still holds (store/chat.ts,
\* recoverMissedMessages, loadOlder, applyIncomingMessage).
THEOREM CarefulInvariant == CarefulSpec => []CarefulInv
<1>1. Init => CarefulInv
  <2> SUFFICES ASSUME Init PROVE CarefulInv
    OBVIOUS
  <2>1. /\ readTo = 0 /\ news = {} /\ thread = EmptyThread /\ link = "down"
        /\ \A j \in Jobs : job[j] = Idle
    BY DEF Init
  <2>2. PICK n \in 0..MaxSeq : log = [s \in 1..n |-> [key |-> Theirs, gone |-> FALSE]]
    BY DEF Init
  <2>3. Len(log) = n /\ Stored = 1..n /\ \A s \in Stored : log[s].key = Theirs
    BY <2>2, StoreAssumption DEF Stored
  <2>4. Shown = {} /\ thread.drafts = {} /\ thread.failed = {}
    BY <2>1 DEF EmptyThread, NoRows, Shown
  <2>5. Explained /\ Consecutive /\ DraftsAbove /\ FailedCarried
    BY <2>1, <2>4 DEF Explained, Consecutive, DraftsAbove, FailedCarried, Above
  <2>6. ReadShown /\ KeysOnce
    BY <2>1, <2>3, <2>4 DEF ReadShown, KeysOnce, Beyond
  <2>7. GoneExplained /\ OnePageBehind /\ HistoryReachable
    BY <2>1, <2>4 DEF GoneExplained, OnePageBehind, HistoryReachable
  <2>8. Facts
    BY <2>5, <2>6, <2>7 DEF Facts
  <2> QED
    BY <2>1, <2>8, IdleIsFresh DEF CarefulInv, Single
<1>2. ASSUME TypeOK, IInv, CarefulInv, UNCHANGED vars PROVE CarefulInv'
  <2>1. /\ log' = log /\ readTo' = readTo /\ link' = link /\ news' = news
        /\ thread' = thread /\ job' = job
    BY <1>2 DEF vars
  <2>2. /\ Shown' = Shown /\ Stored' = Stored /\ (Recovering' <=> Recovering)
        /\ \A s : (Above(s)' <=> Above(s)) /\ (Beyond(s)' <=> Beyond(s))
        /\ \A s : Answering(s)' <=> Answering(s)
    BY <2>1 DEF Shown, Stored, Recovering, Above, Beyond, Answering
  <2>3. Facts'
    BY <1>2, <2>1, <2>2, Quiet DEF CarefulInv
  <2>4. ASSUME NEW j \in Jobs PROVE Fresh(job[j])'
    <3>1. Fresh(job[j])
      BY <1>2 DEF CarefulInv
    <3> QED
      BY <2>1, <2>2, <3>1
      DEF Fresh, Snapshot, Before, MoreBefore, After, Stored, Oldest, Newest, Carries
  <2>5. Single'
    BY <1>2, <2>1 DEF CarefulInv, Single
  <2> QED
    BY <2>3, <2>4, <2>5 DEF CarefulInv
<1>3. TypeOK /\ IInv /\ CarefulInv /\ TypeOK' /\ IInv' /\ [CarefulNext]_vars => CarefulInv'
  BY <1>2, NextCareful
<1>4. CarefulSpec => []TypeOK /\ []IInv
  BY CarefulIsSpec, TypeCorrect, Invariant, PTL
<1> QED
  BY <1>1, <1>3, <1>4, PTL DEF CarefulSpec

\* "Gap recovery closes the window" (store/chat.ts, recoverMissedMessages): when
\* everything has arrived, an open thread has all from its oldest message on.
THEOREM ClosesGaps == CarefulSpec => []GapsClosed
<1>1. TypeOK /\ IInv /\ CarefulInv => GapsClosed
  <2> SUFFICES ASSUME TypeOK, IInv, CarefulInv, Settled, Shown # {},
                      NEW s \in Oldest(thread)..Len(log)
               PROVE  s \in Shown
    BY DEF GapsClosed
  <2>0. PICK first : first = Oldest(thread)
    OBVIOUS
  <2>1. first \in Shown /\ Shown \subseteq Stored /\ Stored = 1..Len(log) /\ Len(log) \in Nat
    BY <2>0, EndFacts, Basics
  <2>2. s \in Stored /\ Above(s)
    <3>1. first \in Nat /\ 1 <= first /\ s \in first..Len(log)
      BY <2>0, <2>1
    <3>2. s \in 1..Len(log) /\ first <= s
      BY <2>1, <3>1
    <3> QED
      BY <2>1, <3>2 DEF Above
  <2>3. ~ Recovering
    BY DEF Settled, Recovering, Idle
  <2> QED
    BY <2>2, <2>3 DEF CarefulInv, Facts, Explained, Settled
<1> QED
  BY <1>1, CarefulIsSpec, TypeCorrect, Invariant, CarefulInvariant, PTL

\* A deletion arrives, by its event, by the recovery or by the answer to it
\* (store/chat.ts, applyDeletedMessage and deleteMessage).
THEOREM ShowsDeletions == CarefulSpec => []DeletionsArrive
<1>1. TypeOK /\ IInv /\ CarefulInv => DeletionsArrive
  <2> SUFFICES ASSUME TypeOK, IInv, CarefulInv, Settled, NEW s \in Shown
               PROVE  thread.rows[s] = log[s].gone
    BY DEF DeletionsArrive
  <2>1. /\ s \in Stored /\ thread.rows[s] \in BOOLEAN /\ log[s].gone \in BOOLEAN
        /\ (thread.rows[s] => log[s].gone)
    BY Basics
  <2>2. ~ Answering(s) /\ Deleted(s) \notin news
    BY DEF Settled, Answering, Idle
  <2>3. log[s].gone => thread.rows[s]
    BY <2>2 DEF CarefulInv, Facts, GoneExplained
  <2> QED
    BY <2>1, <2>3
<1> QED
  BY <1>1, CarefulIsSpec, TypeCorrect, Invariant, CarefulInvariant, PTL

\* A thread that lacks older messages can ask for them (loadOlder, has_more).
THEOREM ReachesHistory == CarefulSpec => []HistoryReachable
<1>1. CarefulInv => HistoryReachable
  BY DEF CarefulInv, Facts
<1> QED
  BY <1>1, CarefulInvariant, PTL

\* What is reported as read is shown, about to be, or older and within reach
\* (markRead sends the newest message of the thread).
THEOREM ReadIsSeen == CarefulSpec => []NothingUnseenIsRead
<1>1. TypeOK /\ IInv /\ CarefulInv => NothingUnseenIsRead
  <2> SUFFICES ASSUME TypeOK, IInv, CarefulInv, NEW s \in 1..readTo, Shown # {},
                      log[s].key = Theirs, s \notin Shown, Created(s) \notin news
               PROVE  s < Oldest(thread) /\ thread.hasMore
    BY DEF NothingUnseenIsRead, Created
  <2>1. /\ Shown \subseteq Stored /\ Stored = 1..Len(log) /\ Len(log) \in Nat /\ readTo \in Nat
        /\ thread.drafts \subseteq Keys /\ Theirs \notin Keys
    BY Basics
  <2>2. PICK first \in Shown : first = Oldest(thread) /\ \A n \in Shown : first <= n
    BY EndFacts
  <2>3. s \in Stored
    BY <2>1 DEF CarefulInv, Facts, ReadShown
  <2>4. ~ Beyond(s)
    BY <2>1, <2>3 DEF CarefulInv, Facts, ReadShown
  <2>5. ~ Above(s)
    BY <2>1, <2>3, <2>4 DEF CarefulInv, Facts, Explained
  <2>6. s < first
    <3>1. ~ (first <= s)
      BY <2>5 DEF Above
    <3> QED
      BY <2>1, <2>3, <3>1
  <2>7. 1 \notin Shown
    <3>1. ~ (first <= 1)
      BY <2>1, <2>3, <2>6
    <3> QED
      BY <2>2, <3>1
  <2> QED
    BY <2>2, <2>6, <2>7 DEF CarefulInv, Facts, HistoryReachable
<1> QED
  BY <1>1, CarefulIsSpec, TypeCorrect, Invariant, CarefulInvariant, PTL

===============================================================================
