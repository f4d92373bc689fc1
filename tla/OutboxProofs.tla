----------------------------- MODULE OutboxProofs -----------------------------
(* Exactly-once delivery and true marks, for any number of messages, tabs *)
(* and sends that overlap.                                                *)
EXTENDS Outbox, TLAPS

\* What the device or the server holds.
Kept == queue \cup Stored

\* A send is at work on something kept, and believes it stored when it is.
Sound(x) ==
    /\ x.step \in {"post", "answered", "failed", "dequeue", "orphan"} => x.key \in Kept
    /\ x.step \in {"answered", "dequeue"} => x.key \in Stored

AllSound == \A s \in Senders : Sound(sender[s])

\* A message that is being put in the outbox is nowhere else, and nobody else's.
Fresh ==
    \A s \in Senders : sender[s].step = "enqueue" =>
        /\ sender[s].key \in RangeOf(written) \ Kept
        /\ \A t \in Tabs : sender[s].key \in DOMAIN shown[t] => t = sender[s].tab
        /\ \A x \in Senders : sender[x].step = "enqueue" /\ x # s => sender[x].key # sender[s].key

\* Nothing is kept or shown that was not written; a flush takes from the outbox.
Known ==
    /\ Kept \subseteq RangeOf(written)
    /\ \A t \in Tabs : DOMAIN shown[t] \subseteq RangeOf(written)
    /\ \A s \in Senders :
          sender[s].step \in {"post", "answered", "failed", "dequeue", "loop"} =>
              sender[s].rest \subseteq Kept

\* Somebody is at work on the entry who will also take its clock away.
AtWork(t, k, x) ==
    /\ x.step \in {"enqueue", "post", "answered", "failed"}
    /\ x.tab = t /\ x.key = k
    /\ x.step # "enqueue" => x.seen

MarkTrue(t, k) ==
    /\ shown[t][k].mark = "none" => k \in Stored
    /\ shown[t][k].mark = "failed" => k \in Kept
    /\ shown[t][k].mark = "pending" => (\E s \in Senders : AtWork(t, k, sender[s])) \/ k \notin Kept

MarksTrue == \A t \in Tabs : \A k \in DOMAIN shown[t] : MarkTrue(t, k)

IInv == TypeOK /\ AllSound /\ Fresh /\ Known /\ MarksTrue

-------------------------------------------------------------------------------
(* Threads *)

\* What an entry put into the thread changes there.
LEMMA PutFacts ==
    ASSUME NEW f \in Thread, NEW x \in Keys, NEW v \in Entry
    PROVE  /\ Put(f, x, v) \in Thread
           /\ DOMAIN Put(f, x, v) = DOMAIN f \cup {x}
           /\ Put(f, x, v)[x] = v
           /\ \A y \in DOMAIN f : y # x => Put(f, x, v)[y] = f[y]
<1>1. PICK S \in SUBSET Keys : f \in [S -> Entry]
  BY DEF Thread
<1>2. Put(f, x, v) \in [S \cup {x} -> Entry]
  BY <1>1 DEF Put
<1>3. S \cup {x} \in SUBSET Keys
  BY <1>1
<1> QED
  BY <1>1, <1>2, <1>3 DEF Put, Thread

\* A draft is pending, and what the server answered is real.
LEMMA EntryFacts ==
    /\ Draft \in Entry /\ Draft.mark = "pending"
    /\ Saved \in Entry /\ Saved.mark = "none"
  BY DEF Draft, Saved, Entry, Marks

\* The thread that shows nothing.
LEMMA NoEntryFacts == NoEntry \in Thread /\ DOMAIN NoEntry = {}
<1>1. NoEntry \in [{} -> Entry] /\ DOMAIN NoEntry = {}
  BY DEF NoEntry
<1>2. {} \in SUBSET Keys
  OBVIOUS
<1> QED
  BY <1>1, <1>2 DEF Thread

\* Marking changes one mark, and no entry comes or goes.
LEMMA MarkedFacts ==
    ASSUME shown \in [Tabs -> Thread], NEW t \in Tabs, NEW k, NEW mark \in Marks
    PROVE  /\ Marked(t, k, mark) \in [Tabs -> Thread]
           /\ \A u \in Tabs : DOMAIN Marked(t, k, mark)[u] = DOMAIN shown[u]
           /\ \A u \in Tabs : \A q \in DOMAIN shown[u] :
                 u # t \/ q # k => Marked(t, k, mark)[u][q] = shown[u][q]
           /\ k \in DOMAIN shown[t] => Marked(t, k, mark)[t][k].mark = mark
<1>1. CASE k \in DOMAIN shown[t]
  <2>1. PICK S \in SUBSET Keys : shown[t] \in [S -> Entry]
    BY DEF Thread
  <2>2. shown[t][k] \in Entry /\ k \in S
    BY <1>1, <2>1
  <2>3. [shown[t][k] EXCEPT !.mark = mark] \in Entry /\ [shown[t][k] EXCEPT !.mark = mark].mark = mark
    BY <2>2 DEF Entry
  <2> DEFINE f == [shown[t] EXCEPT ![k] = [shown[t][k] EXCEPT !.mark = mark]]
  <2>4. f \in [S -> Entry] /\ f[k].mark = mark /\ \A q \in S : q # k => f[q] = shown[t][q]
    BY <2>1, <2>2, <2>3
  <2>5. f \in Thread /\ DOMAIN f = DOMAIN shown[t]
    BY <2>1, <2>4 DEF Thread
  <2>6. Marked(t, k, mark) = [shown EXCEPT ![t] = f]
    BY <1>1 DEF Marked
  <2> QED
    BY <2>1, <2>4, <2>5, <2>6
<1>2. CASE k \notin DOMAIN shown[t]
  BY <1>2 DEF Marked
<1> QED
  BY <1>1, <1>2

\* What a tab shows are keys.
LEMMA ShownKeys == ASSUME TypeOK, NEW t \in Tabs PROVE DOMAIN shown[t] \subseteq Keys
<1>1. shown[t] \in Thread
  BY DEF TypeOK
<1> QED
  BY <1>1 DEF Thread

\* What is in a queue has the queue's type.
LEMMA RangeType == ASSUME NEW S, NEW q \in Seq(S) PROVE RangeOf(q) \subseteq S
  BY DEF RangeOf

\* What is in a queue after something was put at its end.
LEMMA AppendRange ==
    ASSUME NEW S, NEW q \in Seq(S), NEW e \in S
    PROVE  Append(q, e) \in Seq(S) /\ RangeOf(Append(q, e)) = RangeOf(q) \cup {e}
<1>1. Append(q, e) \in Seq(S) /\ Len(q) \in Nat /\ Len(Append(q, e)) = Len(q) + 1
  OBVIOUS
<1>2. 1..(Len(q) + 1) = 1..Len(q) \cup {Len(q) + 1}
  BY <1>1
<1>3. \A i \in 1..Len(q) : Append(q, e)[i] = q[i]
  OBVIOUS
<1>4. Append(q, e)[Len(q) + 1] = e
  OBVIOUS
<1> QED
  BY <1>1, <1>2, <1>3, <1>4 DEF RangeOf

-------------------------------------------------------------------------------
(* What one step of a sender must show *)

\* The step of one sender, which may add its own new message to what is kept.
LEMMA StepKeeps ==
    ASSUME IInv, NEW s \in Senders, NEW next \in Sender, next.step # "enqueue", Become(s, next),
           rows' \in Seq(Keys), queue' \subseteq Keys, doomed' = doomed, written' = written,
           Kept \subseteq Kept', Stored \subseteq Stored',
           \A k \in Kept' \ Kept : sender[s].step = "enqueue" /\ sender[s].key = k,
           next.step \in {"post", "answered", "failed", "dequeue", "orphan"} => next.key \in Kept',
           next.step \in {"answered", "dequeue"} => next.key \in Stored',
           next.step \in {"post", "answered", "failed", "dequeue", "loop"} => next.rest \subseteq Kept,
           shown' \in [Tabs -> Thread],
           \A t \in Tabs : DOMAIN shown'[t] \subseteq DOMAIN shown[t] \cup Stored,
           \A t \in Tabs : \A k \in DOMAIN shown'[t] :
              \/ MarkTrue(t, k)'
              \/ /\ k \in DOMAIN shown[t] /\ shown'[t][k] = shown[t][k]
                 /\ k \in Kept' => k \in Kept
                 /\ AtWork(t, k, sender[s]) => AtWork(t, k, next) \/ k \notin Kept'
    PROVE  IInv'
<1>1. sender' = [sender EXCEPT ![s] = next] /\ sender \in [Senders -> Sender]
  BY DEF Become, IInv, TypeOK
<1>2. sender'[s] = next /\ \A x \in Senders : x # s => sender'[x] = sender[x]
  BY <1>1
<1>3. TypeOK'
  BY <1>1 DEF IInv, TypeOK
<1>4. AllSound'
  BY <1>2 DEF IInv, AllSound, Sound
<1>5. ASSUME NEW x \in Senders, sender'[x].step = "enqueue"
      PROVE  /\ x # s /\ sender'[x] = sender[x] /\ sender[x].key \notin Kept'
             /\ sender[x].key \notin Stored
  <2>1. x # s /\ sender'[x] = sender[x]
    BY <1>2, <1>5
  <2>2. sender[x].key \notin Kept
    BY <1>5, <2>1 DEF IInv, Fresh
  <2>3. sender[s].step = "enqueue" => sender[s].key # sender[x].key
    BY <1>5, <2>1 DEF IInv, Fresh
  <2> QED
    BY <2>1, <2>2, <2>3 DEF Kept
<1>6. Fresh'
  <2> SUFFICES ASSUME NEW x \in Senders, sender'[x].step = "enqueue"
               PROVE  /\ sender'[x].key \in RangeOf(written') \ Kept'
                      /\ \A t \in Tabs : sender'[x].key \in DOMAIN shown'[t] => t = sender'[x].tab
                      /\ \A y \in Senders : sender'[y].step = "enqueue" /\ y # x =>
                             sender'[y].key # sender'[x].key
    BY DEF Fresh, RangeOf
  <2>1. /\ sender'[x] = sender[x] /\ sender[x].key \notin Kept' /\ sender[x].key \notin Stored
    BY <1>5
  <2>2. sender[x].key \in RangeOf(written)
    BY <2>1 DEF IInv, Fresh
  <2>3. ASSUME NEW t \in Tabs, sender[x].key \in DOMAIN shown'[t] PROVE t = sender[x].tab
    <3>1. sender[x].key \in DOMAIN shown[t]
      BY <2>1, <2>3
    <3> QED
      BY <2>1, <3>1 DEF IInv, Fresh
  <2>4. ASSUME NEW y \in Senders, sender'[y].step = "enqueue", y # x
        PROVE  sender'[y].key # sender'[x].key
    <3>1. sender'[y] = sender[y]
      BY <1>5, <2>4
    <3> QED
      BY <2>1, <2>4, <3>1 DEF IInv, Fresh
  <2> QED
    BY <2>1, <2>2, <2>3, <2>4
<1>7. Known'
  <2>1. Kept' \subseteq RangeOf(written) /\ Stored \subseteq RangeOf(written)
    BY DEF IInv, Fresh, Known, Kept
  <2>2. RangeOf(written)' = RangeOf(written)
    BY DEF RangeOf
  <2>3. \A t \in Tabs : DOMAIN shown'[t] \subseteq RangeOf(written)
    BY <2>1 DEF IInv, Known
  <2>4. \A x \in Senders :
          sender'[x].step \in {"post", "answered", "failed", "dequeue", "loop"} =>
              sender'[x].rest \subseteq Kept'
    BY <1>2 DEF IInv, Known
  <2> QED
    BY <2>1, <2>2, <2>3, <2>4 DEF Known
<1>8. ASSUME NEW t \in Tabs, NEW k \in DOMAIN shown'[t] PROVE MarkTrue(t, k)'
  <2> SUFFICES ASSUME k \in DOMAIN shown[t], shown'[t][k] = shown[t][k],
                      k \in Kept' => k \in Kept,
                      AtWork(t, k, sender[s]) => AtWork(t, k, next) \/ k \notin Kept'
               PROVE  MarkTrue(t, k)'
    BY <1>8
  <2>1. MarkTrue(t, k)
    BY DEF IInv, MarksTrue
  <2>2. ASSUME NEW x \in Senders, AtWork(t, k, sender[x]), k \in Kept'
        PROVE  \E y \in Senders : AtWork(t, k, sender'[y])
    <3>1. AtWork(t, k, sender'[x])
      BY <1>2, <2>2
    <3> QED
      BY <3>1
  <2>3. shown[t][k].mark = "pending" => (\E y \in Senders : AtWork(t, k, sender'[y])) \/ k \notin Kept'
    BY <2>1, <2>2 DEF MarkTrue
  <2>4. (\E y \in Senders : AtWork(t, k, sender'[y])) <=> (\E y \in Senders : AtWork(t, k, sender[y]))'
    BY DEF AtWork
  <2> QED
    BY <2>1, <2>3, <2>4 DEF MarkTrue
<1> QED
  BY <1>3, <1>4, <1>6, <1>7, <1>8 DEF IInv, MarksTrue

\* A step that leaves the thread alone.
LEMMA QuietKeeps ==
    ASSUME IInv, NEW s \in Senders, NEW next \in Sender, next.step # "enqueue", Become(s, next),
           shown' = shown, rows' \in Seq(Keys), queue' \subseteq Keys,
           doomed' = doomed, written' = written, Kept' = Kept, Stored \subseteq Stored',
           next.step \in {"post", "answered", "failed", "dequeue", "orphan"} => next.key \in Kept,
           next.step \in {"answered", "dequeue"} => next.key \in Stored',
           next.step \in {"post", "answered", "failed", "dequeue", "loop"} => next.rest \subseteq Kept,
           \A t \in Tabs : \A k \in DOMAIN shown[t] :
              AtWork(t, k, sender[s]) => AtWork(t, k, next) \/ k \notin Kept
    PROVE  IInv'
<1>1. shown' \in [Tabs -> Thread]
  BY DEF IInv, TypeOK
<1> QED
  BY <1>1, StepKeeps

\* A call is made, by a retry or by a flush.
LEMMA PostKeeps ==
    ASSUME IInv, NEW s \in Senders, NEW t \in Tabs, NEW k \in Keys, NEW rest \in SUBSET Keys,
           Post(s, t, k, rest), rows' = rows, doomed' = doomed, written' = written,
           queue' \subseteq Keys, Kept \subseteq Kept', k \in Kept', rest \subseteq Kept,
           \A q \in Kept' \ Kept : sender[s].step = "enqueue" /\ sender[s].key = q,
           sender[s].step \in {"enqueue", "post", "answered", "failed"} =>
               sender[s].tab = t /\ sender[s].key = k
    PROVE  IInv'
<1> DEFINE there == k \in DOMAIN shown[t]
           next == [step |-> "post", tab |-> t, key |-> k, seen |-> there, rest |-> rest]
<1>1. there \in BOOLEAN
  OBVIOUS
<1>2. Become(s, next) /\ shown' = Marked(t, k, "pending")
  BY DEF Post
<1> HIDE DEF there
<1>3. next \in Sender /\ next.step = "post" /\ next.tab = t /\ next.key = k /\ next.rest = rest
  BY <1>1 DEF Sender
<1>4. next.seen = there
  OBVIOUS
<1> HIDE DEF next
<1>5. shown \in [Tabs -> Thread] /\ "pending" \in Marks
  BY DEF IInv, TypeOK, Marks
<1>6. /\ shown' \in [Tabs -> Thread]
      /\ \A u \in Tabs : DOMAIN shown'[u] = DOMAIN shown[u]
      /\ \A u \in Tabs : \A q \in DOMAIN shown[u] : u # t \/ q # k => shown'[u][q] = shown[u][q]
      /\ there => shown'[t][k].mark = "pending"
  BY <1>2, <1>5, MarkedFacts DEF there
<1>7. sender'[s] = next
  BY <1>2 DEF Become, IInv, TypeOK
<1>8. there => MarkTrue(t, k)'
  <2> SUFFICES ASSUME there PROVE MarkTrue(t, k)'
    OBVIOUS
  <2>1. AtWork(t, k, sender'[s])
    BY <1>3, <1>4, <1>7 DEF AtWork
  <2>2. (\E y \in Senders : AtWork(t, k, sender[y]))'
    BY <2>1 DEF AtWork
  <2> QED
    BY <1>6, <2>2 DEF MarkTrue
<1>9. ASSUME NEW u \in Tabs, NEW q \in DOMAIN shown'[u], u # t \/ q # k
      PROVE  /\ q \in DOMAIN shown[u] /\ shown'[u][q] = shown[u][q]
             /\ q \in Kept' => q \in Kept
             /\ ~ AtWork(u, q, sender[s])
  <2>1. q \in DOMAIN shown[u] /\ shown'[u][q] = shown[u][q]
    BY <1>6, <1>9
  <2>2. q \in Kept' => q \in Kept
    <3> SUFFICES ASSUME q \in Kept' \ Kept PROVE FALSE
      OBVIOUS
    <3>1. sender[s].step = "enqueue" /\ sender[s].key = q /\ sender[s].tab = t /\ q = k
      OBVIOUS
    <3>2. u = t
      BY <2>1, <3>1 DEF IInv, Fresh
    <3> QED
      BY <1>9, <3>1, <3>2
  <2> QED
    BY <1>9, <2>1, <2>2 DEF AtWork
<1>10. \A u \in Tabs : \A q \in DOMAIN shown'[u] :
          \/ MarkTrue(u, q)'
          \/ /\ q \in DOMAIN shown[u] /\ shown'[u][q] = shown[u][q]
             /\ q \in Kept' => q \in Kept
             /\ AtWork(u, q, sender[s]) => AtWork(u, q, next) \/ q \notin Kept'
  BY <1>6, <1>8, <1>9 DEF there
<1>11. rows' \in Seq(Keys) /\ Stored \subseteq Stored'
  BY DEF IInv, TypeOK, Stored, RangeOf
<1> QED
  BY <1>2, <1>3, <1>6, <1>10, <1>11, StepKeeps

-------------------------------------------------------------------------------
(* One lemma per action *)

\* What the fields of a sender are.
LEMMA SenderFields ==
    ASSUME TypeOK, NEW s \in Senders
    PROVE  /\ sender[s] \in Sender
           /\ sender[s].step \in {"enqueue", "post", "answered", "failed", "dequeue", "loop", "open"} =>
                  sender[s].tab \in Tabs
           /\ sender[s].step \in {"enqueue", "post", "answered", "failed", "dequeue", "orphan"} =>
                  sender[s].key \in Keys
           /\ sender[s].step \in {"post", "answered", "failed", "dequeue"} =>
                  /\ sender[s].seen \in BOOLEAN /\ sender[s].rest \in SUBSET Keys
                  /\ sender[s] = [step |-> sender[s].step, tab |-> sender[s].tab,
                                  key |-> sender[s].key, seen |-> sender[s].seen,
                                  rest |-> sender[s].rest]
           /\ sender[s].step = "loop" => sender[s].rest \in SUBSET Keys
<1>1. sender[s] \in Sender
  BY DEF TypeOK
<1> QED
  BY <1>1 DEF Sender, Idle

\* A sender that is not at work.
LEMMA IdleFacts == Idle \in Sender /\ Idle.step = "idle"
  BY DEF Idle, Sender

\* The rest of a flush.
LEMMA GoOnFacts ==
    ASSUME NEW t \in Tabs, NEW rest \in SUBSET Keys
    PROVE  /\ GoOn(t, rest) \in Sender
           /\ GoOn(t, rest).step \in {"idle", "loop"}
           /\ GoOn(t, rest).step = "loop" => GoOn(t, rest).rest = rest
<1>1. CASE rest = {}
  BY <1>1 DEF GoOn, Sender, Idle
<1>2. CASE rest # {}
  BY <1>2 DEF GoOn, Sender
<1> QED
  BY <1>1, <1>2

\* A new message is a draft in the thread and still to be queued.
LEMMA SendMessageKeeps ==
    ASSUME IInv, NEW s \in Senders, NEW t \in Tabs, SendMessage(s, t)
    PROVE  IInv'
<1> DEFINE k == NewKey
<1>1. k \in Keys /\ k \notin RangeOf(written)
  BY DEF SendMessage, NewKey
<1> HIDE DEF k
<1> DEFINE next == [step |-> "enqueue", tab |-> t, key |-> k]
<1>2. /\ sender[s] = Idle
      /\ written' = Append(written, k)
      /\ shown' = [shown EXCEPT ![t] = Put(shown[t], k, Draft)]
      /\ sender' = [sender EXCEPT ![s] = next]
      /\ rows' = rows /\ queue' = queue
      /\ doomed' = doomed \/ doomed' = doomed \cup {k}
  BY DEF SendMessage, Become, k
<1>3. next \in Sender /\ next.step = "enqueue" /\ next.tab = t /\ next.key = k
  BY <1>1 DEF Sender
<1>4. /\ sender \in [Senders -> Sender] /\ shown \in [Tabs -> Thread]
      /\ written \in Seq(Keys) /\ shown[t] \in Thread
  BY DEF IInv, TypeOK
<1> HIDE DEF next
<1>5. sender'[s] = next /\ \A x \in Senders : x # s => sender'[x] = sender[x]
  BY <1>2, <1>4
<1>6. written' \in Seq(Keys) /\ RangeOf(written)' = RangeOf(written) \cup {k}
  BY <1>1, <1>2, <1>4, AppendRange DEF RangeOf
<1>7. /\ shown' \in [Tabs -> Thread]
      /\ DOMAIN shown'[t] = DOMAIN shown[t] \cup {k}
      /\ shown'[t][k].mark = "pending"
      /\ \A q \in DOMAIN shown[t] : q # k => shown'[t][q] = shown[t][q]
      /\ \A u \in Tabs : u # t => shown'[u] = shown[u]
  <2> DEFINE f == Put(shown[t], k, Draft)
  <2>1. /\ f \in Thread /\ DOMAIN f = DOMAIN shown[t] \cup {k} /\ f[k] = Draft
        /\ \A q \in DOMAIN shown[t] : q # k => f[q] = shown[t][q]
    <3>1. Draft \in Entry /\ k \in Keys /\ shown[t] \in Thread
      BY <1>1, <1>4, EntryFacts
    <3> QED
      BY <3>1, PutFacts, Zenon
  <2>2. shown' = [shown EXCEPT ![t] = f]
    BY <1>2
  <2> HIDE DEF f
  <2>3. shown' \in [Tabs -> Thread] /\ shown'[t] = f /\ \A u \in Tabs : u # t => shown'[u] = shown[u]
    BY <1>4, <2>1, <2>2
  <2> QED
    BY <2>1, <2>3, EntryFacts
<1>8. Kept' = Kept /\ Stored' = Stored /\ k \notin Kept
  BY <1>1, <1>2 DEF Kept, Stored, RangeOf, IInv, Known
<1>9. TypeOK'
  <2>1. doomed' \subseteq Keys
    BY <1>1, <1>2 DEF IInv, TypeOK
  <2> QED
    BY <1>2, <1>3, <1>4, <1>6, <1>7, <2>1 DEF IInv, TypeOK
<1>10. AllSound'
  BY <1>3, <1>5, <1>8 DEF IInv, AllSound, Sound
<1>11. Fresh'
  <2> SUFFICES ASSUME NEW x \in Senders, sender'[x].step = "enqueue"
               PROVE  /\ sender'[x].key \in RangeOf(written)' \ Kept'
                      /\ \A u \in Tabs : sender'[x].key \in DOMAIN shown'[u] => u = sender'[x].tab
                      /\ \A y \in Senders : sender'[y].step = "enqueue" /\ y # x =>
                             sender'[y].key # sender'[x].key
    BY DEF Fresh
  <2>1. \A y \in Senders : y # s /\ sender'[y].step = "enqueue" => sender'[y].key # k
    BY <1>1, <1>5 DEF IInv, Fresh
  <2>2. \A u \in Tabs : k \notin DOMAIN shown[u]
    BY <1>1 DEF IInv, Known
  <2>3. CASE x = s
    BY <1>3, <1>5, <1>6, <1>7, <1>8, <2>1, <2>2, <2>3
  <2>4. CASE x # s
    BY <1>3, <1>5, <1>6, <1>7, <1>8, <2>1, <2>4 DEF IInv, Fresh
  <2> QED
    BY <2>3, <2>4
<1>12. Known'
  <2>1. Kept' \subseteq RangeOf(written)' /\ \A u \in Tabs : DOMAIN shown'[u] \subseteq RangeOf(written)'
    BY <1>6, <1>7, <1>8 DEF IInv, Known
  <2>2. \A x \in Senders :
          sender'[x].step \in {"post", "answered", "failed", "dequeue", "loop"} =>
              sender'[x].rest \subseteq Kept'
    BY <1>3, <1>5, <1>8 DEF IInv, Known
  <2> QED
    BY <2>1, <2>2 DEF Known
<1>13. ASSUME NEW u \in Tabs, NEW q \in DOMAIN shown'[u] PROVE MarkTrue(u, q)'
  <2>1. CASE u = t /\ q = k
    BY <1>7, <1>8, <2>1 DEF MarkTrue
  <2>2. CASE u # t \/ q # k
    <3>1. q \in DOMAIN shown[u] /\ shown'[u][q] = shown[u][q]
      BY <1>7, <1>13, <2>2
    <3>2. MarkTrue(u, q)
      BY <3>1 DEF IInv, MarksTrue
    <3>3. ASSUME NEW x \in Senders, AtWork(u, q, sender[x]) PROVE AtWork(u, q, sender'[x])
      BY <1>2, <1>5, <3>3, IdleFacts DEF AtWork
    <3>4. (\E x \in Senders : AtWork(u, q, sender[x])) => (\E x \in Senders : AtWork(u, q, sender[x]))'
      BY <3>3 DEF AtWork
    <3> QED
      BY <1>8, <3>1, <3>2, <3>4 DEF MarkTrue
  <2> QED
    BY <2>1, <2>2
<1> QED
  BY <1>9, <1>10, <1>11, <1>12, <1>13 DEF IInv, MarksTrue

\* A retry marks the draft as pending and sends it again.
LEMMA RetryMessageKeeps ==
    ASSUME IInv, NEW s \in Senders, NEW t \in Tabs, RetryMessage(s, t)
    PROVE  IInv'
<1>1. PICK k \in DOMAIN shown[t] : shown[t][k].mark = "failed" /\ Post(s, t, k, {})
  BY DEF RetryMessage
<1>2. rows' = rows /\ doomed' = doomed /\ written' = written /\ queue' = queue /\ sender[s] = Idle
  BY DEF RetryMessage
<1>3. k \in Keys /\ TypeOK
  BY ShownKeys DEF IInv
<1>4. k \in Kept
  BY <1>1 DEF IInv, MarksTrue, MarkTrue
<1>5. Kept' = Kept
  BY <1>2 DEF Kept, Stored, RangeOf
<1>6. queue' \subseteq Keys
  BY <1>2, <1>3 DEF TypeOK
<1>7. {} \in SUBSET Keys /\ {} \subseteq Kept
  OBVIOUS
<1>8. sender[s].step \notin {"enqueue", "post", "answered", "failed"}
  BY <1>2, IdleFacts
<1> HIDE <1>2
<1> QED
  BY <1>1, <1>2, <1>3, <1>4, <1>5, <1>6, <1>7, <1>8, PostKeeps

\* A flush begins with what is in the queue.
LEMMA FlushKeeps ==
    ASSUME IInv, NEW s \in Senders, NEW t \in Tabs, Flush(s, t)
    PROVE  IInv'
<1> DEFINE next == [step |-> "loop", tab |-> t, rest |-> queue]
<1>1. /\ sender[s] = Idle /\ queue # {} /\ Become(s, next)
      /\ rows' = rows /\ doomed' = doomed /\ written' = written /\ queue' = queue /\ shown' = shown
  BY DEF Flush
<1>2. queue \subseteq Keys /\ rows \in Seq(Keys)
  BY DEF IInv, TypeOK
<1>3. next \in Sender /\ next.step = "loop" /\ next.rest = queue
  BY <1>1, <1>2 DEF Sender
<1> HIDE DEF next
<1>4. Kept' = Kept /\ Stored' = Stored /\ queue \subseteq Kept
  BY <1>1 DEF Kept, Stored, RangeOf
<1>5. \A u, q : ~ AtWork(u, q, sender[s])
  BY <1>1, IdleFacts DEF AtWork
<1> QED
  BY <1>1, <1>2, <1>3, <1>4, <1>5, QuietKeeps

\* Asking for the thread changes nothing but the call.
LEMMA OpenThreadKeeps ==
    ASSUME IInv, NEW s \in Senders, NEW t \in Tabs, OpenThread(s, t)
    PROVE  IInv'
<1> DEFINE next == [step |-> "open", tab |-> t]
<1>1. /\ sender[s] = Idle /\ Become(s, next)
      /\ rows' = rows /\ doomed' = doomed /\ written' = written /\ queue' = queue /\ shown' = shown
  BY DEF OpenThread
<1>2. queue \subseteq Keys /\ rows \in Seq(Keys)
  BY DEF IInv, TypeOK
<1>3. next \in Sender /\ next.step = "open"
  BY DEF Sender
<1> HIDE DEF next
<1>4. Kept' = Kept /\ Stored' = Stored
  BY <1>1 DEF Kept, Stored, RangeOf
<1>5. \A u, q : ~ AtWork(u, q, sender[s])
  BY <1>1, IdleFacts DEF AtWork
<1> QED
  BY <1>1, <1>2, <1>3, <1>4, <1>5, QuietKeeps

\* A sender takes its next entry, or ends.
LEMMA LoopKeeps ==
    ASSUME IInv, NEW s \in Senders, Loop(s)
    PROVE  IInv'
<1>1. PICK k \in sender[s].rest : Post(s, sender[s].tab, k, sender[s].rest \ {k})
  BY DEF Loop
<1>2. /\ sender[s].step = "loop"
      /\ rows' = rows /\ doomed' = doomed /\ written' = written /\ queue' = queue
  BY DEF Loop
<1>3. TypeOK
  BY DEF IInv
<1>4. sender[s].tab \in Tabs /\ sender[s].rest \in SUBSET Keys
  BY <1>2, <1>3, SenderFields
<1>5. sender[s].rest \subseteq Kept
  BY <1>2 DEF IInv, Known
<1>6. Kept' = Kept
  BY <1>2 DEF Kept, Stored, RangeOf
<1>7. queue' \subseteq Keys
  BY <1>2, <1>3 DEF TypeOK
<1>8. k \in Keys /\ k \in Kept /\ sender[s].rest \ {k} \in SUBSET Keys /\ sender[s].rest \ {k} \subseteq Kept
  BY <1>4, <1>5
<1>9. sender[s].step \notin {"enqueue", "post", "answered", "failed"}
  BY <1>2
<1> QED
  BY <1>1, <1>2, <1>4, <1>6, <1>7, <1>8, <1>9, PostKeeps

\* The entry is in the queue: the sender goes on to send it.
LEMMA EnqueuedKeeps ==
    ASSUME IInv, NEW s \in Senders, Enqueued(s)
    PROVE  IInv'
<1>1. /\ sender[s].step = "enqueue" /\ queue' = queue \cup {sender[s].key}
      /\ rows' = rows /\ doomed' = doomed /\ written' = written
  BY DEF Enqueued
<1>2. TypeOK
  BY DEF IInv
<1>3. sender[s].tab \in Tabs /\ sender[s].key \in Keys
  BY <1>1, <1>2, SenderFields
<1>4. Kept' = Kept \cup {sender[s].key} /\ Stored' = Stored
  BY <1>1 DEF Kept, Stored, RangeOf
<1>5. queue' \subseteq Keys /\ rows \in Seq(Keys)
  BY <1>1, <1>2, <1>3 DEF TypeOK
<1>6. CASE sender[s].key \in DOMAIN shown[sender[s].tab]
  <2>1. Post(s, sender[s].tab, sender[s].key, {})
    BY <1>6 DEF Enqueued
  <2>2. {} \in SUBSET Keys /\ {} \subseteq Kept
    OBVIOUS
  <2> QED
    BY <1>1, <1>3, <1>4, <1>5, <2>1, <2>2, PostKeeps
<1>7. CASE sender[s].key \notin DOMAIN shown[sender[s].tab]
  <2>1. shown' = shown /\ Become(s, Idle)
    BY <1>7 DEF Enqueued
  <2>2. \A u \in Tabs : sender[s].key \notin DOMAIN shown[u]
    BY <1>1, <1>7 DEF IInv, Fresh
  <2>3. shown' \in [Tabs -> Thread]
    BY <1>2, <2>1 DEF TypeOK
  <2>4. ASSUME NEW u \in Tabs, NEW q \in DOMAIN shown'[u]
        PROVE  /\ q \in DOMAIN shown[u] /\ shown'[u][q] = shown[u][q]
               /\ q \in Kept' => q \in Kept
               /\ ~ AtWork(u, q, sender[s])
    BY <1>4, <2>1, <2>2, <2>4 DEF AtWork
  <2> QED
    BY <1>1, <1>4, <1>5, <2>1, <2>3, <2>4, IdleFacts, StepKeeps
<1> QED
  BY <1>6, <1>7

\* The queue refuses: the draft stays as it is and the sender ends.
LEMMA EnqueueFailsKeeps ==
    ASSUME IInv, NEW s \in Senders, EnqueueFails(s)
    PROVE  IInv'
<1>1. /\ sender[s].step = "enqueue" /\ Become(s, Idle) /\ shown' = shown
      /\ rows' = rows /\ doomed' = doomed /\ written' = written /\ queue' = queue
  BY DEF EnqueueFails
<1>2. queue \subseteq Keys /\ rows \in Seq(Keys)
  BY DEF IInv, TypeOK
<1>3. Kept' = Kept /\ Stored' = Stored
  BY <1>1 DEF Kept, Stored, RangeOf
<1>4. \A u, q : AtWork(u, q, sender[s]) => q \notin Kept
  BY <1>1 DEF AtWork, IInv, Fresh
<1> QED
  BY <1>1, <1>2, <1>3, <1>4, IdleFacts, QuietKeeps

\* The server stores the message, or finds the key stored, or refuses it.
LEMMA ServeKeeps ==
    ASSUME IInv, NEW s \in Senders, Serve(s)
    PROVE  IInv'
<1> DEFINE k == sender[s].key
           next == IF sender[s].step = "orphan" THEN Idle
                   ELSE [sender[s] EXCEPT !.step = IF k \in doomed THEN "failed" ELSE "answered"]
<1>1. /\ sender[s].step \in {"post", "orphan"} /\ Become(s, next)
      /\ rows' = IF k \notin Stored \cup doomed THEN Append(rows, k) ELSE rows
      /\ doomed' = doomed /\ written' = written /\ queue' = queue /\ shown' = shown
  BY DEF Serve
<1>2. TypeOK
  BY DEF IInv
<1>3. queue \subseteq Keys /\ rows \in Seq(Keys) /\ k \in Keys
  BY <1>1, <1>2, SenderFields DEF TypeOK
<1>4. k \in Kept
  BY <1>1 DEF IInv, AllSound, Sound
<1>5. rows' \in Seq(Keys) /\ Stored' = Stored \cup (IF k \in doomed THEN {} ELSE {k})
  <2>1. CASE k \notin Stored \cup doomed
    BY <1>1, <1>3, <2>1, AppendRange DEF Stored, RangeOf
  <2>2. CASE k \in Stored \cup doomed
    BY <1>1, <1>3, <2>2 DEF Stored, RangeOf
  <2> QED
    BY <2>1, <2>2
<1>6. Kept' = Kept
  BY <1>1, <1>4, <1>5 DEF Kept
<1>7. CASE sender[s].step = "orphan"
  <2>1. next = Idle
    BY <1>7
  <2> HIDE DEF next
  <2>2. \A u, q : ~ AtWork(u, q, sender[s])
    BY <1>7 DEF AtWork
  <2> QED
    BY <1>1, <1>3, <1>5, <1>6, <2>1, <2>2, IdleFacts, QuietKeeps
<1>8. CASE sender[s].step = "post"
  <2> DEFINE me == sender[s]
             step == IF k \in doomed THEN "failed" ELSE "answered"
             call == [step |-> step, tab |-> me.tab, key |-> k, seen |-> me.seen, rest |-> me.rest]
  <2>1. /\ me.tab \in Tabs /\ me.seen \in BOOLEAN /\ me.rest \in SUBSET Keys
        /\ me = [step |-> me.step, tab |-> me.tab, key |-> k, seen |-> me.seen, rest |-> me.rest]
    BY <1>2, <1>8, SenderFields
  <2>2. next = [me EXCEPT !.step = step]
    BY <1>8
  <2>3. [me EXCEPT !.step = step] = call
    BY <2>1
  <2>4. step \in {"failed", "answered"} /\ (step = "answered" => k \notin doomed)
    OBVIOUS
  <2> HIDE DEF step
  <2>5. call \in Sender /\ call.step = step /\ call.key = k /\ call.tab = me.tab
        /\ call.seen = me.seen /\ call.rest = me.rest
    BY <1>3, <2>1, <2>4 DEF Sender
  <2> HIDE DEF next, call
  <2>6. me.rest \subseteq Kept
    BY <1>8 DEF IInv, Known
  <2>7. \A u, q : AtWork(u, q, me) => AtWork(u, q, call)
    BY <1>8, <2>4, <2>5 DEF AtWork
  <2>8. call.step = "answered" => call.key \in Stored'
    BY <1>5, <2>4, <2>5
  <2>9. Become(s, call)
    BY <1>1, <2>2, <2>3
  <2> QED
    BY <1>1, <1>3, <1>4, <1>5, <1>6, <2>4, <2>5, <2>6, <2>7, <2>8, <2>9, QuietKeeps
<1> QED
  BY <1>1, <1>7, <1>8

\* A call is lost before or after it is served.
LEMMA LoseKeeps ==
    ASSUME IInv, NEW s \in Senders, Lose(s)
    PROVE  IInv'
<1>1. /\ rows' = rows /\ doomed' = doomed /\ written' = written /\ queue' = queue /\ shown' = shown
  BY DEF Lose
<1>2. TypeOK
  BY DEF IInv
<1>3. queue \subseteq Keys /\ rows \in Seq(Keys)
  BY <1>2 DEF TypeOK
<1>4. Kept' = Kept /\ Stored' = Stored
  BY <1>1 DEF Kept, Stored, RangeOf
<1>5. CASE sender[s].step = "orphan" /\ Become(s, Idle)
  <2>1. \A u, q : ~ AtWork(u, q, sender[s])
    BY <1>5 DEF AtWork
  <2> QED
    BY <1>1, <1>3, <1>4, <1>5, <2>1, IdleFacts, QuietKeeps
<1>6. CASE /\ sender[s].step \in {"post", "answered"}
           /\ Become(s, [sender[s] EXCEPT !.step = "failed"])
  <2> DEFINE me == sender[s]
             call == [step |-> "failed", tab |-> me.tab, key |-> me.key, seen |-> me.seen,
                      rest |-> me.rest]
  <2>1. /\ me.tab \in Tabs /\ me.key \in Keys /\ me.seen \in BOOLEAN /\ me.rest \in SUBSET Keys
        /\ me = [step |-> me.step, tab |-> me.tab, key |-> me.key, seen |-> me.seen, rest |-> me.rest]
    BY <1>2, <1>6, SenderFields
  <2>2. [me EXCEPT !.step = "failed"] = call
    BY <2>1
  <2>3. call \in Sender /\ call.step = "failed" /\ call.key = me.key /\ call.tab = me.tab
        /\ call.seen = me.seen /\ call.rest = me.rest
    BY <2>1 DEF Sender
  <2> HIDE DEF call
  <2>4. me.rest \subseteq Kept /\ me.key \in Kept
    BY <1>6 DEF IInv, Known, AllSound, Sound
  <2>5. \A u, q : AtWork(u, q, me) => AtWork(u, q, call)
    BY <1>6, <2>3 DEF AtWork
  <2>6. Become(s, call)
    BY <1>6, <2>2
  <2> QED
    BY <1>1, <1>3, <1>4, <2>3, <2>4, <2>5, <2>6, QuietKeeps
<1> QED
  BY <1>5, <1>6 DEF Lose

\* The answer replaces the draft by the stored message.
LEMMA AnsweredKeeps ==
    ASSUME IInv, NEW s \in Senders, Answered(s)
    PROVE  IInv'
<1> DEFINE me == sender[s]
           call == [step |-> "dequeue", tab |-> me.tab, key |-> me.key, seen |-> me.seen,
                    rest |-> me.rest]
           f == Put(shown[me.tab], me.key, Saved)
<1>1. /\ me.step = "answered" /\ Become(s, call)
      /\ shown' = [shown EXCEPT ![me.tab] = f]
      /\ rows' = rows /\ doomed' = doomed /\ written' = written /\ queue' = queue
  BY DEF Answered
<1>2. TypeOK
  BY DEF IInv
<1>3. /\ queue \subseteq Keys /\ rows \in Seq(Keys) /\ shown \in [Tabs -> Thread]
      /\ me.tab \in Tabs /\ me.key \in Keys /\ me.seen \in BOOLEAN /\ me.rest \in SUBSET Keys
  BY <1>1, <1>2, SenderFields DEF TypeOK
<1>4. call \in Sender /\ call.step = "dequeue" /\ call.key = me.key /\ call.rest = me.rest
  BY <1>3 DEF Sender
<1>5. /\ f \in Thread /\ DOMAIN f = DOMAIN shown[me.tab] \cup {me.key} /\ f[me.key] = Saved
      /\ \A q \in DOMAIN shown[me.tab] : q # me.key => f[q] = shown[me.tab][q]
  <2>1. Saved \in Entry /\ me.key \in Keys /\ shown[me.tab] \in Thread
    BY <1>3, EntryFacts
  <2>2. PICK g \in Thread : g = shown[me.tab]
    BY <2>1
  <2>3. PICK x \in Keys : x = me.key
    BY <2>1
  <2>4. PICK v \in Entry : v = Saved
    BY <2>1
  <2>5. /\ Put(g, x, v) \in Thread /\ DOMAIN Put(g, x, v) = DOMAIN g \cup {x} /\ Put(g, x, v)[x] = v
        /\ \A q \in DOMAIN g : q # x => Put(g, x, v)[q] = g[q]
    BY PutFacts
  <2> QED
    BY <2>2, <2>3, <2>4, <2>5
<1> HIDE DEF call, f
<1>6. /\ shown' \in [Tabs -> Thread] /\ shown'[me.tab] = f
      /\ \A u \in Tabs : u # me.tab => shown'[u] = shown[u]
  BY <1>1, <1>3, <1>5
<1>7. Kept' = Kept /\ Stored' = Stored
  BY <1>1 DEF Kept, Stored, RangeOf
<1>8. me.key \in Stored /\ me.key \in Kept /\ me.rest \subseteq Kept
  BY <1>1 DEF IInv, Known, AllSound, Sound
<1>9. ASSUME NEW u \in Tabs, NEW q \in DOMAIN shown'[u]
      PROVE  \/ MarkTrue(u, q)'
             \/ /\ q \in DOMAIN shown[u] /\ shown'[u][q] = shown[u][q]
                /\ ~ AtWork(u, q, me)
  <2>1. CASE u = me.tab /\ q = me.key
    BY <1>5, <1>6, <1>7, <1>8, <2>1, EntryFacts DEF MarkTrue
  <2>2. CASE u # me.tab \/ q # me.key
    BY <1>5, <1>6, <1>9, <2>2 DEF AtWork
  <2> QED
    BY <2>1, <2>2
<1>10. \A u \in Tabs : DOMAIN shown'[u] \subseteq DOMAIN shown[u] \cup Stored
  BY <1>5, <1>6, <1>8
<1> QED
  BY <1>1, <1>3, <1>4, <1>6, <1>7, <1>8, <1>9, <1>10, StepKeeps

\* The stored message leaves the queue.
LEMMA DequeuedKeeps ==
    ASSUME IInv, NEW s \in Senders, Dequeued(s)
    PROVE  IInv'
<1> DEFINE me == sender[s]
           next == GoOn(me.tab, me.rest)
<1>1. /\ me.step = "dequeue" /\ queue' = queue \ {me.key} /\ Become(s, next)
      /\ rows' = rows /\ doomed' = doomed /\ written' = written /\ shown' = shown
  BY DEF Dequeued
<1>2. TypeOK
  BY DEF IInv
<1>3. /\ queue' \subseteq Keys /\ rows \in Seq(Keys)
      /\ me.tab \in Tabs /\ me.rest \in SUBSET Keys
  BY <1>1, <1>2, SenderFields DEF TypeOK
<1>4. next \in Sender /\ next.step \in {"idle", "loop"} /\ (next.step = "loop" => next.rest = me.rest)
  BY <1>3, GoOnFacts
<1> HIDE DEF next
<1>5. me.key \in Stored /\ me.rest \subseteq Kept
  BY <1>1 DEF IInv, Known, AllSound, Sound
<1>6. Kept' = Kept /\ Stored' = Stored
  BY <1>1, <1>5 DEF Kept, Stored, RangeOf
<1>7. \A u, q : ~ AtWork(u, q, me)
  BY <1>1 DEF AtWork
<1> QED
  BY <1>1, <1>3, <1>4, <1>5, <1>6, <1>7, QuietKeeps

\* The entry that failed is marked, if the thread had it when it was sent.
LEMMA FailedKeeps ==
    ASSUME IInv, NEW s \in Senders, Failed(s)
    PROVE  IInv'
<1> DEFINE me == sender[s]
           next == GoOn(me.tab, me.rest)
<1>1. /\ me.step \in {"failed", "dequeue"} /\ queue' = queue
      /\ rows' = rows /\ doomed' = doomed /\ written' = written
  BY DEF Failed, GiveUp
<1>2. TypeOK
  BY DEF IInv
<1>3. /\ queue \subseteq Keys /\ rows \in Seq(Keys) /\ shown \in [Tabs -> Thread]
      /\ me.tab \in Tabs /\ me.rest \in SUBSET Keys
  BY <1>1, <1>2, SenderFields DEF TypeOK
<1>4. next \in Sender /\ next.step \in {"idle", "loop"} /\ (next.step = "loop" => next.rest = me.rest)
  BY <1>3, GoOnFacts
<1>5. me.key \in Kept /\ me.rest \subseteq Kept
  BY <1>1 DEF IInv, Known, AllSound, Sound
<1>6. Kept' = Kept /\ Stored' = Stored
  BY <1>1 DEF Kept, Stored, RangeOf
<1>7. CASE me.seen
  <2>1. shown' = Marked(me.tab, me.key, "failed") /\ Become(s, next)
    BY <1>7 DEF Failed, GiveUp
  <2> HIDE DEF next
  <2>2. "failed" \in Marks
    BY DEF Marks
  <2>3. /\ shown' \in [Tabs -> Thread]
        /\ \A u \in Tabs : DOMAIN shown'[u] = DOMAIN shown[u]
        /\ \A u \in Tabs : \A q \in DOMAIN shown[u] :
              u # me.tab \/ q # me.key => shown'[u][q] = shown[u][q]
        /\ me.key \in DOMAIN shown[me.tab] => shown'[me.tab][me.key].mark = "failed"
    BY <1>3, <2>1, <2>2, MarkedFacts
  <2>4. ASSUME NEW u \in Tabs, NEW q \in DOMAIN shown'[u]
        PROVE  \/ MarkTrue(u, q)'
               \/ /\ q \in DOMAIN shown[u] /\ shown'[u][q] = shown[u][q]
                  /\ ~ AtWork(u, q, me)
    <3>1. CASE u = me.tab /\ q = me.key
      BY <1>5, <1>6, <2>3, <2>4, <3>1 DEF MarkTrue
    <3>2. CASE u # me.tab \/ q # me.key
      BY <2>3, <2>4, <3>2 DEF AtWork
    <3> QED
      BY <3>1, <3>2
  <2> QED
    BY <1>1, <1>3, <1>4, <1>5, <1>6, <2>1, <2>3, <2>4, StepKeeps
<1>8. CASE ~ me.seen
  <2>1. shown' = shown /\ Become(s, Idle)
    BY <1>8 DEF Failed, GiveUp
  <2>2. \A u, q : ~ AtWork(u, q, me)
    BY <1>1, <1>8 DEF AtWork
  <2> QED
    BY <1>1, <1>3, <1>6, <2>1, <2>2, IdleFacts, QuietKeeps
<1> QED
  BY <1>7, <1>8

\* A prefix of the rows.
LEMMA PrefixStored ==
    ASSUME rows \in Seq(Keys), NEW n \in 0..Len(rows)
    PROVE  RangeOf(SubSeq(rows, 1, n)) \subseteq Stored
<1>1. Len(rows) \in Nat
  OBVIOUS
<1>2. Len(SubSeq(rows, 1, n)) = n /\ \A i \in 1..n : SubSeq(rows, 1, n)[i] = rows[i]
  BY <1>1
<1>3. 1..n \subseteq 1..Len(rows)
  BY <1>1
<1> QED
  BY <1>2, <1>3 DEF RangeOf, Stored

\* The page of the server replaces the thread, the drafts in it included.
LEMMA ThreadOpenedKeeps ==
    ASSUME IInv, NEW s \in Senders, ThreadOpened(s)
    PROVE  IInv'
<1> DEFINE me == sender[s]
<1>1. /\ me.step = "open" /\ Become(s, Idle)
      /\ rows' = rows /\ doomed' = doomed /\ written' = written /\ queue' = queue
  BY DEF ThreadOpened
<1>2. TypeOK
  BY DEF IInv
<1>3. /\ queue \subseteq Keys /\ rows \in Seq(Keys) /\ shown \in [Tabs -> Thread] /\ me.tab \in Tabs
  BY <1>1, <1>2, SenderFields DEF TypeOK
<1>4. PICK n \in 0..Len(rows) :
          shown' = [shown EXCEPT ![me.tab] = [k \in RangeOf(SubSeq(rows, 1, n)) |-> Saved]]
  BY DEF ThreadOpened
<1> DEFINE S == RangeOf(SubSeq(rows, 1, n))
           f == [k \in S |-> Saved]
<1>5. S \subseteq Stored
  BY <1>3, PrefixStored
<1>6. Stored \subseteq Keys
  BY <1>3, RangeType DEF Stored
<1> HIDE DEF S
<1>7. f \in [S -> Entry] /\ S \in SUBSET Keys
  BY <1>5, <1>6, EntryFacts
<1>8. f \in Thread /\ DOMAIN f = S /\ \A k \in S : f[k] = Saved
  BY <1>7 DEF Thread
<1>9. shown' = [shown EXCEPT ![me.tab] = f]
  BY <1>4 DEF S
<1> HIDE DEF f
<1>10. /\ shown' \in [Tabs -> Thread] /\ shown'[me.tab] = f
       /\ \A u \in Tabs : u # me.tab => shown'[u] = shown[u]
  BY <1>3, <1>8, <1>9
<1>11. Kept' = Kept /\ Stored' = Stored
  BY <1>1 DEF Kept, Stored, RangeOf
<1>12. \A u, q : ~ AtWork(u, q, me)
  BY <1>1 DEF AtWork
<1>13. ASSUME NEW u \in Tabs, NEW q \in DOMAIN shown'[u]
       PROVE  \/ MarkTrue(u, q)'
              \/ q \in DOMAIN shown[u] /\ shown'[u][q] = shown[u][q]
  <2>1. CASE u = me.tab
    BY <1>5, <1>8, <1>10, <1>11, <1>13, <2>1, EntryFacts DEF MarkTrue
  <2>2. CASE u # me.tab
    BY <1>10, <1>13, <2>2
  <2> QED
    BY <2>1, <2>2
<1>14. \A u \in Tabs : DOMAIN shown'[u] \subseteq DOMAIN shown[u] \cup Stored
  BY <1>5, <1>8, <1>10
<1> QED
  BY <1>1, <1>3, <1>10, <1>11, <1>12, <1>13, <1>14, IdleFacts, StepKeeps

\* Rows that were missed are stored ones.
LEMMA RecoverKeeps ==
    ASSUME IInv, NEW t \in Tabs, Recover(t)
    PROVE  IInv'
<1>1. PICK k \in Stored : shown' = [shown EXCEPT ![t] = Put(shown[t], k, Saved)]
  BY DEF Recover
<1>2. rows' = rows /\ doomed' = doomed /\ written' = written /\ queue' = queue /\ sender' = sender
  BY DEF Recover
<1>3. /\ shown \in [Tabs -> Thread] /\ shown[t] \in Thread /\ rows \in Seq(Keys)
      /\ k \in Keys
  BY RangeType DEF IInv, TypeOK, Stored
<1> DEFINE f == Put(shown[t], k, Saved)
<1>4. /\ f \in Thread /\ DOMAIN f = DOMAIN shown[t] \cup {k} /\ f[k] = Saved
      /\ \A q \in DOMAIN shown[t] : q # k => f[q] = shown[t][q]
  <2>1. Saved \in Entry /\ k \in Keys /\ shown[t] \in Thread
    BY <1>3, EntryFacts
  <2> QED
    BY <2>1, PutFacts, Zenon
<1>5. shown' = [shown EXCEPT ![t] = f]
  BY <1>1
<1> HIDE DEF f
<1>6. /\ shown' \in [Tabs -> Thread] /\ shown'[t] = f
      /\ \A u \in Tabs : u # t => shown'[u] = shown[u]
  BY <1>3, <1>4, <1>5
<1>7. Kept' = Kept /\ Stored' = Stored /\ RangeOf(written)' = RangeOf(written)
  BY <1>2 DEF Kept, Stored, RangeOf
<1>8. TypeOK' /\ AllSound'
  BY <1>2, <1>6, <1>7 DEF IInv, TypeOK, AllSound, Sound
<1>9. k \in Kept /\ k \in RangeOf(written)
  BY DEF IInv, Known, Kept
<1>10. \A u \in Tabs : DOMAIN shown'[u] \subseteq DOMAIN shown[u] \cup {k}
  BY <1>4, <1>6
<1>11. Fresh'
  BY <1>2, <1>7, <1>9, <1>10 DEF IInv, Fresh
<1>12. Known'
  BY <1>2, <1>7, <1>9, <1>10 DEF IInv, Known
<1>13. ASSUME NEW u \in Tabs, NEW q \in DOMAIN shown'[u] PROVE MarkTrue(u, q)'
  <2>1. CASE u = t /\ q = k
    BY <1>4, <1>6, <1>7, <2>1, EntryFacts DEF MarkTrue
  <2>2. CASE u # t \/ q # k
    <3>1. q \in DOMAIN shown[u] /\ shown'[u][q] = shown[u][q]
      BY <1>4, <1>6, <1>13, <2>2
    <3>2. MarkTrue(u, q)
      BY <3>1 DEF IInv, MarksTrue
    <3> QED
      BY <1>2, <1>7, <3>1, <3>2 DEF MarkTrue, AtWork
  <2> QED
    BY <2>1, <2>2
<1> QED
  BY <1>8, <1>11, <1>12, <1>13 DEF IInv, MarksTrue

\* After a reload the tab shows nothing, and only its requests go on.
LEMMA ReloadKeeps ==
    ASSUME IInv, NEW t \in Tabs, Reload(t)
    PROVE  IInv'
<1>1. /\ shown' = [shown EXCEPT ![t] = NoEntry]
      /\ rows' = rows /\ doomed' = doomed /\ written' = written /\ queue' = queue
  BY DEF Reload
<1>2. TypeOK
  BY DEF IInv
<1> DEFINE Left(x) == IF x.step \in {"idle", "orphan"} \/ x.tab # t THEN x
                      ELSE IF x.step = "post" THEN [step |-> "orphan", key |-> x.key]
                      ELSE Idle
<1>3. sender' = [s \in Senders |-> Left(sender[s])]
  BY DEF Reload
<1>4. ASSUME NEW s \in Senders
      PROVE  /\ sender'[s] \in Sender
             /\ \/ sender'[s] = sender[s]
                   /\ (sender[s].step \in {"idle", "orphan"} \/ sender[s].tab # t)
                \/ sender[s].step = "post" /\ sender'[s].step = "orphan"
                   /\ sender'[s].key = sender[s].key /\ sender[s].tab = t
                \/ sender'[s] = Idle /\ sender[s].tab = t
  <2>1. sender'[s] = Left(sender[s])
    BY <1>3
  <2>2. CASE sender[s].step \in {"idle", "orphan"} \/ sender[s].tab # t
    BY <1>2, <2>1, <2>2 DEF TypeOK
  <2>3. CASE sender[s].step = "post" /\ sender[s].tab = t
    <3>1. sender'[s] = [step |-> "orphan", key |-> sender[s].key] /\ sender[s].key \in Keys
      BY <1>2, <2>1, <2>3, SenderFields
    <3> QED
      BY <2>3, <3>1 DEF Sender
  <2>4. CASE sender[s].step \notin {"idle", "orphan", "post"} /\ sender[s].tab = t
    BY <2>1, <2>4, IdleFacts
  <2> QED
    BY <2>2, <2>3, <2>4
<1>5. sender' \in [Senders -> Sender]
  BY <1>3, <1>4
<1> HIDE DEF Left
<1>6. /\ shown' \in [Tabs -> Thread] /\ shown'[t] = NoEntry
      /\ \A u \in Tabs : u # t => shown'[u] = shown[u]
  BY <1>1, <1>2, NoEntryFacts DEF TypeOK
<1>7. \A u \in Tabs : DOMAIN shown'[u] \subseteq DOMAIN shown[u]
  BY <1>6, NoEntryFacts
<1>8. Kept' = Kept /\ Stored' = Stored /\ RangeOf(written)' = RangeOf(written)
  BY <1>1 DEF Kept, Stored, RangeOf
<1>9. TypeOK'
  BY <1>1, <1>2, <1>5, <1>6 DEF TypeOK
<1>10. AllSound'
  <2> SUFFICES ASSUME NEW s \in Senders PROVE Sound(sender[s])'
    BY DEF AllSound
  <2>1. Sound(sender[s])
    BY DEF IInv, AllSound
  <2> QED
    BY <1>4, <1>8, <2>1, IdleFacts DEF Sound
<1>11. \A s \in Senders : sender'[s].step \notin {"idle", "orphan"} => sender'[s] = sender[s]
  BY <1>4, IdleFacts
<1>12. Fresh'
  BY <1>7, <1>8, <1>11 DEF IInv, Fresh
<1>13. Known'
  BY <1>7, <1>8, <1>11 DEF IInv, Known
<1>14. ASSUME NEW u \in Tabs, NEW k \in DOMAIN shown'[u] PROVE MarkTrue(u, k)'
  <2>1. u # t /\ k \in DOMAIN shown[u] /\ shown'[u][k] = shown[u][k]
    BY <1>6, <1>14, NoEntryFacts
  <2>2. MarkTrue(u, k)
    BY <2>1 DEF IInv, MarksTrue
  <2>3. ASSUME NEW s \in Senders, AtWork(u, k, sender[s]) PROVE AtWork(u, k, sender'[s])
    BY <1>4, <2>1, <2>3 DEF AtWork
  <2>4. (\E s \in Senders : AtWork(u, k, sender[s])) => (\E s \in Senders : AtWork(u, k, sender[s]))'
    BY <2>3 DEF AtWork
  <2> QED
    BY <1>8, <2>1, <2>2, <2>4 DEF MarkTrue
<1> QED
  BY <1>9, <1>10, <1>12, <1>13, <1>14 DEF IInv, MarksTrue

-------------------------------------------------------------------------------

\* At first there is nothing to say.
LEMMA InitIInv == Init => IInv
<1> SUFFICES ASSUME Init PROVE IInv
  OBVIOUS
<1>1. RangeOf(<< >>) = {} /\ << >> \in Seq(Keys)
  BY DEF RangeOf
<1>2. Kept = {} /\ Stored = {} /\ RangeOf(written) = {}
  BY <1>1 DEF Init, Kept, Stored
<1>3. shown \in [Tabs -> Thread] /\ \A t \in Tabs : DOMAIN shown[t] = {}
  BY NoEntryFacts DEF Init
<1>4. sender \in [Senders -> Sender] /\ \A s \in Senders : sender[s].step = "idle"
  BY IdleFacts DEF Init
<1>5. TypeOK
  BY <1>1, <1>3, <1>4 DEF Init, TypeOK
<1>6. AllSound /\ Fresh /\ Known /\ MarksTrue
  BY <1>2, <1>3, <1>4 DEF AllSound, Sound, Fresh, Known, MarksTrue
<1> QED
  BY <1>5, <1>6 DEF IInv

\* Every step keeps it, one case for each action.
LEMMA NextKeeps == IInv /\ [Next]_vars => IInv'
<1> SUFFICES ASSUME IInv, [Next]_vars PROVE IInv'
  OBVIOUS
<1>1. ASSUME NEW s \in Senders, Respond(s) PROVE IInv'
  BY <1>1, LoopKeeps, EnqueuedKeeps, EnqueueFailsKeeps, AnsweredKeeps, DequeuedKeeps,
     FailedKeeps, ThreadOpenedKeeps DEF Respond
<1>2. ASSUME NEW s \in Senders, Serve(s) \/ Lose(s) PROVE IInv'
  BY <1>2, ServeKeeps, LoseKeeps
<1>3. ASSUME NEW s \in Senders, NEW t \in Tabs, Start(s, t) PROVE IInv'
  BY <1>3, SendMessageKeeps, RetryMessageKeeps, FlushKeeps, OpenThreadKeeps DEF Start
<1>4. ASSUME NEW t \in Tabs, Recover(t) \/ Reload(t) PROVE IInv'
  BY <1>4, RecoverKeeps, ReloadKeeps
<1>5. CASE UNCHANGED vars
  BY <1>5 DEF vars, IInv, TypeOK, AllSound, Sound, Fresh, Known, MarksTrue, MarkTrue, AtWork,
     Kept, Stored, RangeOf
<1> QED
  BY <1>1, <1>2, <1>3, <1>4, <1>5 DEF Next

\* It holds in every state that can be reached.
LEMMA Inductive == Spec => []IInv
  BY InitIInv, NextKeeps, PTL DEF Spec

\* The rows, the outbox, the threads and the sends keep their types.
THEOREM TypeCorrect == Spec => []TypeOK
<1>1. IInv => TypeOK
  BY DEF IInv
<1> QED
  BY Inductive, <1>1, PTL

\* What a bubble says of its message is true, whatever sends, retries, flushes
\* and reloads overlap, in any number of tabs.
THEOREM MarksTellTheTruth == Spec => []MarksAreTrue
<1>1. IInv => MarksAreTrue
  <2> SUFFICES ASSUME IInv, NEW t \in Tabs, NEW k \in DOMAIN shown[t]
               PROVE  CASE shown[t][k].mark = "none"    -> k \in Stored
                        [] shown[t][k].mark = "failed"  -> k \in queue \cup Stored
                        [] shown[t][k].mark = "pending" -> Working(t, k) \/ k \notin queue \cup Stored
    BY DEF MarksAreTrue
  <2>1. MarkTrue(t, k)
    BY DEF IInv, MarksTrue
  <2>2. (\E s \in Senders : AtWork(t, k, sender[s])) => Working(t, k)
    BY DEF AtWork, Working
  <2>3. shown[t][k].mark \in Marks
    <3>1. PICK S \in SUBSET Keys : shown[t] \in [S -> Entry]
      BY DEF IInv, TypeOK, Thread
    <3> QED
      BY <3>1 DEF Entry
  <2>4. CASE shown[t][k].mark = "none"
    BY <2>1, <2>4 DEF MarkTrue
  <2>5. CASE shown[t][k].mark = "failed"
    BY <2>1, <2>5 DEF MarkTrue, Kept
  <2>6. CASE shown[t][k].mark = "pending"
    BY <2>1, <2>2, <2>6 DEF MarkTrue, Kept
  <2> QED
    BY <2>3, <2>4, <2>5, <2>6 DEF Marks
<1> QED
  BY Inductive, <1>1, PTL

\* Every step is one of Delivery, or is not seen there.
LEMMA NextDelivers == IInv /\ [Next]_vars => [D!Next]_(D!deliveryVars)
<1> SUFFICES ASSUME IInv, [Next]_vars PROVE [D!Next]_(D!deliveryVars)
  OBVIOUS
<1>1. D!Done = Stored
  BY DEF D!Done, Stored, RangeOf
<1>2. ASSUME rows' = rows, queue' = queue PROVE [D!Next]_(D!deliveryVars)
  BY <1>2 DEF D!deliveryVars
<1>3. ASSUME NEW s \in Senders, Enqueued(s) PROVE \E k \in Keys : D!Accept(k)
  <2>1. /\ sender[s].step = "enqueue" /\ queue' = queue \cup {sender[s].key} /\ rows' = rows
    BY <1>3 DEF Enqueued
  <2>2. sender[s].key \in Keys
    BY <2>1, SenderFields DEF IInv
  <2>3. sender[s].key \notin Stored
    BY <2>1 DEF IInv, Fresh, Kept
  <2> QED
    BY <1>1, <2>1, <2>2, <2>3 DEF D!Accept
<1>4. ASSUME NEW s \in Senders, Dequeued(s) PROVE \E k \in Keys : D!Release(k)
  <2>1. /\ sender[s].step = "dequeue" /\ queue' = queue \ {sender[s].key} /\ rows' = rows
    BY <1>4 DEF Dequeued
  <2>2. sender[s].key \in Keys /\ sender[s].key \in Stored
    BY <2>1, SenderFields DEF IInv, AllSound, Sound
  <2> QED
    BY <1>1, <2>1, <2>2 DEF D!Release
<1>5. ASSUME NEW s \in Senders, Serve(s), rows' # rows PROVE \E k \in Keys : D!Deliver(k)
  <2>1. /\ sender[s].step \in {"post", "orphan"} /\ queue' = queue
        /\ sender[s].key \notin Stored /\ rows' = Append(rows, sender[s].key)
    BY <1>5 DEF Serve
  <2>2. sender[s].key \in Keys /\ sender[s].key \in queue
    BY <2>1, SenderFields DEF IInv, AllSound, Sound, Kept
  <2> QED
    BY <1>1, <2>1, <2>2 DEF D!Deliver
<1>6. ASSUME NEW s \in Senders, Serve(s) \/ Lose(s) PROVE [D!Next]_(D!deliveryVars)
  <2>1. queue' = queue
    BY <1>6 DEF Serve, Lose
  <2>2. Lose(s) => rows' = rows
    BY DEF Lose
  <2> QED
    BY <1>2, <1>5, <1>6, <2>1, <2>2 DEF D!Next
<1>7. ASSUME NEW s \in Senders, Respond(s) PROVE [D!Next]_(D!deliveryVars)
  <2>1. CASE Loop(s) \/ EnqueueFails(s) \/ Answered(s) \/ Failed(s) \/ ThreadOpened(s)
    BY <1>2, <2>1 DEF Loop, EnqueueFails, Answered, Failed, GiveUp, ThreadOpened
  <2> QED
    BY <1>3, <1>4, <1>7, <2>1 DEF Respond, D!Next
<1>8. ASSUME NEW s \in Senders, NEW t \in Tabs, Start(s, t) PROVE [D!Next]_(D!deliveryVars)
  BY <1>2, <1>8 DEF Start, SendMessage, RetryMessage, Flush, OpenThread
<1>9. ASSUME NEW t \in Tabs, Recover(t) \/ Reload(t) PROVE [D!Next]_(D!deliveryVars)
  BY <1>2, <1>9 DEF Recover, Reload
<1>10. CASE UNCHANGED vars
  BY <1>2, <1>10 DEF vars
<1> QED
  BY <1>6, <1>7, <1>8, <1>9, <1>10 DEF Next

\* The outbox, the sends and the server deliver exactly once, as Delivery says.
THEOREM Refinement == Spec => ExactlyOnce
<1>1. Init => D!Init
  BY DEF Init, D!Init
<1> QED
  BY <1>1, NextDelivers, Inductive, PTL DEF Spec, ExactlyOnce, D!Spec
===============================================================================
