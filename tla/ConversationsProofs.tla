------------------------- MODULE ConversationsProofs -------------------------
(***************************************************************************)
(* What the viewer sees of his conversations, for any number of them, of   *)
(* peers and of calls in flight: the ticks are true, nothing is taken back *)
(* but for named causes, and the list is right when nothing is pending.    *)
(***************************************************************************)
EXTENDS Conversations, TLAPS

\* What is shown of a conversation, or brought by an answer, without the bounds.
Shown == [ver : Nat, last : Nat, read : [Peers -> Nat]]

Reads == [Convs -> [Peers -> Nat]]

Counts == [Convs -> Nat]

\* A list that shows nothing beyond versions v, messages s and readings r.
Honest(v, s, r, f) ==
    /\ DOMAIN f \subseteq Convs
    /\ f \in [DOMAIN f -> Shown]
    /\ \A c \in DOMAIN f : /\ f[c].ver <= v[c]
                           /\ f[c].last <= s[c]
                           /\ \A p \in Peers : f[c].read[p] <= r[c][p]

HonestEvent(s, r, e) ==
    /\ e.type \in {"message.created", "receipt.updated"}
    /\ e.conv \in Convs /\ e.seq \in Nat
    /\ e.type = "message.created" => e.seq <= s[e.conv]
    /\ e.type = "receipt.updated" => e.peer \in Peers /\ e.seq <= r[e.conv][e.peer]

\* The operations whose answer shows conversations.
Showing == {"load", "start", "change", "remove", "leave", "get"}

HonestCall(v, s, r, x) ==
    /\ x.step # "idle" /\ x.op # "load" => x.conv \in Convs
    /\ x.step = "answered" =>
          /\ x.op \in Showing => Honest(v, s, r, x.answer)
          /\ x.op \in {"start", "change", "get"} => x.conv \in DOMAIN x.answer
          /\ x.op \in {"send", "react"} => x.answer \in Nat /\ x.answer <= s[x.conv]

\* Whatever may be shown next is honest, for what the server knows only grows.
IInv ==
    /\ ver \in Counts /\ seq \in Counts /\ read \in Reads
    /\ Honest(ver, seq, read, list)
    /\ \A e \in events : HonestEvent(seq, read, e)
    /\ call = [k \in Calls |-> call[k]]
    /\ \A k \in Calls : HonestCall(ver, seq, read, call[k])

-------------------------------------------------------------------------------

\* The server's tables only grow, and what was honest stays so.
Grows ==
    /\ ver' \in Counts /\ seq' \in Counts /\ read' \in Reads
    /\ \A c \in Convs : /\ ver[c] <= ver'[c] /\ seq[c] <= seq'[c]
                        /\ \A p \in Peers : read[c][p] <= read'[c][p]

\* What was honest stays so as the server learns more.
LEMMA LaterKeeps ==
    ASSUME IInv, Grows
    PROVE  /\ \A f : Honest(ver, seq, read, f) => Honest(ver', seq', read', f)
           /\ \A e : HonestEvent(seq, read, e) => HonestEvent(seq', read', e)
           /\ \A x : HonestCall(ver, seq, read, x) => HonestCall(ver', seq', read', x)
<1>1. \A c \in Convs : /\ ver[c] \in Nat /\ seq[c] \in Nat /\ ver'[c] \in Nat /\ seq'[c] \in Nat
                        /\ \A p \in Peers : read[c][p] \in Nat /\ read'[c][p] \in Nat
  BY DEF IInv, Grows, Counts, Reads
<1>2. ASSUME NEW f, Honest(ver, seq, read, f) PROVE Honest(ver', seq', read', f)
  <2>1. \A c \in DOMAIN f : /\ c \in Convs /\ f[c].ver \in Nat /\ f[c].last \in Nat
                             /\ \A p \in Peers : f[c].read[p] \in Nat
    BY <1>2 DEF Honest, Shown
  <2>2. ASSUME NEW c \in DOMAIN f
        PROVE  /\ f[c].ver <= ver'[c] /\ f[c].last <= seq'[c]
               /\ \A p \in Peers : f[c].read[p] <= read'[c][p]
    BY <1>1, <1>2, <2>1 DEF Honest, Grows
  <2> QED
    BY <1>2, <2>2 DEF Honest
<1>3. \A e : HonestEvent(seq, read, e) => HonestEvent(seq', read', e)
  BY <1>1 DEF HonestEvent, Grows
<1>4. ASSUME NEW x, HonestCall(ver, seq, read, x) PROVE HonestCall(ver', seq', read', x)
  BY <1>1, <1>2, <1>4 DEF HonestCall, Grows
<1> QED
  BY <1>2, <1>3, <1>4

\* What a conversation is on the server.
LEMMA SnapFacts ==
    ASSUME IInv, NEW c \in Convs
    PROVE  /\ Snap(c) \in Shown
           /\ Snap(c).ver = ver[c] /\ Snap(c).last = seq[c] /\ Snap(c).read = read[c]
           /\ [Snap(c) EXCEPT !.ver = @ + 1] =
                 [ver |-> ver[c] + 1, last |-> seq[c], read |-> read[c]]
           /\ [Snap(c) EXCEPT !.ver = @ + 1] \in Shown
<1>1. ver[c] \in Nat /\ seq[c] \in Nat /\ read[c] \in [Peers -> Nat] /\ ver[c] + 1 \in Nat
  BY DEF IInv, Counts, Reads
<1>2. Snap(c) = [ver |-> ver[c], last |-> seq[c], read |-> read[c]]
  BY DEF Snap
<1>3. [Snap(c) EXCEPT !.ver = @ + 1] = [ver |-> ver[c] + 1, last |-> seq[c], read |-> read[c]]
  BY <1>2
<1> QED
  BY <1>1, <1>2, <1>3 DEF Shown

\* Where no table changes.
LEMMA SameGrows ==
    ASSUME IInv, UNCHANGED <<ver, seq, read>>
    PROVE  Grows
BY DEF IInv, Grows, Counts, Reads

\* Where the version of a conversation, or its last message, goes up by one.
LEMMA BumpGrows ==
    ASSUME IInv, NEW c \in Convs, read' = read,
           \/ ver' = [ver EXCEPT ![c] = @ + 1] /\ seq' = seq
           \/ seq' = [seq EXCEPT ![c] = @ + 1] /\ ver' = ver
    PROVE  Grows
<1>1. /\ ver \in [Convs -> Nat] /\ seq \in [Convs -> Nat] /\ read \in Reads
      /\ \A d \in Convs : \A p \in Peers : read[d][p] \in Nat
  BY DEF IInv, Counts, Reads
<1>2. CASE ver' = [ver EXCEPT ![c] = @ + 1] /\ seq' = seq
  BY <1>1, <1>2 DEF Grows, Counts
<1>3. CASE seq' = [seq EXCEPT ![c] = @ + 1] /\ ver' = ver
  BY <1>1, <1>3 DEF Grows, Counts
<1> QED
  BY <1>2, <1>3

\* Any list of what the server has now is honest.
LEMMA TableIsHonest ==
    ASSUME IInv, NEW S \in SUBSET Convs, NEW f, f = [c \in S |-> f[c]],
           \A c \in S : f[c] = Snap(c)
    PROVE  Honest(ver, seq, read, f) /\ DOMAIN f = S
<1>1. DOMAIN f = S
  OBVIOUS
<1>2. \A c \in S : /\ ver[c] \in Nat /\ seq[c] \in Nat
                    /\ \A p \in Peers : read[c][p] \in Nat
  BY DEF IInv, Counts, Reads
<1>3. \A c \in S : /\ f[c] \in Shown
                    /\ f[c].ver = ver[c] /\ f[c].last = seq[c] /\ f[c].read = read[c]
  BY SnapFacts
<1> QED
  BY <1>1, <1>2, <1>3 DEF Honest

\* A list changes at one conversation, or loses one.
LEMMA PutIsHonest ==
    ASSUME NEW v, NEW s, NEW r, NEW f, Honest(v, s, r, f), NEW c \in Convs, NEW e \in Shown,
           e.ver <= v[c], e.last <= s[c], \A p \in Peers : e.read[p] <= r[c][p]
    PROVE  Honest(v, s, r, Put(f, c, e)) /\ Honest(v, s, r, Without(f, c))
<1>1. /\ DOMAIN Put(f, c, e) = DOMAIN f \cup {c}
      /\ \A x \in DOMAIN f \cup {c} : Put(f, c, e)[x] = IF x = c THEN e ELSE f[x]
      /\ Put(f, c, e) \in [DOMAIN f \cup {c} -> Shown]
  BY DEF Put, Honest
<1>2. /\ DOMAIN Without(f, c) = DOMAIN f \ {c}
      /\ \A x \in DOMAIN f \ {c} : Without(f, c)[x] = f[x]
      /\ Without(f, c) \in [DOMAIN f \ {c} -> Shown]
  BY DEF Without, Honest
<1>3. Honest(v, s, r, Put(f, c, e))
  BY <1>1 DEF Honest
<1>4. Honest(v, s, r, Without(f, c))
  BY <1>2 DEF Honest
<1> QED
  BY <1>3, <1>4

\* A new last message, by an event or an answer.
LEMMA AppliedIsHonest ==
    ASSUME IInv, NEW c \in Convs, NEW n \in Nat, n <= seq[c], Applied(c, n)
    PROVE  /\ Honest(ver, seq, read, list')
           /\ DOMAIN list' = DOMAIN list
           /\ \A x \in DOMAIN list : x # c => list'[x] = list[x]
           /\ c \in DOMAIN list =>
                 /\ list'[c].ver = list[c].ver /\ list'[c].last = n
                 /\ list'[c].read = list[c].read
<1>1. Honest(ver, seq, read, list)
  BY DEF IInv
<1>2. CASE c \in DOMAIN list
  <2>1. list' = [list EXCEPT ![c].last = n]
    BY <1>2 DEF Applied
  <2>2. list[c] \in Shown
    BY <1>1, <1>2 DEF Honest
  <2> DEFINE e == [list[c] EXCEPT !.last = n]
  <2>3. e \in Shown /\ e.ver = list[c].ver /\ e.last = n /\ e.read = list[c].read
    BY <2>2 DEF Shown
  <2>4. list' = [list EXCEPT ![c] = e]
    BY <2>1
  <2> HIDE DEF e
  <2>5. /\ DOMAIN list' = DOMAIN list /\ list'[c] = e
        /\ \A x \in DOMAIN list : x # c => list'[x] = list[x]
        /\ list' \in [DOMAIN list -> Shown]
    BY <1>1, <1>2, <2>3, <2>4 DEF Honest
  <2>6. Honest(ver, seq, read, list')
    BY <1>1, <1>2, <2>3, <2>5 DEF Honest
  <2> QED
    BY <2>3, <2>5, <2>6
<1>3. CASE c \notin DOMAIN list
  BY <1>1, <1>3 DEF Applied
<1> QED
  BY <1>2, <1>3

\* A receipt, of one peer.
LEMMA ReceiptIsHonest ==
    ASSUME IInv, NEW c \in Convs, NEW p \in Peers, NEW n \in Nat, n <= read[c][p],
           ApplyReceipt(c, p, n)
    PROVE  /\ Honest(ver, seq, read, list')
           /\ DOMAIN list' = DOMAIN list
           /\ \A x \in DOMAIN list : x # c => list'[x] = list[x]
           /\ c \in DOMAIN list =>
                 /\ list'[c].ver = list[c].ver /\ list'[c].last = list[c].last
                 /\ list'[c].read[p] = n
                 /\ \A q \in Peers : q # p => list'[c].read[q] = list[c].read[q]
<1>1. Honest(ver, seq, read, list)
  BY DEF IInv
<1>2. CASE c \in DOMAIN list
  <2>1. list' = [list EXCEPT ![c].read[p] = n]
    BY <1>2 DEF ApplyReceipt
  <2>2. list[c] \in Shown /\ list[c].read \in [Peers -> Nat]
    BY <1>1, <1>2 DEF Honest, Shown
  <2> DEFINE g == [list[c].read EXCEPT ![p] = n]
             e == [list[c] EXCEPT !.read = g]
  <2>3. g \in [Peers -> Nat] /\ g[p] = n /\ \A q \in Peers : q # p => g[q] = list[c].read[q]
    BY <2>2
  <2> HIDE DEF g
  <2>4. e \in Shown /\ e.ver = list[c].ver /\ e.last = list[c].last /\ e.read = g
    BY <2>2, <2>3 DEF Shown
  <2>5. list' = [list EXCEPT ![c] = e]
    BY <2>1 DEF g
  <2> HIDE DEF e
  <2>6. \A q \in Peers : e.read[q] <= read[c][q]
    BY <1>1, <1>2, <2>3, <2>4 DEF Honest
  <2>7. /\ DOMAIN list' = DOMAIN list /\ list'[c] = e
        /\ \A x \in DOMAIN list : x # c => list'[x] = list[x]
        /\ list' \in [DOMAIN list -> Shown]
    BY <1>1, <1>2, <2>4, <2>5 DEF Honest
  <2>8. Honest(ver, seq, read, list')
    BY <1>1, <1>2, <2>4, <2>6, <2>7 DEF Honest
  <2> QED
    BY <2>3, <2>4, <2>7, <2>8
<1>3. CASE c \notin DOMAIN list
  BY <1>1, <1>3 DEF ApplyReceipt
<1> QED
  BY <1>2, <1>3

-------------------------------------------------------------------------------

\* A step of a call.
LEMMA CallKeeps ==
    ASSUME IInv, Grows, NEW k \in Calls, NEW next, Become(k, next),
           HonestCall(ver', seq', read', next), events' = events,
           Honest(ver', seq', read', list')
    PROVE  IInv'
<1>1. call' = [call EXCEPT ![k] = next] /\ call = [x \in Calls |-> call[x]]
  BY DEF Become, IInv
<1>2. \A x \in Calls : call'[x] = IF x = k THEN next ELSE call[x]
  BY <1>1
<1>3. call' = [x \in Calls |-> call'[x]]
  BY <1>1
<1>4. \A x \in Calls : HonestCall(ver', seq', read', call'[x])
  BY <1>2, LaterKeeps DEF IInv
<1>5. \A e \in events' : HonestEvent(seq', read', e)
  BY LaterKeeps DEF IInv
<1>6. ver' \in Counts /\ seq' \in Counts /\ read' \in Reads
  BY DEF Grows
<1> QED
  BY <1>3, <1>4, <1>5, <1>6 DEF IInv

\* A slot with no call brings nothing.
LEMMA IdleIsHonest == \A v, s, r : HonestCall(v, s, r, Idle)
  BY DEF HonestCall, Idle

\* A call comes to its end.
LEMMA EndKeeps ==
    ASSUME IInv, NEW k \in Calls, Become(k, Idle), UNCHANGED <<server, events>>,
           Honest(ver, seq, read, list')
    PROVE  IInv'
<1>1. ver' = ver /\ seq' = seq /\ read' = read /\ events' = events
  BY DEF server
<1> QED
  BY <1>1, SameGrows, CallKeeps, IdleIsHonest

\* A call is made, or made again.
LEMMA AskedKeeps ==
    ASSUME IInv, NEW k \in Calls, NEW op, NEW c, op # "load" => c \in Convs,
           Become(k, [step |-> "asked", op |-> op, conv |-> c]),
           UNCHANGED <<server, list, events>>
    PROVE  IInv'
<1>1. ver' = ver /\ seq' = seq /\ read' = read /\ events' = events /\ list' = list
  BY DEF server
<1>2. HonestCall(ver, seq, read, [step |-> "asked", op |-> op, conv |-> c])
  BY DEF HonestCall
<1>3. Honest(ver, seq, read, list)
  BY DEF IInv
<1> QED
  BY <1>1, <1>2, <1>3, SameGrows, CallKeeps

\* The server answers.
LEMMA AnswerKeeps ==
    ASSUME IInv, Grows, NEW k \in Calls, NEW a, Answer(k, a), call[k].step = "asked",
           call[k].op \in Showing =>
               /\ Honest(ver', seq', read', a)
               /\ call[k].op \in {"start", "change", "get"} => call[k].conv \in DOMAIN a,
           call[k].op \in {"send", "react"} => a \in Nat /\ a <= seq'[call[k].conv],
           UNCHANGED <<list, events>>
    PROVE  IInv'
<1> DEFINE next == [step |-> "answered", op |-> call[k].op, conv |-> call[k].conv, answer |-> a]
<1>1. Become(k, next)
  BY DEF Answer
<1>2. /\ next.step = "answered" /\ next.op = call[k].op /\ next.conv = call[k].conv
      /\ next.answer = a
  OBVIOUS
<1>3. call[k].op # "load" => call[k].conv \in Convs
  BY DEF IInv, HonestCall
<1> HIDE DEF next
<1>4. HonestCall(ver', seq', read', next)
  BY <1>2, <1>3 DEF HonestCall, Showing
<1>5. Honest(ver', seq', read', list')
  BY LaterKeeps DEF IInv
<1> QED
  BY <1>1, <1>4, <1>5, CallKeeps

\* The page and the conversations that are read are the server's.
LEMMA ServeReadKeeps ==
    ASSUME IInv, NEW k \in Calls, ServeRead(k)
    PROVE  IInv'
<1>1. call[k].step = "asked" /\ UNCHANGED <<list, events>>
  BY DEF ServeRead
<1>2. ver' = ver /\ seq' = seq /\ read' = read
  BY DEF ServeRead, server
<1>3. Grows
  BY <1>2, SameGrows
<1>4. CASE call[k].op = "load" /\ Answer(k, Page)
  <2>1. Page = [c \in {x \in Convs : member[x]} |-> Page[c]]
    BY DEF Page
  <2>2. \A c \in {x \in Convs : member[x]} : Page[c] = Snap(c)
    BY DEF Page
  <2>3. Honest(ver, seq, read, Page)
    BY <2>1, <2>2, TableIsHonest
  <2> QED
    BY <1>1, <1>2, <1>3, <1>4, <2>3, AnswerKeeps
<1>5. CASE /\ call[k].op \in {"get", "start"}
           /\ Answer(k, [x \in {call[k].conv} |-> Snap(x)])
  <2> DEFINE f == [x \in {call[k].conv} |-> Snap(x)]
  <2>1. call[k].conv \in Convs
    BY <1>1, <1>5 DEF IInv, HonestCall
  <2>2. f = [x \in {call[k].conv} |-> f[x]]
    OBVIOUS
  <2>3. \A x \in {call[k].conv} : f[x] = Snap(x)
    OBVIOUS
  <2>4. Answer(k, f)
    BY <1>5
  <2> HIDE DEF f
  <2>5. Honest(ver, seq, read, f) /\ DOMAIN f = {call[k].conv}
    BY <2>1, <2>2, <2>3, TableIsHonest
  <2> QED
    BY <1>1, <1>2, <1>3, <1>5, <2>4, <2>5, AnswerKeeps
<1>6. CASE call[k].op = "react" /\ \E n \in 1..seq[call[k].conv] : Answer(k, n)
  <2>1. PICK n \in 1..seq[call[k].conv] : Answer(k, n)
    BY <1>6
  <2>2. call[k].conv \in Convs
    BY <1>1, <1>6 DEF IInv, HonestCall
  <2>3. n \in Nat /\ n <= seq[call[k].conv]
    BY <2>2 DEF IInv, Counts
  <2> QED
    BY <1>1, <1>2, <1>3, <1>6, <2>1, <2>3, AnswerKeeps DEF Showing
<1> QED
  BY <1>4, <1>5, <1>6 DEF ServeRead

\* A change is answered with the conversation as it is after it.
LEMMA ServeChangeKeeps ==
    ASSUME IInv, NEW k \in Calls, ServeChange(k)
    PROVE  IInv'
<1> DEFINE c == call[k].conv
           f == [x \in {c} |-> [Snap(c) EXCEPT !.ver = @ + 1]]
<1>1. /\ call[k].step = "asked" /\ call[k].op \in {"change", "remove", "leave", "start"}
      /\ ver' = [ver EXCEPT ![c] = @ + 1] /\ Answer(k, f)
      /\ UNCHANGED <<seq, read, list, events>>
  BY DEF ServeChange
<1>2. c \in Convs
  BY <1>1 DEF IInv, HonestCall
<1>3. Grows
  BY <1>1, <1>2, BumpGrows
<1>4. DOMAIN f = {c} /\ f \in [{c} -> Shown] /\ f[c].ver = ver[c] + 1 /\ f[c].last = seq[c]
      /\ f[c].read = read[c]
  BY <1>2, SnapFacts
<1> HIDE DEF f
<1>5. /\ ver'[c] = ver[c] + 1 /\ ver[c] \in Nat /\ seq[c] \in Nat
      /\ \A p \in Peers : read[c][p] \in Nat
  BY <1>1, <1>2 DEF IInv, Counts, Reads
<1>6. Honest(ver', seq', read', f)
  BY <1>1, <1>2, <1>4, <1>5 DEF Honest
<1> QED
  BY <1>1, <1>3, <1>4, <1>6, AnswerKeeps

\* A send is answered with the message that is now the last.
LEMMA ServeSendKeeps ==
    ASSUME IInv, NEW k \in Calls, ServeSend(k)
    PROVE  IInv'
<1> DEFINE c == call[k].conv
<1>1. /\ call[k].step = "asked" /\ call[k].op = "send"
      /\ seq' = [seq EXCEPT ![c] = @ + 1] /\ Answer(k, seq[c] + 1)
      /\ UNCHANGED <<ver, read, list, events>>
  BY DEF ServeSend
<1>2. c \in Convs
  BY <1>1 DEF IInv, HonestCall
<1>3. Grows
  BY <1>1, <1>2, BumpGrows
<1>4. seq[c] + 1 \in Nat /\ seq'[c] = seq[c] + 1
  BY <1>1, <1>2 DEF IInv, Counts
<1> QED
  BY <1>1, <1>3, <1>4, AnswerKeeps DEF Showing

\* The list becomes a page that was honest when it was read.
LEMMA LoadedKeeps ==
    ASSUME IInv, NEW k \in Calls, Loaded(k)
    PROVE  IInv'
<1>1. /\ call[k].step = "answered" /\ call[k].op = "load" /\ list' = call[k].answer
      /\ Become(k, Idle) /\ UNCHANGED <<server, events>>
  BY DEF Loaded
<1>2. Honest(ver, seq, read, list')
  BY <1>1 DEF IInv, HonestCall, Showing
<1> QED
  BY <1>1, <1>2, EndKeeps

\* One conversation of the list becomes the one in the answer.
LEMMA UpsertedKeeps ==
    ASSUME IInv, NEW k \in Calls, Upserted(k)
    PROVE  IInv'
<1> DEFINE c == call[k].conv
           a == call[k].answer
<1>1. /\ call[k].step = "answered" /\ call[k].op \in {"start", "change", "get"}
      /\ list' = Put(list, c, a[c])
      /\ Become(k, Idle) /\ UNCHANGED <<server, events>>
  BY DEF Upserted
<1>2. Honest(ver, seq, read, a) /\ c \in DOMAIN a /\ c \in Convs
  BY <1>1 DEF IInv, HonestCall, Showing
<1>3. /\ a[c] \in Shown /\ a[c].ver <= ver[c] /\ a[c].last <= seq[c]
      /\ \A p \in Peers : a[c].read[p] <= read[c][p]
  BY <1>2 DEF Honest
<1>4. Honest(ver, seq, read, list)
  BY DEF IInv
<1>5. Honest(ver, seq, read, list')
  BY <1>1, <1>2, <1>3, <1>4, PutIsHonest
<1> QED
  BY <1>1, <1>5, EndKeeps

\* A conversation that is forgotten claims nothing.
LEMMA GetFailsKeeps ==
    ASSUME IInv, NEW k \in Calls, GetFails(k)
    PROVE  IInv'
<1> DEFINE c == call[k].conv
<1>1. list' = Without(list, c) /\ Become(k, Idle) /\ UNCHANGED <<server, events>>
  BY DEF GetFails
<1>2. Honest(ver, seq, read, list')
  <2>1. Honest(ver, seq, read, list)
    BY DEF IInv
  <2>2. /\ DOMAIN list' = DOMAIN list \ {c}
        /\ \A x \in DOMAIN list \ {c} : list'[x] = list[x]
        /\ list' \in [DOMAIN list \ {c} -> Shown]
    BY <1>1, <2>1 DEF Without, Honest
  <2> QED
    BY <2>1, <2>2 DEF Honest
<1> QED
  BY <1>1, <1>2, EndKeeps

\* The message of an answer becomes the last one shown.
LEMMA SavedKeeps ==
    ASSUME IInv, NEW k \in Calls, Saved(k)
    PROVE  IInv'
<1>1. /\ call[k].step = "answered" /\ call[k].op \in {"send", "react"}
      /\ Applied(call[k].conv, call[k].answer)
      /\ Become(k, Idle) /\ UNCHANGED <<server, events>>
  BY DEF Saved
<1>2. /\ call[k].conv \in Convs
      /\ call[k].answer \in Nat /\ call[k].answer <= seq[call[k].conv]
  BY <1>1 DEF IInv, HonestCall
<1>3. Honest(ver, seq, read, list')
  BY <1>1, <1>2, AppliedIsHonest
<1> QED
  BY <1>1, <1>3, EndKeeps

\* The calls.
LEMMA CallStepKeeps ==
    ASSUME IInv, NEW k \in Calls, CallStep(k)
    PROVE  IInv'
<1>1. CASE LoadConversations(k)
  BY <1>1, AskedKeeps DEF LoadConversations, Ask
<1>2. ASSUME NEW c \in Convs, Start(k, c) PROVE IInv'
  BY <1>2, AskedKeeps DEF Start, Ask
<1>3. ASSUME NEW c \in Convs, ChangeIt(k, c) PROVE IInv'
  BY <1>3, AskedKeeps DEF ChangeIt, Ask
<1>4. CASE Fail(k)
  <2>1. Become(k, Idle) /\ UNCHANGED <<server, list, events>>
    BY <1>4 DEF Fail
  <2>2. Honest(ver, seq, read, list')
    BY <2>1 DEF IInv
  <2> QED
    BY <2>1, <2>2, EndKeeps
<1>5. CASE Removed(k)
  <2>1. /\ call[k].step = "answered" /\ call[k].op \in {"remove", "leave"}
        /\ Become(k, [step |-> "asked", op |-> "get", conv |-> call[k].conv])
        /\ UNCHANGED <<server, list, events>>
    BY <1>5 DEF Removed
  <2>2. call[k].conv \in Convs
    BY <2>1 DEF IInv, HonestCall
  <2> QED
    BY <2>1, <2>2, AskedKeeps
<1> QED
  BY <1>1, <1>2, <1>3, <1>4, <1>5, ServeReadKeeps, ServeChangeKeeps, ServeSendKeeps, LoadedKeeps,
     UpsertedKeeps, GetFailsKeeps, SavedKeeps DEF CallStep

\* What others do, and what is heard of it.
LEMMA GrowthKeeps ==
    ASSUME IInv, Grows, UNCHANGED <<list, call>>,
           \A e \in events' \ events : HonestEvent(seq', read', e)
    PROVE  IInv'
<1>1. Honest(ver', seq', read', list') /\ \A k \in Calls : HonestCall(ver', seq', read', call'[k])
  BY LaterKeeps DEF IInv
<1>2. \A e \in events' : HonestEvent(seq', read', e)
  BY LaterKeeps DEF IInv
<1> QED
  BY <1>1, <1>2 DEF IInv, Grows

\* A change by others raises the version.
LEMMA OthersKeep ==
    ASSUME IInv, NEW c \in Convs, OthersChange(c)
    PROVE  IInv'
<1>1. Grows
  BY BumpGrows DEF OthersChange
<1> QED
  BY <1>1, GrowthKeeps DEF OthersChange

\* A message of a peer raises seq, and its event says no more.
LEMMA PeerSendsKeeps ==
    ASSUME IInv, NEW c \in Convs, PeerSends(c)
    PROVE  IInv'
<1> DEFINE e == [type |-> "message.created", conv |-> c, seq |-> seq[c] + 1]
<1>1. /\ seq' = [seq EXCEPT ![c] = @ + 1] /\ events' = events \cup {e}
      /\ UNCHANGED <<ver, read, list, call>>
  BY DEF PeerSends
<1>2. Grows
  BY <1>1, BumpGrows
<1>3. seq[c] \in Nat /\ seq'[c] = seq[c] + 1
  BY <1>1 DEF IInv, Counts
<1>4. HonestEvent(seq', read', e)
  BY <1>3 DEF HonestEvent
<1> HIDE DEF e
<1> QED
  BY <1>1, <1>2, <1>4, GrowthKeeps

\* A reading goes forward to a message there is, and its event says no more.
LEMMA PeerReadsKeeps ==
    ASSUME IInv, NEW c \in Convs, NEW p \in Peers, PeerReads(c, p)
    PROVE  IInv'
<1>1. PICK n \in read[c][p] + 1..seq[c] :
          /\ read' = [read EXCEPT ![c][p] = n]
          /\ events' = events \cup {[type |-> "receipt.updated", conv |-> c, peer |-> p, seq |-> n]}
  BY DEF PeerReads
<1> DEFINE e == [type |-> "receipt.updated", conv |-> c, peer |-> p, seq |-> n]
<1>2. UNCHANGED <<ver, seq, list, call>>
  BY DEF PeerReads
<1>3. read[c][p] \in Nat /\ seq[c] \in Nat /\ read \in Reads
  BY DEF IInv, Reads, Counts
<1>4. n \in Nat /\ read[c][p] <= n
  BY <1>3
<1>5. read' \in Reads
  BY <1>1, <1>3, <1>4 DEF Reads
<1>6. /\ read'[c][p] = n
      /\ \A d \in Convs : \A q \in Peers : d # c \/ q # p => read'[d][q] = read[d][q]
  BY <1>1, <1>3 DEF Reads
<1>7. \A d \in Convs : \A q \in Peers : read[d][q] <= read'[d][q]
  BY <1>3, <1>4, <1>6 DEF Reads
<1>8. Grows
  BY <1>2, <1>5, <1>7 DEF IInv, Grows, Counts
<1>9. HonestEvent(seq', read', e)
  BY <1>4, <1>6 DEF HonestEvent
<1>10. events' = events \cup {e}
  BY <1>1
<1> HIDE DEF e
<1> QED
  BY <1>2, <1>8, <1>9, <1>10, GrowthKeeps

\* An event shows no more than it says.
LEMMA HandleKeeps ==
    ASSUME IInv, NEW e \in events, Handle(e)
    PROVE  IInv'
<1>1. HonestEvent(seq, read, e)
  BY DEF IInv
<1>2. events' \subseteq events /\ call' = call /\ ver' = ver /\ seq' = seq /\ read' = read
  BY DEF Handle, server
<1>3. CASE e.type = "message.created"
  <2>1. Applied(e.conv, e.seq) /\ e.conv \in Convs /\ e.seq \in Nat /\ e.seq <= seq[e.conv]
    BY <1>1, <1>3 DEF Handle, HonestEvent
  <2>2. Honest(ver, seq, read, list')
    BY <2>1, AppliedIsHonest
  <2> QED
    BY <1>2, <2>2 DEF IInv
<1>4. CASE e.type = "receipt.updated"
  <2>1. ApplyReceipt(e.conv, e.peer, e.seq)
    BY <1>4 DEF Handle
  <2>2. e.conv \in Convs /\ e.peer \in Peers /\ e.seq \in Nat /\ e.seq <= read[e.conv][e.peer]
    BY <1>1, <1>4 DEF HonestEvent
  <2>3. Honest(ver, seq, read, list')
    BY <2>1, <2>2, ReceiptIsHonest
  <2> QED
    BY <1>2, <2>3 DEF IInv
<1> QED
  BY <1>1, <1>3, <1>4 DEF HonestEvent

-------------------------------------------------------------------------------

\* At first nothing is shown.
LEMMA InitIInv == Init => IInv
<1> SUFFICES ASSUME Init PROVE IInv
  OBVIOUS
<1>1. ver \in Counts /\ seq \in Counts /\ read \in Reads
  BY DEF Init, Counts, Reads
<1>2. Honest(ver, seq, read, list)
  BY DEF Init, Honest
<1>3. call = [k \in Calls |-> call[k]] /\ \A k \in Calls : HonestCall(ver, seq, read, call[k])
  BY IdleIsHonest DEF Init
<1>4. events = {}
  BY DEF Init
<1> QED
  BY <1>1, <1>2, <1>3, <1>4 DEF IInv

\* Every step keeps it, one case for each action.
LEMMA NextKeeps == IInv /\ [Next]_vars => IInv'
<1> SUFFICES ASSUME IInv, [Next]_vars PROVE IInv'
  OBVIOUS
<1>1. CASE Miss
  BY <1>1 DEF Miss, IInv, server
<1>2. CASE UNCHANGED vars
  BY <1>2 DEF vars, IInv, server
<1> QED
  BY <1>1, <1>2, CallStepKeeps, OthersKeep, PeerSendsKeeps, PeerReadsKeeps, HandleKeeps DEF Next

\* It holds in every state that can be reached.
LEMMA Inductive == Spec => []IInv
  BY InitIInv, NextKeeps, PTL DEF Spec

\* Whatever overlaps or is lost, a message drawn with two blue ticks has been read
\* by every other member.
THEOREM TicksTellTheTruth == Spec => []TicksAreTrue
<1>1. IInv => TicksAreTrue
  <2> SUFFICES ASSUME IInv, NEW c \in DOMAIN list, NEW n \in 1..MaxSeq,
                      StatusOf(c, n) = "read", NEW p \in Peers
               PROVE  read[c][p] >= n
    BY DEF TicksAreTrue
  <2>1. list[c].read[p] >= n
    BY DEF StatusOf
  <2>2. /\ c \in Convs /\ list[c].read[p] \in Nat
        /\ list[c].read[p] <= read[c][p]
    BY DEF IInv, Honest, Shown
  <2>3. read[c][p] \in Nat
    BY <2>2 DEF IInv, Reads
  <2> QED
    BY <2>1, <2>2, <2>3
<1> QED
  BY Inductive, <1>1, PTL

-------------------------------------------------------------------------------
(* What an answer is worth *)

Untouched(c) ==
    member'[c] = member[c] /\ ver'[c] = ver[c] /\ seq'[c] = seq[c] /\ read'[c] = read[c]

\* An answer in flight shows a conversation as it is, unless dirty names it.
FreshCall(k) ==
    call[k].step = "answered" =>
        \A c \in Convs \ dirty[k] :
            /\ call[k].op = "load" =>
                  IF member[c] THEN c \in DOMAIN call[k].answer /\ call[k].answer[c] = Snap(c)
                               ELSE c \notin DOMAIN call[k].answer
            /\ call[k].op \in {"start", "change", "get"} /\ call[k].conv = c =>
                  member[c] /\ call[k].answer[c] = Snap(c)

Fresh == \A k \in Calls : FreshCall(k)

\* The histories are kept by call, the memberships by conversation.
Keyed ==
    /\ dirty = [k \in Calls |-> dirty[k]]
    /\ member = [c \in Convs |-> member[c]]

\* Every step keeps them so: no action adds or loses a key.
LEMMA KeyedNext ==
    ASSUME Keyed, [Next]_vars
    PROVE  Keyed'
<1> SUFFICES /\ dirty' = [k \in Calls |-> dirty'[k]]
             /\ member' = [c \in Convs |-> member'[c]]
  BY DEF Keyed
<1>1. dirty = [k \in Calls |-> dirty[k]] /\ member = [c \in Convs |-> member[c]]
  BY DEF Keyed
<1>2. ASSUME NEW k \in Calls, CallStep(k)
      PROVE  dirty' = [x \in Calls |-> dirty'[x]] /\ member' = [c \in Convs |-> member'[c]]
  BY <1>1, <1>2 DEF CallStep, LoadConversations, Start, ChangeIt, Ask, ServeRead, ServeChange,
       ServeSend, Fail, Loaded, Upserted, Removed, GetFails, Saved, DirtyOthers, server
<1>3. ASSUME NEW c \in Convs, OthersChange(c) \/ PeerSends(c) \/ \E p \in Peers : PeerReads(c, p)
      PROVE  dirty' = [x \in Calls |-> dirty'[x]] /\ member' = [d \in Convs |-> member'[d]]
  BY <1>1, <1>3 DEF OthersChange, PeerSends, PeerReads, Dirty
<1>4. ASSUME NEW e \in events, Handle(e)
      PROVE  dirty' = [x \in Calls |-> dirty'[x]] /\ member' = [c \in Convs |-> member'[c]]
  BY <1>1, <1>4 DEF Handle, Dirty, server
<1>5. CASE Miss \/ UNCHANGED vars
  BY <1>1, <1>5 DEF Miss, vars, server
<1> QED
  BY <1>2, <1>3, <1>4, <1>5 DEF Next

\* While an answer is in flight, dirty collects what changes.
LEMMA DirtyCovers ==
    ASSUME IInv, Keyed, [Next]_vars, NEW k \in Calls, call[k].step = "answered",
           call'[k] = call[k]
    PROVE  \A c \in Convs : c \in dirty'[k] \/ (Untouched(c) /\ c \notin dirty[k])
<1>1. /\ k \in Active
      /\ ver \in Counts /\ seq \in Counts /\ read \in Reads
      /\ dirty = [x \in Calls |-> dirty[x]] /\ call = [x \in Calls |-> call[x]]
      /\ member = [c \in Convs |-> member[c]]
  BY DEF IInv, Keyed, Active, Idle
<1>2. ASSUME NEW j \in Calls, CallStep(j)
      PROVE  \A c \in Convs : c \in dirty'[k] \/ (Untouched(c) /\ c \notin dirty[k])
  <2>1. ASSUME NEW op, NEW c, Ask(j, op, c)
        PROVE  \A d \in Convs : d \in dirty'[k] \/ (Untouched(d) /\ d \notin dirty[k])
    BY <1>1, <2>1 DEF Ask, Active, Untouched, server
  <2>2. CASE LoadConversations(j) \/ (\E c \in Convs : Start(j, c) \/ ChangeIt(j, c))
    BY <2>1, <2>2 DEF LoadConversations, Start, ChangeIt
  <2>3. CASE ServeRead(j) \/ Removed(j)
    BY <2>3 DEF ServeRead, Removed, Untouched, server
  <2>4. ASSUME j = k, Fail(j) \/ Loaded(j) \/ Upserted(j) \/ GetFails(j) \/ Saved(j)
        PROVE  FALSE
    <3>1. call'[k] = Idle
      BY <1>1, <2>4 DEF Fail, Loaded, Upserted, GetFails, Saved, Become
    <3> QED
      BY <3>1 DEF Idle
  <2>5. CASE Fail(j) \/ Loaded(j)
    BY <1>1, <2>4, <2>5 DEF Fail, Loaded, Untouched, server
  <2>6. CASE Upserted(j) \/ GetFails(j) \/ Saved(j)
    BY <1>1, <2>4, <2>6 DEF Upserted, GetFails, Saved, DirtyOthers, Untouched, server
  <2>7. CASE ServeChange(j)
    <3>1. j # k /\ call[j].conv \in dirty'[k] /\ dirty[k] \subseteq dirty'[k]
      BY <1>1, <2>7 DEF ServeChange, DirtyOthers
    <3>2. \A c \in Convs : c # call[j].conv => Untouched(c)
      BY <1>1, <2>7 DEF ServeChange, Untouched, Counts
    <3> QED
      BY <3>1, <3>2
  <2>8. CASE ServeSend(j)
    <3>1. j # k /\ call[j].conv \in dirty'[k] /\ dirty[k] \subseteq dirty'[k]
      BY <1>1, <2>8 DEF ServeSend, DirtyOthers
    <3>2. \A c \in Convs : c # call[j].conv => Untouched(c)
      BY <1>1, <2>8 DEF ServeSend, Untouched, Counts
    <3> QED
      BY <3>1, <3>2
  <2> QED
    BY <1>2, <2>2, <2>3, <2>5, <2>6, <2>7, <2>8 DEF CallStep
<1>3. ASSUME NEW c \in Convs, OthersChange(c) \/ PeerSends(c) \/ \E p \in Peers : PeerReads(c, p)
      PROVE  \A d \in Convs : d \in dirty'[k] \/ (Untouched(d) /\ d \notin dirty[k])
  <2>1. c \in dirty'[k] /\ dirty[k] \subseteq dirty'[k]
    BY <1>1, <1>3 DEF OthersChange, PeerSends, PeerReads, Dirty
  <2>2. CASE OthersChange(c)
    BY <1>1, <2>1, <2>2 DEF OthersChange, Untouched, Counts
  <2>3. CASE PeerSends(c)
    BY <1>1, <2>1, <2>3 DEF PeerSends, Untouched, Counts
  <2>4. CASE \E p \in Peers : PeerReads(c, p)
    BY <1>1, <2>1, <2>4 DEF PeerReads, Untouched, Reads
  <2> QED
    BY <1>3, <2>2, <2>3, <2>4
<1>4. ASSUME NEW e \in events, Handle(e)
      PROVE  \A d \in Convs : d \in dirty'[k] \/ (Untouched(d) /\ d \notin dirty[k])
  BY <1>1, <1>4 DEF Handle, Dirty, Untouched, server
<1>5. CASE Miss \/ UNCHANGED vars
  BY <1>5 DEF Miss, vars, Untouched, server
<1> QED
  BY <1>2, <1>3, <1>4, <1>5 DEF Next

\* An answer is new only in a step of the server.
LEMMA NewAnswer ==
    ASSUME IInv, [Next]_vars, NEW k \in Calls, call'[k] # call[k], call'[k].step = "answered"
    PROVE  ServeRead(k) \/ ServeChange(k) \/ ServeSend(k)
<1>1. call = [x \in Calls |-> call[x]]
  BY DEF IInv
<1>2. ASSUME NEW j \in Calls, NEW next, Become(j, next), next.step # "answered" PROVE FALSE
  BY <1>1, <1>2 DEF Become
<1>3. ASSUME NEW j \in Calls, CallStep(j)
      PROVE  ServeRead(k) \/ ServeChange(k) \/ ServeSend(k)
  <2>1. CASE ServeRead(j) \/ ServeChange(j) \/ ServeSend(j)
    <3>1. j = k
      BY <1>1, <2>1 DEF ServeRead, ServeChange, ServeSend, Answer, Become
    <3> QED
      BY <2>1, <3>1
  <2>2. CASE \/ LoadConversations(j) \/ (\E c \in Convs : Start(j, c) \/ ChangeIt(j, c))
             \/ Removed(j)
    BY <1>2, <2>2 DEF LoadConversations, Start, ChangeIt, Ask, Removed
  <2>3. CASE Fail(j) \/ Loaded(j) \/ Upserted(j) \/ GetFails(j) \/ Saved(j)
    BY <1>2, <2>3 DEF Fail, Loaded, Upserted, GetFails, Saved, Idle
  <2> QED
    BY <1>3, <2>1, <2>2, <2>3 DEF CallStep
<1>4. CASE call' = call
  BY <1>4
<1> QED
  BY <1>3, <1>4 DEF Next, OthersChange, PeerSends, PeerReads, Handle, Miss, vars

\* The parts of an answer.
LEMMA AnswerParts ==
    ASSUME IInv, NEW k \in Calls, NEW a, Answer(k, a)
    PROVE  /\ call'[k].step = "answered" /\ call'[k].answer = a
           /\ call'[k].op = call[k].op /\ call'[k].conv = call[k].conv
           /\ \A x \in Calls : x # k => call'[x] = call[x]
BY DEF IInv, Answer, Become

\* An answer is right when it is given, and dirty takes over from there.
LEMMA FreshNext ==
    ASSUME IInv, Keyed, Fresh, [Next]_vars
    PROVE  Fresh'
<1> SUFFICES ASSUME NEW k \in Calls, call'[k].step = "answered", NEW c \in Convs, c \notin dirty'[k]
             PROVE  /\ call'[k].op = "load" =>
                          IF member'[c] THEN /\ c \in DOMAIN call'[k].answer
                                             /\ call'[k].answer[c] = Snap(c)'
                                        ELSE c \notin DOMAIN call'[k].answer
                    /\ call'[k].op \in {"start", "change", "get"} /\ call'[k].conv = c =>
                          member'[c] /\ call'[k].answer[c] = Snap(c)'
  BY DEF Fresh, FreshCall
<1>1. CASE call'[k] = call[k]
  <2>1. Untouched(c) /\ c \notin dirty[k]
    BY <1>1, DirtyCovers
  <2>2. Snap(c)' = Snap(c) /\ member'[c] = member[c]
    BY <2>1 DEF Untouched, Snap
  <2>3. FreshCall(k)
    BY DEF Fresh
  <2> QED
    BY <1>1, <2>1, <2>2, <2>3 DEF FreshCall
<1>2. CASE ServeRead(k)
  <2>1. Snap(c)' = Snap(c) /\ member' = member
    BY <1>2 DEF ServeRead, server, Snap
  <2>2. CASE call[k].op = "load" /\ Answer(k, Page)
    BY <2>1, <2>2, AnswerParts DEF Page
  <2>3. CASE /\ call[k].op \in {"get", "start"} /\ member[call[k].conv]
             /\ Answer(k, [x \in {call[k].conv} |-> Snap(x)])
    BY <2>1, <2>3, AnswerParts
  <2>4. CASE call[k].op = "react" /\ \E n \in 1..seq[call[k].conv] : Answer(k, n)
    BY <2>4, AnswerParts
  <2> QED
    BY <1>2, <2>2, <2>3, <2>4 DEF ServeRead
<1>3. CASE ServeChange(k)
  <2> DEFINE d == call[k].conv
  <2>1. /\ call[k].op \in {"change", "remove", "leave", "start"}
        /\ ver' = [ver EXCEPT ![d] = @ + 1]
        /\ member' = [member EXCEPT ![d] = call[k].op # "leave"]
        /\ Answer(k, [x \in {d} |-> [Snap(d) EXCEPT !.ver = @ + 1]])
        /\ UNCHANGED <<seq, read>>
    BY <1>3 DEF ServeChange
  <2>2. CASE c = d
    <3>1. Snap(c)' = [ver |-> ver[c] + 1, last |-> seq[c], read |-> read[c]]
      BY <2>1, <2>2 DEF Snap, IInv, Counts
    <3>2. [Snap(c) EXCEPT !.ver = @ + 1] = Snap(c)'
      BY <3>1, SnapFacts
    <3>3. call[k].op # "leave" => member'[c]
      BY <2>1, <2>2 DEF Keyed
    <3> QED
      BY <2>1, <2>2, <3>2, <3>3, AnswerParts
  <2>3. CASE c # d
    BY <2>1, <2>3, AnswerParts
  <2> QED
    BY <2>2, <2>3
<1>4. CASE ServeSend(k)
  BY <1>4, AnswerParts DEF ServeSend
<1> QED
  BY <1>1, <1>2, <1>3, <1>4, NewAnswer

-------------------------------------------------------------------------------
(* Nothing is taken back but for named causes *)

\* What is shown says no more than the server has.
LEMMA ListBelow ==
    ASSUME IInv, NEW c \in DOMAIN list
    PROVE  /\ c \in Convs
           /\ list[c] \in Shown
           /\ list[c].ver \in Nat /\ list[c].last \in Nat
           /\ ver[c] \in Nat /\ seq[c] \in Nat
           /\ list[c].ver <= ver[c] /\ list[c].last <= seq[c]
           /\ \A p \in Peers : /\ list[c].read[p] \in Nat /\ read[c][p] \in Nat
                               /\ list[c].read[p] <= read[c][p]
BY DEF IInv, Honest, Shown, Counts, Reads

\* A conversation that is shown as before is not taken back.
LEMMA SameIsNotBack ==
    ASSUME IInv, NEW c \in Convs, c \in DOMAIN list => c \in DOMAIN list' /\ list'[c] = list[c]
    PROVE  ~ Back(c)
BY ListBelow DEF Back

\* A conversation that is shown as the server has it is not taken back.
LEMMA RightIsNotBack ==
    ASSUME IInv, NEW c \in Convs, IF member[c] THEN c \in DOMAIN list' /\ list'[c] = Snap(c)
                                               ELSE c \notin DOMAIN list'
    PROVE  ~ Back(c)
<1> SUFFICES ASSUME c \in DOMAIN list, member[c]
             PROVE  ~ \/ list'[c].ver < list[c].ver \/ list'[c].last < list[c].last
                      \/ \E p \in Peers : list'[c].read[p] < list[c].read[p]
  BY DEF Back
<1>1. list'[c].ver = ver[c] /\ list'[c].last = seq[c] /\ list'[c].read = read[c]
  BY SnapFacts
<1> QED
  BY <1>1, ListBelow

\* An older message or receipt is a named cause.
LEMMA AppliedIsNamed ==
    ASSUME IInv, NEW d \in Convs, NEW n \in Nat, n <= seq[d],
           Applied(d, n), NEW c \in Convs, Back(c)
    PROVE  c \in behind'
<1>1. /\ DOMAIN list' = DOMAIN list
      /\ \A x \in DOMAIN list : x # d => list'[x] = list[x]
      /\ d \in DOMAIN list => /\ list'[d].ver = list[d].ver /\ list'[d].last = n
                              /\ list'[d].read = list[d].read
  BY AppliedIsHonest
<1>2. c = d /\ c \in DOMAIN list
  BY <1>1, SameIsNotBack DEF Back
<1>3. n < list[c].last
  BY <1>1, <1>2, ListBelow DEF Back
<1> QED
  BY <1>2, <1>3 DEF Applied

\* A receipt likewise: only an older one takes something back.
LEMMA ReceiptIsNamed ==
    ASSUME IInv, NEW d \in Convs, NEW q \in Peers, NEW n \in Nat, n <= read[d][q],
           ApplyReceipt(d, q, n), NEW c \in Convs, Back(c)
    PROVE  c \in behind'
<1>1. /\ DOMAIN list' = DOMAIN list
      /\ \A x \in DOMAIN list : x # d => list'[x] = list[x]
      /\ d \in DOMAIN list =>
            /\ list'[d].ver = list[d].ver /\ list'[d].last = list[d].last
            /\ list'[d].read[q] = n
            /\ \A p \in Peers : p # q => list'[d].read[p] = list[d].read[p]
  BY ReceiptIsHonest
<1>2. c = d /\ c \in DOMAIN list
  BY <1>1, SameIsNotBack DEF Back
<1>3. PICK p \in Peers : list'[c].read[p] < list[c].read[p]
  BY <1>1, <1>2, ListBelow DEF Back
<1>4. p = q
  BY <1>1, <1>2, <1>3, ListBelow
<1> QED
  BY <1>1, <1>2, <1>3, <1>4 DEF ApplyReceipt

\* The end of a call takes nothing back that behind does not name.
LEMMA CallIsNamed ==
    ASSUME IInv, Fresh, NEW k \in Calls, CallStep(k), NEW c \in Convs, Back(c)
    PROVE  c \in behind'
<1>1. ASSUME list' = list PROVE FALSE
  BY <1>1, SameIsNotBack
<1>2. CASE Loaded(k)
  <2>1. /\ call[k].step = "answered" /\ call[k].op = "load" /\ list' = call[k].answer
        /\ c \in dirty[k] => c \in behind'
    BY <1>2 DEF Loaded, Known
  <2>2. CASE c \notin dirty[k]
    <3>1. IF member[c] THEN c \in DOMAIN list' /\ list'[c] = Snap(c) ELSE c \notin DOMAIN list'
      BY <2>1, <2>2 DEF Fresh, FreshCall
    <3> QED
      BY <3>1, RightIsNotBack
  <2> QED
    BY <2>1, <2>2
<1>3. CASE Upserted(k)
  <2>1. /\ call[k].step = "answered" /\ call[k].op \in {"start", "change", "get"}
        /\ list' = Put(list, call[k].conv, call[k].answer[call[k].conv])
        /\ c = call[k].conv /\ c \in dirty[k] => c \in behind'
    BY <1>3 DEF Upserted, Known
  <2>2. CASE c # call[k].conv
    <3>1. c \in DOMAIN list => c \in DOMAIN list' /\ list'[c] = list[c]
      BY <2>1, <2>2 DEF Put
    <3> QED
      BY <3>1, SameIsNotBack
  <2>3. CASE c = call[k].conv /\ c \notin dirty[k]
    <3>1. member[c] /\ call[k].answer[c] = Snap(c)
      BY <2>1, <2>3 DEF Fresh, FreshCall
    <3>2. c \in DOMAIN list' /\ list'[c] = Snap(c)
      BY <2>1, <2>3, <3>1 DEF Put
    <3> QED
      BY <3>1, <3>2, RightIsNotBack
  <2> QED
    BY <2>1, <2>2, <2>3
<1>4. CASE GetFails(k)
  <2>1. /\ list' = Without(list, call[k].conv)
        /\ c = call[k].conv /\ member[c] => c \in behind'
    BY <1>4 DEF GetFails
  <2>2. CASE c # call[k].conv
    <3>1. c \in DOMAIN list => c \in DOMAIN list' /\ list'[c] = list[c]
      BY <2>1, <2>2 DEF Without
    <3> QED
      BY <3>1, SameIsNotBack
  <2>3. CASE c = call[k].conv
    <3>1. c \notin DOMAIN list'
      BY <2>1, <2>3 DEF Without
    <3> QED
      BY <2>1, <2>3, <3>1 DEF Back
  <2> QED
    BY <2>2, <2>3
<1>5. CASE Saved(k)
  <2>1. /\ call[k].step = "answered" /\ call[k].op \in {"send", "react"}
        /\ Applied(call[k].conv, call[k].answer)
    BY <1>5 DEF Saved
  <2>2. /\ call[k].conv \in Convs
        /\ call[k].answer \in Nat /\ call[k].answer <= seq[call[k].conv]
    BY <2>1 DEF IInv, HonestCall
  <2> QED
    BY <2>1, <2>2, AppliedIsNamed
<1> QED
  BY <1>1, <1>2, <1>3, <1>4, <1>5 DEF CallStep, LoadConversations, Start, ChangeIt, Ask, ServeRead,
     ServeChange, ServeSend, Fail, Removed

\* So an event that is handled takes nothing back without a name.
LEMMA HandleIsNamed ==
    ASSUME IInv, NEW e \in events, Handle(e), NEW c \in Convs, Back(c)
    PROVE  c \in behind'
<1>1. HonestEvent(seq, read, e)
  BY DEF IInv
<1>2. CASE e.type = "message.created"
  BY <1>1, <1>2, AppliedIsNamed DEF Handle, HonestEvent
<1>3. CASE e.type = "receipt.updated"
  BY <1>1, <1>3, ReceiptIsNamed DEF Handle, HonestEvent
<1> QED
  BY <1>1, <1>2, <1>3 DEF HonestEvent

\* The answers in flight are right where dirty does not say otherwise.
LEMMA AnswersAreFresh == Spec => [](Keyed /\ Fresh)
<1>1. Init => Keyed /\ Fresh
  BY DEF Init, Keyed, Fresh, FreshCall, Idle
<1>2. IInv /\ Keyed /\ Fresh /\ [Next]_vars => (Keyed /\ Fresh)'
  BY KeyedNext, FreshNext
<1> QED
  BY <1>1, <1>2, Inductive, PTL DEF Spec

\* Whatever overlaps, what the viewer has seen of a conversation is taken back only
\* where behind names the cause.
THEOREM UndoIsNamed == Spec => NoSilentUndo
<1> DEFINE Named == \A c \in Convs : Back(c) => c \in behind'
<1>1. IInv /\ Fresh /\ [Next]_vars => [Named]_vars
  <2> SUFFICES ASSUME IInv, Fresh, Next, NEW c \in Convs, Back(c) PROVE c \in behind'
    OBVIOUS
  <2>1. list' # list
    BY SameIsNotBack
  <2> QED
    BY <2>1, CallIsNamed, HandleIsNamed DEF Next, OthersChange, PeerSends, PeerReads, Miss
<1>2. Spec => [][Named]_vars
  BY <1>1, Inductive, AnswersAreFresh, PTL DEF Spec
<1> QED
  BY <1>2 DEF NoSilentUndo

-------------------------------------------------------------------------------
(* The list is right when nothing is pending *)

\* A call that has changed conversation c, or is about to read it again.
InHand(x, c) ==
    \/ x.step = "answered" /\ x.op \in {"start", "change", "remove", "leave", "get"} /\ x.conv = c
    \/ x.step = "asked" /\ x.op = "get" /\ x.conv = c

\* A call that brings message n of conversation c.
Brings(x, c, n) == x.step = "answered" /\ x.op = "send" /\ x.conv = c /\ x.answer = n

Tells(E, c, n) == \E e \in E : e.type = "message.created" /\ e.conv = c /\ e.seq = n
Reports(E, c, p, n) ==
    \E e \in E : e.type = "receipt.updated" /\ e.conv = c /\ e.peer = p /\ e.seq = n

\* Where the list differs from the server, an event or a call will make up for it.
Explained(c) ==
    /\ (member[c] <=> c \in DOMAIN list) \/ \E k \in Calls : InHand(call[k], c)
    /\ c \in DOMAIN list =>
          /\ list[c].ver = ver[c] \/ \E k \in Calls : InHand(call[k], c)
          /\ \/ list[c].last = seq[c]
             \/ Tells(events, c, seq[c])
             \/ \E k \in Calls : Brings(call[k], c, seq[c])
          /\ \A p \in Peers : list[c].read[p] = read[c][p] \/ Reports(events, c, p, read[c][p])

AllExplained == \A c \in Convs \ behind : Explained(c)

\* A step that does not touch what is shown of a conversation.
LEMMA StaysExplained ==
    ASSUME NEW c \in Convs, Explained(c),
           \/ member'[c] = member[c] /\ ver'[c] = ver[c]
           \/ \E k \in Calls : InHand(call'[k], c),
           \/ seq'[c] = seq[c]
           \/ Tells(events', c, seq'[c])
           \/ \E k \in Calls : Brings(call'[k], c, seq'[c]),
           \A p \in Peers : read'[c][p] = read[c][p] \/ Reports(events', c, p, read'[c][p]),
           c \in DOMAIN list' <=> c \in DOMAIN list,
           c \in DOMAIN list => list'[c] = list[c],
           \A e \in events : e.conv = c => e \in events',
           \A k \in Calls : InHand(call[k], c) => InHand(call'[k], c),
           \A k \in Calls : Brings(call[k], c, seq[c]) => Brings(call'[k], c, seq[c])
    PROVE  Explained(c)'
<1>1. \A n : Tells(events, c, n) => Tells(events', c, n)
  BY DEF Tells
<1>2. \A p, n : Reports(events, c, p, n) => Reports(events', c, p, n)
  BY DEF Reports
<1>3. (member'[c] <=> c \in DOMAIN list') \/ \E k \in Calls : InHand(call'[k], c)
  BY DEF Explained
<1>4. c \in DOMAIN list' => list'[c].ver = ver'[c] \/ \E k \in Calls : InHand(call'[k], c)
  BY DEF Explained
<1>5. c \in DOMAIN list' => \/ list'[c].last = seq'[c]
                            \/ Tells(events', c, seq'[c])
                            \/ \E k \in Calls : Brings(call'[k], c, seq'[c])
  BY <1>1 DEF Explained
<1>6. c \in DOMAIN list' => \A p \in Peers : \/ list'[c].read[p] = read'[c][p]
                                             \/ Reports(events', c, p, read'[c][p])
  BY <1>2 DEF Explained
<1> QED
  BY <1>3, <1>4, <1>5, <1>6 DEF Explained

\* What is right needs no explanation.
LEMMA RightIsExplained ==
    ASSUME IInv, NEW c \in Convs, UNCHANGED server,
           IF member[c] THEN c \in DOMAIN list' /\ list'[c] = Snap(c) ELSE c \notin DOMAIN list'
    PROVE  Explained(c)'
<1>1. c \in DOMAIN list' => /\ list'[c].ver = ver'[c] /\ list'[c].last = seq'[c]
                            /\ list'[c].read = read'[c]
  BY SnapFacts DEF server
<1>2. member'[c] <=> c \in DOMAIN list'
  BY DEF server
<1> QED
  BY <1>1, <1>2 DEF Explained

\* The calls that go on when one of them ends, or is answered.
LEMMA CallsGoOn ==
    ASSUME IInv, NEW k \in Calls, NEW c, NEW n,
           \/ Become(k, Idle) /\ ~ InHand(call[k], c) /\ ~ Brings(call[k], c, n)
           \/ call[k].step = "asked" /\ \E a : Answer(k, a)
    PROVE  /\ \A x \in Calls : InHand(call[x], c) => InHand(call'[x], c)
           /\ \A x \in Calls : Brings(call[x], c, n) => Brings(call'[x], c, n)
<1>1. CASE Become(k, Idle) /\ ~ InHand(call[k], c) /\ ~ Brings(call[k], c, n)
  <2>1. \A x \in Calls : x # k => call'[x] = call[x]
    BY <1>1 DEF IInv, Become
  <2> QED
    BY <1>1, <2>1
<1>2. ASSUME call[k].step = "asked", NEW a, Answer(k, a)
      PROVE  /\ \A x \in Calls : InHand(call[x], c) => InHand(call'[x], c)
             /\ \A x \in Calls : Brings(call[x], c, n) => Brings(call'[x], c, n)
  <2>1. /\ call'[k].step = "answered" /\ call'[k].op = call[k].op /\ call'[k].conv = call[k].conv
        /\ \A x \in Calls : x # k => call'[x] = call[x]
    BY <1>2, AnswerParts
  <2>2. InHand(call[k], c) => InHand(call'[k], c)
    BY <1>2, <2>1 DEF InHand
  <2>3. ~ Brings(call[k], c, n)
    BY <1>2 DEF Brings
  <2> QED
    BY <2>1, <2>2, <2>3
<1> QED
  BY <1>1, <1>2

\* A new last message is the server's last, or the one that is will come.
LEMMA AppliedExplained ==
    ASSUME IInv, NEW c \in Convs, NEW n \in Nat, n <= seq[c], Applied(c, n), Explained(c),
           c \notin behind', UNCHANGED server,
           \A e \in events : e.conv = c /\ ~ (e.type = "message.created" /\ e.seq = n)
                             => e \in events',
           \A k \in Calls : InHand(call[k], c) => InHand(call'[k], c),
           n # seq[c] =>
              \A k \in Calls : Brings(call[k], c, seq[c]) => Brings(call'[k], c, seq[c])
    PROVE  Explained(c)'
<1>0. member' = member /\ ver' = ver /\ seq' = seq /\ read' = read
  BY DEF server
<1>1. /\ DOMAIN list' = DOMAIN list
      /\ c \in DOMAIN list => /\ list'[c].ver = list[c].ver /\ list'[c].last = n
                              /\ list'[c].read = list[c].read
                              /\ n >= list[c].last
                              /\ list[c].last \in Nat /\ seq[c] \in Nat
  BY AppliedIsHonest, ListBelow DEF Applied
<1>2. (member'[c] <=> c \in DOMAIN list') \/ \E k \in Calls : InHand(call'[k], c)
  BY <1>0, <1>1 DEF Explained
<1>3. c \in DOMAIN list' => list'[c].ver = ver'[c] \/ \E k \in Calls : InHand(call'[k], c)
  BY <1>0, <1>1 DEF Explained
<1>4. ASSUME c \in DOMAIN list'
      PROVE  \/ list'[c].last = seq'[c]
             \/ Tells(events', c, seq'[c])
             \/ \E k \in Calls : Brings(call'[k], c, seq'[c])
  <2>1. CASE n = seq[c]
    BY <1>0, <1>1, <1>4, <2>1
  <2>2. CASE n # seq[c]
    <3>1. list[c].last # seq[c]
      BY <1>1, <1>4, <2>2
    <3>2. Tells(events, c, seq[c]) => Tells(events', c, seq[c])
      BY <2>2 DEF Tells
    <3> QED
      BY <1>0, <1>1, <1>4, <2>2, <3>1, <3>2 DEF Explained
  <2> QED
    BY <2>1, <2>2
<1>5. ASSUME c \in DOMAIN list', NEW p \in Peers
      PROVE  list'[c].read[p] = read'[c][p] \/ Reports(events', c, p, read'[c][p])
  <2>1. Reports(events, c, p, read[c][p]) => Reports(events', c, p, read[c][p])
    BY DEF Reports
  <2> QED
    BY <1>0, <1>1, <1>5, <2>1 DEF Explained
<1> QED
  BY <1>2, <1>3, <1>4, <1>5 DEF Explained

\* A receipt, likewise.
LEMMA ReceiptExplained ==
    ASSUME IInv, NEW c \in Convs, NEW q \in Peers, NEW n \in Nat, n <= read[c][q],
           ApplyReceipt(c, q, n), Explained(c), c \notin behind', UNCHANGED <<server, call>>,
           \A e \in events : e.conv = c /\ ~ (/\ e.type = "receipt.updated"
                                              /\ e.peer = q /\ e.seq = n)
                             => e \in events'
    PROVE  Explained(c)'
<1>0. member' = member /\ ver' = ver /\ seq' = seq /\ read' = read /\ call' = call
  BY DEF server
<1>8. /\ DOMAIN list' = DOMAIN list
      /\ c \in DOMAIN list =>
            /\ list'[c].ver = list[c].ver /\ list'[c].last = list[c].last
            /\ list'[c].read[q] = n
            /\ \A p \in Peers : p # q => list'[c].read[p] = list[c].read[p]
  BY ReceiptIsHonest
<1>9. c \in DOMAIN list =>
         list[c].read[q] \in Nat /\ read[c][q] \in Nat /\ list[c].read[q] <= read[c][q]
  BY ListBelow
<1>1. /\ DOMAIN list' = DOMAIN list
      /\ c \in DOMAIN list =>
            /\ list'[c].ver = list[c].ver /\ list'[c].last = list[c].last
            /\ list'[c].read[q] = n /\ n >= list[c].read[q]
            /\ list[c].read[q] \in Nat /\ read[c][q] \in Nat
            /\ \A p \in Peers : p # q => list'[c].read[p] = list[c].read[p]
  BY <1>8, <1>9 DEF ApplyReceipt
<1>2. (member'[c] <=> c \in DOMAIN list') \/ \E k \in Calls : InHand(call'[k], c)
  BY <1>0, <1>1 DEF Explained
<1>3. c \in DOMAIN list' => list'[c].ver = ver'[c] \/ \E k \in Calls : InHand(call'[k], c)
  BY <1>0, <1>1 DEF Explained
<1>4. Tells(events, c, seq[c]) => Tells(events', c, seq[c])
  BY DEF Tells
<1>5. c \in DOMAIN list' => \/ list'[c].last = seq'[c]
                            \/ Tells(events', c, seq'[c])
                            \/ \E k \in Calls : Brings(call'[k], c, seq'[c])
  BY <1>0, <1>1, <1>4 DEF Explained
<1>6. ASSUME c \in DOMAIN list', NEW p \in Peers
      PROVE  list'[c].read[p] = read'[c][p] \/ Reports(events', c, p, read'[c][p])
  <2>1. p # q \/ n # read[c][q]
        => (Reports(events, c, p, read[c][p]) => Reports(events', c, p, read[c][p]))
    BY DEF Reports
  <2>2. list[c].read[p] = read[c][p] \/ Reports(events, c, p, read[c][p])
    BY <1>1, <1>6 DEF Explained
  <2>3. CASE p = q
    BY <1>0, <1>1, <1>6, <2>1, <2>2, <2>3
  <2>4. CASE p # q
    BY <1>0, <1>1, <1>6, <2>1, <2>2, <2>4
  <2> QED
    BY <2>3, <2>4
<1> QED
  BY <1>2, <1>3, <1>5, <1>6 DEF Explained

\* The end of a call that shows nothing, or shows other conversations only.
LEMMA OtherStays ==
    ASSUME IInv, NEW k \in Calls, NEW c \in Convs, Explained(c), UNCHANGED <<server, events>>,
           Become(k, Idle), ~ InHand(call[k], c), ~ Brings(call[k], c, seq[c]),
           c \in DOMAIN list' <=> c \in DOMAIN list, c \in DOMAIN list => list'[c] = list[c]
    PROVE  Explained(c)'
<1>1. /\ \A x \in Calls : InHand(call[x], c) => InHand(call'[x], c)
      /\ \A x \in Calls : Brings(call[x], c, seq[c]) => Brings(call'[x], c, seq[c])
  BY CallsGoOn
<1>2. /\ member'[c] = member[c] /\ ver'[c] = ver[c] /\ seq'[c] = seq[c]
      /\ \A p \in Peers : read'[c][p] = read[c][p]
  BY DEF server
<1> QED
  BY <1>1, <1>2, StaysExplained

\* The server's part of a call.
LEMMA ServedExplained ==
    ASSUME IInv, NEW k \in Calls, ServeRead(k) \/ ServeChange(k) \/ ServeSend(k),
           NEW c \in Convs, Explained(c)
    PROVE  Explained(c)'
<1>1. /\ call[k].step = "asked" /\ \E a : Answer(k, a)
      /\ events' = events /\ list' = list
  BY DEF ServeRead, ServeChange, ServeSend
<1>2. /\ \A x \in Calls : InHand(call[x], c) => InHand(call'[x], c)
      /\ \A x \in Calls : Brings(call[x], c, seq[c]) => Brings(call'[x], c, seq[c])
  BY <1>1, CallsGoOn
<1>3. CASE ServeRead(k)
  <2>1. /\ member'[c] = member[c] /\ ver'[c] = ver[c] /\ seq'[c] = seq[c]
        /\ \A p \in Peers : read'[c][p] = read[c][p]
    BY <1>3 DEF ServeRead, server
  <2> QED
    BY <1>1, <1>2, <2>1, StaysExplained
<1>4. CASE ServeChange(k)
  <2>1. /\ seq'[c] = seq[c] /\ \A p \in Peers : read'[c][p] = read[c][p]
        /\ call[k].op \in {"change", "remove", "leave", "start"}
        /\ call[k].conv # c => member'[c] = member[c] /\ ver'[c] = ver[c]
        /\ \E a : Answer(k, a)
    BY <1>4 DEF ServeChange
  <2>2. call[k].conv = c => InHand(call'[k], c)
    BY <2>1, AnswerParts DEF InHand
  <2> QED
    BY <1>1, <1>2, <2>1, <2>2, StaysExplained
<1>5. CASE ServeSend(k)
  <2>1. /\ member'[c] = member[c] /\ ver'[c] = ver[c]
        /\ \A p \in Peers : read'[c][p] = read[c][p]
        /\ call[k].op = "send" /\ Answer(k, seq[call[k].conv] + 1)
        /\ seq' = [seq EXCEPT ![call[k].conv] = @ + 1]
    BY <1>5 DEF ServeSend
  <2>2. call[k].conv # c => seq'[c] = seq[c]
    BY <2>1
  <2>3. call[k].conv = c => seq'[c] = seq[c] + 1
    BY <2>1 DEF IInv, Counts
  <2>4. call[k].conv = c => Brings(call'[k], c, seq'[c])
    BY <2>1, <2>3, AnswerParts DEF Brings
  <2> QED
    BY <1>1, <1>2, <2>1, <2>2, <2>4, StaysExplained
<1> QED
  BY <1>3, <1>4, <1>5

\* The tab's part of a call.
LEMMA CallExplained ==
    ASSUME IInv, Fresh, NEW k \in Calls, CallStep(k), NEW c \in Convs, c \notin behind',
           c \notin behind => Explained(c)
    PROVE  Explained(c)'
<1>1. CASE LoadConversations(k) \/ (\E d \in Convs : Start(k, d) \/ ChangeIt(k, d))
  <2>1. PICK op, d : Ask(k, op, d)
    BY <1>1 DEF LoadConversations, Start, ChangeIt
  <2>2. /\ call[k] = Idle /\ UNCHANGED <<server, list, events, behind>>
        /\ call' = [call EXCEPT ![k] = [step |-> "asked", op |-> op, conv |-> d]]
    BY <2>1 DEF Ask, Become
  <2>3. \A x \in Calls : x # k => call'[x] = call[x]
    BY <2>2 DEF IInv
  <2>4. ~ InHand(call[k], c) /\ ~ Brings(call[k], c, seq[c])
    BY <2>2 DEF InHand, Brings, Idle
  <2>5. /\ member'[c] = member[c] /\ ver'[c] = ver[c] /\ seq'[c] = seq[c]
        /\ \A p \in Peers : read'[c][p] = read[c][p]
    BY <2>2 DEF server
  <2> QED
    BY <2>2, <2>3, <2>4, <2>5, StaysExplained
<1>2. CASE ServeRead(k) \/ ServeChange(k) \/ ServeSend(k)
  <2>1. behind' = behind
    BY <1>2 DEF ServeRead, ServeChange, ServeSend
  <2> QED
    BY <1>2, <2>1, ServedExplained
<1>3. CASE Fail(k)
  <2>1. /\ Become(k, Idle) /\ UNCHANGED <<server, events>> /\ list' = list
        /\ call[k].step \in {"asked", "answered"} /\ call[k].op # "get"
        /\ c \notin behind
        /\ call[k].step = "answered" /\ call[k].op \notin {"load", "react"} => call[k].conv # c
    BY <1>3 DEF Fail
  <2>2. ~ InHand(call[k], c) /\ ~ Brings(call[k], c, seq[c])
    BY <2>1 DEF InHand, Brings
  <2> QED
    BY <2>1, <2>2, OtherStays
<1>4. CASE Loaded(k)
  <2>1. /\ call[k].step = "answered" /\ call[k].op = "load" /\ list' = call[k].answer
        /\ c \notin dirty[k] /\ UNCHANGED server
    BY <1>4 DEF Loaded, Known
  <2>2. IF member[c] THEN c \in DOMAIN list' /\ list'[c] = Snap(c) ELSE c \notin DOMAIN list'
    BY <2>1 DEF Fresh, FreshCall
  <2> QED
    BY <2>1, <2>2, RightIsExplained
<1>5. CASE Upserted(k)
  <2>1. /\ call[k].step = "answered" /\ call[k].op \in {"start", "change", "get"}
        /\ list' = Put(list, call[k].conv, call[k].answer[call[k].conv])
        /\ behind' = (behind \ {call[k].conv}) \cup ({call[k].conv} \cap dirty[k])
        /\ UNCHANGED server /\ UNCHANGED <<server, events>> /\ Become(k, Idle)
    BY <1>5 DEF Upserted, Known
  <2>2. CASE c = call[k].conv
    <3>1. member[c] /\ call[k].answer[c] = Snap(c)
      BY <2>1, <2>2 DEF Fresh, FreshCall
    <3>2. c \in DOMAIN list' /\ list'[c] = Snap(c)
      BY <2>1, <2>2, <3>1 DEF Put
    <3> QED
      BY <2>1, <3>1, <3>2, RightIsExplained
  <2>3. CASE c # call[k].conv
    <3>1. /\ c \in DOMAIN list' <=> c \in DOMAIN list
          /\ c \in DOMAIN list => list'[c] = list[c]
      BY <2>1, <2>3 DEF Put
    <3>2. ~ InHand(call[k], c) /\ ~ Brings(call[k], c, seq[c])
      BY <2>3 DEF InHand, Brings
    <3>3. c \notin behind
      BY <2>1, <2>3
    <3> QED
      BY <2>1, <3>1, <3>2, <3>3, OtherStays
  <2> QED
    BY <2>2, <2>3
<1>6. CASE Removed(k)
  <2>1. /\ call[k].step = "answered" /\ call[k].op \in {"remove", "leave"}
        /\ call' = [call EXCEPT ![k] = [step |-> "asked", op |-> "get", conv |-> call[k].conv]]
        /\ UNCHANGED <<server, list, events, behind>>
    BY <1>6 DEF Removed, Become
  <2>2. /\ \A x \in Calls : x # k => call'[x] = call[x]
        /\ call'[k].step = "asked" /\ call'[k].op = "get" /\ call'[k].conv = call[k].conv
    BY <2>1 DEF IInv
  <2>3. InHand(call[k], c) => InHand(call'[k], c)
    BY <2>1, <2>2 DEF InHand
  <2>4. ~ Brings(call[k], c, seq[c])
    BY <2>1 DEF Brings
  <2>5. /\ member'[c] = member[c] /\ ver'[c] = ver[c] /\ seq'[c] = seq[c]
        /\ \A p \in Peers : read'[c][p] = read[c][p]
    BY <2>1 DEF server
  <2> QED
    BY <2>1, <2>2, <2>3, <2>4, <2>5, StaysExplained
<1>7. CASE GetFails(k)
  <2>1. /\ call[k].op = "get" /\ list' = Without(list, call[k].conv)
        /\ behind' = IF member[call[k].conv] THEN behind \cup {call[k].conv}
                     ELSE behind \ {call[k].conv}
        /\ UNCHANGED server /\ UNCHANGED <<server, events>> /\ Become(k, Idle)
    BY <1>7 DEF GetFails
  <2>2. CASE c = call[k].conv
    <3>1. ~ member[c] /\ c \notin DOMAIN list'
      BY <2>1, <2>2 DEF Without
    <3> QED
      BY <2>1, <3>1, RightIsExplained
  <2>3. CASE c # call[k].conv
    <3>1. /\ c \in DOMAIN list' <=> c \in DOMAIN list
          /\ c \in DOMAIN list => list'[c] = list[c]
      BY <2>1, <2>3 DEF Without
    <3>2. ~ InHand(call[k], c) /\ ~ Brings(call[k], c, seq[c])
      BY <2>3 DEF InHand, Brings
    <3>3. c \notin behind
      BY <2>1, <2>3
    <3> QED
      BY <2>1, <3>1, <3>2, <3>3, OtherStays
  <2> QED
    BY <2>2, <2>3
<1>8. CASE Saved(k)
  <2> DEFINE d == call[k].conv
             n == call[k].answer
  <2>1. /\ call[k].step = "answered" /\ call[k].op \in {"send", "react"}
        /\ Applied(d, n) /\ Become(k, Idle)
        /\ UNCHANGED server /\ UNCHANGED events /\ UNCHANGED <<server, events>>
    BY <1>8 DEF Saved
  <2>2. d \in Convs /\ n \in Nat /\ n <= seq[d]
    BY <2>1 DEF IInv, HonestCall
  <2>3. c \notin behind
    BY <2>1 DEF Applied
  <2>4. ~ InHand(call[k], c)
    BY <2>1 DEF InHand
  <2>5. ~ Brings(call[k], c, seq[c]) \/ (c = d /\ n = seq[c])
    BY DEF Brings
  <2>6. CASE c = d
    <3>1. n # seq[c] => ~ Brings(call[k], c, seq[c])
      BY <2>5
    <3>2. \A x \in Calls : InHand(call[x], c) => InHand(call'[x], c)
      <4>1. \A x \in Calls : x # k => call'[x] = call[x]
        BY <2>1 DEF Become, IInv
      <4> QED
        BY <2>4, <4>1
    <3>3. n # seq[c] => \A x \in Calls : Brings(call[x], c, seq[c]) => Brings(call'[x], c, seq[c])
      BY <2>1, <2>4, <3>1, CallsGoOn
    <3> HIDE DEF d, n
    <3>4. \A e \in events : e.conv = c /\ ~ (e.type = "message.created" /\ e.seq = n)
                             => e \in events'
      BY <2>1
    <3> QED
      BY <2>1, <2>2, <2>3, <2>6, <3>2, <3>3, <3>4, AppliedExplained
  <2>7. CASE c # d
    <3>1. /\ DOMAIN list' = DOMAIN list
          /\ \A x \in DOMAIN list : x # d => list'[x] = list[x]
      BY <2>1, <2>2, AppliedIsHonest
    <3> QED
      BY <2>1, <2>3, <2>4, <2>5, <2>7, <3>1, OtherStays
  <2> QED
    BY <2>6, <2>7
<1> QED
  BY <1>1, <1>2, <1>3, <1>4, <1>5, <1>6, <1>7, <1>8 DEF CallStep

\* What others do.
LEMMA OthersExplained ==
    ASSUME IInv, NEW d \in Convs,
           OthersChange(d) \/ PeerSends(d) \/ \E p \in Peers : PeerReads(d, p),
           NEW c \in Convs, c \notin behind', c \notin behind => Explained(c)
    PROVE  Explained(c)'
<1>1. call' = call /\ list' = list
  BY DEF OthersChange, PeerSends, PeerReads
<1>2. CASE OthersChange(d)
  <2>1. c # d /\ c \notin behind
    BY <1>2 DEF OthersChange
  <2>2. /\ member'[c] = member[c] /\ ver'[c] = ver[c] /\ seq'[c] = seq[c] /\ events' = events
        /\ \A p \in Peers : read'[c][p] = read[c][p]
    BY <1>2, <2>1 DEF OthersChange
  <2> QED
    BY <1>1, <2>1, <2>2, StaysExplained
<1>3. CASE PeerSends(d)
  <2>1. /\ member'[c] = member[c] /\ ver'[c] = ver[c] /\ c \notin behind
        /\ \A p \in Peers : read'[c][p] = read[c][p]
        /\ \A e \in events : e \in events'
        /\ c # d => seq'[c] = seq[c]
    BY <1>3 DEF PeerSends
  <2>2. c = d => Tells(events', c, seq'[c])
    <3>1. seq'[d] = seq[d] + 1
      BY <1>3 DEF PeerSends, IInv, Counts
    <3>2. [type |-> "message.created", conv |-> d, seq |-> seq[d] + 1] \in events'
      BY <1>3 DEF PeerSends
    <3> QED
      BY <3>1, <3>2 DEF Tells
  <2> QED
    BY <1>1, <2>1, <2>2, StaysExplained
<1>4. ASSUME NEW q \in Peers, PeerReads(d, q)
      PROVE  Explained(c)'
  <2>1. PICK n \in read[d][q] + 1..seq[d] :
           /\ read' = [read EXCEPT ![d][q] = n]
           /\ events' = events
                 \cup {[type |-> "receipt.updated", conv |-> d, peer |-> q, seq |-> n]}
    BY <1>4 DEF PeerReads
  <2>2. member'[c] = member[c] /\ ver'[c] = ver[c] /\ seq'[c] = seq[c] /\ c \notin behind
    BY <1>4 DEF PeerReads
  <2>3. \A p \in Peers : read'[c][p] = IF c = d /\ p = q THEN n ELSE read[c][p]
    BY <2>1 DEF IInv, Reads
  <2>4. Reports(events', d, q, n)
    <3> DEFINE new == [type |-> "receipt.updated", conv |-> d, peer |-> q, seq |-> n]
    <3>1. /\ new.type = "receipt.updated" /\ new.conv = d
          /\ new.peer = q /\ new.seq = n
      OBVIOUS
    <3>2. new \in events'
      BY <2>1
    <3> HIDE DEF new
    <3> QED
      BY <3>1, <3>2 DEF Reports
  <2>5. \A p \in Peers : read'[c][p] = read[c][p] \/ Reports(events', c, p, read'[c][p])
    BY <2>3, <2>4
  <2>6. \A e \in events : e \in events'
    BY <2>1
  <2> QED
    BY <1>1, <2>2, <2>5, <2>6, StaysExplained
<1> QED
  BY <1>2, <1>3, <1>4

\* An event is handled.
LEMMA HandleExplained ==
    ASSUME IInv, NEW h \in events, Handle(h), NEW c \in Convs, c \notin behind',
           c \notin behind => Explained(c)
    PROVE  Explained(c)'
<1>1. HonestEvent(seq, read, h)
  BY DEF IInv
<1>2. /\ events' = events \ {h} /\ UNCHANGED server /\ call' = call
      /\ h.conv \in Convs /\ h.seq \in Nat /\ UNCHANGED <<server, call>>
  BY <1>1 DEF Handle, HonestEvent
<1>3. /\ member'[c] = member[c] /\ ver'[c] = ver[c] /\ seq'[c] = seq[c]
      /\ \A p \in Peers : read'[c][p] = read[c][p]
  BY <1>2 DEF server
<1>4. CASE h.type = "message.created"
  <2>1. Applied(h.conv, h.seq) /\ h.seq <= seq[h.conv] /\ c \notin behind
    BY <1>1, <1>4 DEF Handle, Applied, HonestEvent
  <2>2. CASE c = h.conv
    <3>1. \A e \in events : e.conv = c /\ ~ (e.type = "message.created" /\ e.seq = h.seq)
                            => e \in events'
      BY <1>2, <1>4
    <3> QED
      BY <1>2, <2>1, <2>2, <3>1, AppliedExplained
  <2>3. CASE c # h.conv
    <3>1. /\ DOMAIN list' = DOMAIN list
          /\ \A x \in DOMAIN list : x # h.conv => list'[x] = list[x]
      BY <1>2, <2>1, AppliedIsHonest
    <3> QED
      BY <1>2, <1>3, <2>1, <2>3, <3>1, StaysExplained
  <2> QED
    BY <2>2, <2>3
<1>5. CASE h.type = "receipt.updated"
  <2>1. /\ ApplyReceipt(h.conv, h.peer, h.seq) /\ h.peer \in Peers
        /\ h.seq <= read[h.conv][h.peer] /\ c \notin behind
    BY <1>1, <1>5 DEF Handle, ApplyReceipt, HonestEvent
  <2>2. CASE c = h.conv
    <3>1. \A e \in events : e.conv = c /\ ~ (/\ e.type = "receipt.updated"
                                             /\ e.peer = h.peer /\ e.seq = h.seq)
                            => e \in events'
      BY <1>2, <1>5
    <3> QED
      BY <1>2, <2>1, <2>2, <3>1, ReceiptExplained
  <2>3. CASE c # h.conv
    <3>1. /\ DOMAIN list' = DOMAIN list
          /\ \A x \in DOMAIN list : x # h.conv => list'[x] = list[x]
      BY <1>2, <2>1, ReceiptIsHonest
    <3> QED
      BY <1>2, <1>3, <2>1, <2>3, <3>1, StaysExplained
  <2> QED
    BY <2>2, <2>3
<1> QED
  BY <1>1, <1>4, <1>5 DEF HonestEvent

\* The events are missed.
LEMMA MissExplained ==
    ASSUME IInv, Miss, NEW c \in Convs, c \notin behind', c \notin behind => Explained(c)
    PROVE  Explained(c)'
<1>1. /\ c \notin behind /\ \A e \in events : e.conv # c
      /\ UNCHANGED server /\ call' = call /\ list' = list
  BY DEF Miss
<1>2. /\ member'[c] = member[c] /\ ver'[c] = ver[c] /\ seq'[c] = seq[c]
      /\ \A p \in Peers : read'[c][p] = read[c][p]
  BY <1>1 DEF server
<1> QED
  BY <1>1, <1>2, StaysExplained

\* Every step keeps the explanations of what behind does not name.
LEMMA ExplainedNext ==
    ASSUME IInv, Fresh, AllExplained, [Next]_vars
    PROVE  AllExplained'
<1> SUFFICES ASSUME NEW c \in Convs, c \notin behind'
             PROVE  Explained(c)'
  BY DEF AllExplained
<1>1. c \notin behind => Explained(c)
  BY DEF AllExplained
<1>2. CASE UNCHANGED vars
  BY <1>1, <1>2 DEF vars, server, Explained
<1> QED
  BY <1>1, <1>2, CallExplained, OthersExplained, HandleExplained, MissExplained DEF Next

\* When no event and no call is left to explain a difference, there is none.
LEMMA ExplainedIsRight ==
    ASSUME IInv, AllExplained
    PROVE  RightWhenQuiet
<1> SUFFICES ASSUME NEW c \in Convs \ behind, ~ Pending(c)
             PROVE  IF member[c] THEN c \in DOMAIN list /\ list[c] = Snap(c)
                                 ELSE c \notin DOMAIN list
  BY DEF RightWhenQuiet
<1>1. \A k \in Calls : call[k] = Idle
  BY DEF Pending, Active
<1>2. \A k \in Calls : ~ InHand(call[k], c) /\ ~ Brings(call[k], c, seq[c])
  BY <1>1 DEF InHand, Brings, Idle
<1>3. /\ ~ Tells(events, c, seq[c])
      /\ \A p \in Peers : ~ Reports(events, c, p, read[c][p])
  BY DEF Pending, Tells, Reports
<1>4. /\ member[c] <=> c \in DOMAIN list
      /\ c \in DOMAIN list => /\ list[c].ver = ver[c] /\ list[c].last = seq[c]
                              /\ \A p \in Peers : list[c].read[p] = read[c][p]
  BY <1>2, <1>3 DEF AllExplained, Explained
<1>5. c \in DOMAIN list => list[c] = Snap(c)
  <2> HAVE c \in DOMAIN list
  <2>1. list[c] \in Shown /\ Snap(c) \in Shown
    BY ListBelow, SnapFacts
  <2>2. list[c].read \in [Peers -> Nat] /\ read[c] \in [Peers -> Nat]
    BY <2>1 DEF Shown, IInv, Reads
  <2>3. list[c].read = read[c]
    BY <1>4, <2>2
  <2>4. /\ list[c].ver = Snap(c).ver /\ list[c].last = Snap(c).last
        /\ list[c].read = Snap(c).read
    BY <1>4, <2>3, SnapFacts
  <2> QED
    BY <2>1, <2>4 DEF Shown
<1> QED
  BY <1>4, <1>5

\* For any number of conversations, peers and overlapping calls, a list with nothing
\* pending is the server's, outside the named causes.
THEOREM ListIsRight == Spec => []RightWhenQuiet
<1>1. Init => AllExplained
  BY DEF Init, AllExplained, Explained
<1>2. IInv /\ Fresh /\ AllExplained /\ [Next]_vars => AllExplained'
  BY ExplainedNext
<1>3. IInv /\ AllExplained => RightWhenQuiet
  BY ExplainedIsRight
<1> QED
  BY <1>1, <1>2, <1>3, Inductive, AnswersAreFresh, PTL DEF Spec
===============================================================================
