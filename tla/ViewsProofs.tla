----------------------------- MODULE ViewsProofs ------------------------------
(* The views.  The composer: nothing is lost that was not at risk, nothing   *)
(* is sent twice, no file the user saw is left out and no row waits for      *)
(* good, for any number of words, files, replies and calls of attachFiles.   *)
(* The dialogs: they show the user's contacts and the results of what is     *)
(* typed, and create one group, for any number of users, terms and calls in  *)
(* flight.                                                                   *)
EXTENDS Composer, Dialogs, TLAPS

\* What the store has accepted.
Taken == UNION RangeOf(accepted)

\* One submit at a time.  What the textarea and the rows hold by now is at risk,
\* and so is a reply chosen since; what it carries can be put back.
Flight ==
    /\ \A x, y \in sending : x = y
    /\ \A x \in sending :
          /\ text \cup drafts \subseteq risky
          /\ reply \subseteq x.message \cup risky
          /\ x.message \subseteq x.words \cup x.rows \cup reply \cup removed

\* A file is picked once.
Distinct ==
    \A l, n \in Loops : \A i \in 1..Len(picked[l]) : \A j \in 1..Len(picked[n]) :
        picked[l][i] = picked[n][j] => l = n /\ i = j

\* What is shown, in flight or accepted has been used.
AllUsed ==
    /\ text \cup drafts \cup reply \cup InFlight \cup Taken \subseteq used
    /\ \A l \in Loops : RangeOf(picked[l]) \subseteq used

\* An item is in one place; only a reply is both shown and in flight.
Apart ==
    /\ Taken \cap (text \cup drafts \cup ToGo \cup reply \cup InFlight) = {}
    /\ InFlight \cap (text \cup drafts \cup ToGo) = {}
    /\ ToGo \cap (text \cup drafts \cup reply) = {}
    /\ \A x \in sending : x.words \subseteq x.message

\* A file that is being uploaded has no attachment yet, nor had it in the submit.
Unfinished ==
    \A l \in Loops : picked[l] # << >> /\ stage[l] = "upload" =>
        /\ Head(picked[l]) \notin ready
        /\ \A x \in sending : Head(picked[l]) \notin x.rows

Kept == TypeOK /\ NoStuckRow /\ EveryRowSent
Once == Distinct /\ AllUsed /\ Apart /\ Unfinished /\ HandedOnce

IInv == Kept /\ Flight /\ NothingLost /\ Once

-------------------------------------------------------------------------------
(* Sequences and files to go *)

\* The head and the tail of a list, by position.
LEMMA HeadTail ==
    ASSUME NEW S, NEW p \in Seq(S), p # << >>
    PROVE  /\ Head(p) \in S /\ Head(p) = p[1] /\ Len(p) \in Nat /\ 1 \in 1..Len(p)
           /\ Tail(p) \in Seq(S) /\ Len(Tail(p)) = Len(p) - 1
           /\ \A i \in 1..Len(Tail(p)) : Tail(p)[i] = p[i + 1] /\ i + 1 \in 1..Len(p)
           /\ \A i \in 1..Len(p) : i # 1 => i - 1 \in 1..Len(Tail(p)) /\ Tail(p)[i - 1] = p[i]
<1>1. Len(p) \in Nat /\ Len(p) # 0
  OBVIOUS
<1>2. Head(p) \in S /\ Head(p) = p[1] /\ Tail(p) \in Seq(S) /\ Len(Tail(p)) = Len(p) - 1
  BY <1>1
<1>3. \A i \in 1..Len(Tail(p)) : Tail(p)[i] = p[i + 1]
  BY <1>1
<1> QED
  BY <1>1, <1>2, <1>3

\* What is in a list of sets after one was put at its end.
LEMMA AppendRange ==
    ASSUME NEW S, NEW q \in Seq(S), NEW e \in S
    PROVE  /\ Append(q, e) \in Seq(S)
           /\ UNION RangeOf(Append(q, e)) = (UNION RangeOf(q)) \cup e
           /\ Len(Append(q, e)) = Len(q) + 1 /\ Len(q) \in Nat
           /\ \A i \in 1..Len(q) : Append(q, e)[i] = q[i] /\ q[i] \subseteq UNION RangeOf(q)
           /\ Append(q, e)[Len(q) + 1] = e
<1>1. /\ Append(q, e) \in Seq(S) /\ Len(q) \in Nat /\ Len(Append(q, e)) = Len(q) + 1
      /\ \A i \in 1..Len(q) : Append(q, e)[i] = q[i]
      /\ Append(q, e)[Len(q) + 1] = e
  OBVIOUS
<1>2. 1..(Len(q) + 1) = 1..Len(q) \cup {Len(q) + 1}
  BY <1>1
<1>3. RangeOf(Append(q, e)) = RangeOf(q) \cup {e}
  BY <1>1, <1>2 DEF RangeOf
<1>4. \A i \in 1..Len(q) : q[i] \in RangeOf(q)
  BY DEF RangeOf
<1> QED
  BY <1>1, <1>3, <1>4

\* ToGo, as an operator of what it depends on.
Going(p, g) == UNION {IF p[l] # << >> /\ g[l] = "upload" THEN RangeOf(Tail(p[l]))
                      ELSE RangeOf(p[l]) : l \in Loops}

IsGoing(f, p, g) ==
    \E l \in Loops : \E i \in 1..Len(p[l]) : p[l][i] = f /\ (g[l] = "upload" => i # 1)

\* The files still to go, by their positions in the lists of the loops.
LEMMA GoingPositions ==
    ASSUME NEW p \in [Loops -> Seq(Files)], NEW g
    PROVE  \A f : f \in Going(p, g) <=> IsGoing(f, p, g)
<1> DEFINE Of(l) == IF p[l] # << >> /\ g[l] = "upload" THEN RangeOf(Tail(p[l])) ELSE RangeOf(p[l])
<1>1. ASSUME NEW l \in Loops, NEW f
      PROVE  f \in Of(l) <=> \E i \in 1..Len(p[l]) : p[l][i] = f /\ (g[l] = "upload" => i # 1)
  <2>1. p[l] \in Seq(Files)
    OBVIOUS
  <2>2. CASE p[l] # << >> /\ g[l] = "upload"
    <3>1. /\ \A i \in 1..Len(Tail(p[l])) : Tail(p[l])[i] = p[l][i + 1] /\ i + 1 \in 1..Len(p[l])
          /\ \A i \in 1..Len(p[l]) : i # 1 =>
                i - 1 \in 1..Len(Tail(p[l])) /\ Tail(p[l])[i - 1] = p[l][i]
      BY <2>1, <2>2, HeadTail
    <3>2. \A i \in 1..Len(Tail(p[l])) : i + 1 # 1
      OBVIOUS
    <3>3. ASSUME f \in RangeOf(Tail(p[l])) PROVE \E i \in 1..Len(p[l]) : p[l][i] = f /\ i # 1
      <4>1. PICK j \in 1..Len(Tail(p[l])) : f = Tail(p[l])[j]
        BY <3>3 DEF RangeOf
      <4>2. j + 1 \in 1..Len(p[l]) /\ p[l][j + 1] = f /\ j + 1 # 1
        BY <3>1, <3>2, <4>1
      <4> QED
        BY <4>2
    <3>4. ASSUME NEW i \in 1..Len(p[l]), p[l][i] = f, i # 1 PROVE f \in RangeOf(Tail(p[l]))
      <4>1. i - 1 \in 1..Len(Tail(p[l])) /\ Tail(p[l])[i - 1] = f
        BY <3>1, <3>4
      <4> QED
        BY <4>1 DEF RangeOf
    <3> QED
      BY <2>2, <3>3, <3>4
  <2>3. CASE p[l] = << >>
    BY <2>3 DEF RangeOf
  <2>4. CASE g[l] # "upload"
    BY <2>4 DEF RangeOf
  <2> QED
    BY <2>2, <2>3, <2>4
<1>2. Going(p, g) = UNION {Of(l) : l \in Loops}
  BY DEF Going
<1> HIDE DEF Of
<1>3. \A f : f \in Going(p, g) <=> \E l \in Loops : f \in Of(l)
  BY <1>2
<1> QED
  BY <1>1, <1>3 DEF IsGoing

\* The same for the state variables, before and after a step.
LEMMA ToGoPositions ==
    ASSUME picked \in [Loops -> Seq(Files)], picked' \in [Loops -> Seq(Files)]
    PROVE  /\ \A f : f \in ToGo <=> IsGoing(f, picked, stage)
           /\ \A f : f \in ToGo' <=> IsGoing(f, picked', stage')
<1>1. ToGo = Going(picked, stage) /\ ToGo' = Going(picked', stage')
  BY DEF ToGo, Going, RangeOf
<1> QED
  BY <1>1, GoingPositions

\* The file in work is done with: the rest is to go as before.
LEMMA NextFileEffect ==
    ASSUME TypeOK, NEW l \in Loops, picked[l] # << >>, stage[l] = "upload", NextFile(l)
    PROVE  /\ picked' \in [Loops -> Seq(Files)]
           /\ stage' \in [Loops -> {"measure", "upload"}]
           /\ ToGo' = ToGo
           /\ Distinct => Distinct'
           /\ \A n \in Loops : RangeOf(picked'[n]) \subseteq RangeOf(picked[n])
           /\ Head(picked[l]) \in Files /\ Head(picked[l]) \in RangeOf(picked[l])
           /\ Distinct => Head(picked[l]) \notin ToGo
           /\ \A n \in Loops : n # l => picked'[n] = picked[n] /\ stage'[n] = stage[n]
<1>1. /\ picked \in [Loops -> Seq(Files)] /\ stage \in [Loops -> {"measure", "upload"}]
      /\ picked' = [picked EXCEPT ![l] = Tail(picked[l])]
      /\ stage' = [stage EXCEPT ![l] = "measure"]
  BY DEF NextFile, TypeOK
<1> DEFINE p == picked[l]
<1>2. /\ Head(p) \in Files /\ Head(p) = p[1] /\ 1 \in 1..Len(p) /\ Tail(p) \in Seq(Files)
      /\ \A i \in 1..Len(Tail(p)) : Tail(p)[i] = p[i + 1] /\ i + 1 \in 1..Len(p)
      /\ \A i \in 1..Len(p) : i # 1 => i - 1 \in 1..Len(Tail(p)) /\ Tail(p)[i - 1] = p[i]
  BY <1>1, HeadTail
<1>3. /\ picked' \in [Loops -> Seq(Files)]
      /\ stage' \in [Loops -> {"measure", "upload"}]
      /\ picked'[l] = Tail(p) /\ stage'[l] = "measure"
      /\ \A n \in Loops : n # l => picked'[n] = picked[n] /\ stage'[n] = stage[n]
  BY <1>1, <1>2
<1>4. \A f : IsGoing(f, picked, stage) <=> IsGoing(f, picked', stage')
  <2>1. ASSUME NEW f, IsGoing(f, picked, stage) PROVE IsGoing(f, picked', stage')
    <3>1. PICK n \in Loops : \E i \in 1..Len(picked[n]) :
              picked[n][i] = f /\ (stage[n] = "upload" => i # 1)
      BY <2>1 DEF IsGoing
    <3>2. CASE n = l
      <4>1. PICK i \in 1..Len(p) : p[i] = f /\ i # 1
        BY <3>1, <3>2
      <4>2. i - 1 \in 1..Len(Tail(p)) /\ Tail(p)[i - 1] = f
        BY <1>2, <4>1
      <4> QED
        BY <1>3, <4>2 DEF IsGoing
    <3>3. CASE n # l
      BY <1>3, <3>1, <3>3 DEF IsGoing
    <3> QED
      BY <3>2, <3>3
  <2>2. ASSUME NEW f, IsGoing(f, picked', stage') PROVE IsGoing(f, picked, stage)
    <3>1. PICK n \in Loops : \E i \in 1..Len(picked'[n]) :
              picked'[n][i] = f /\ (stage'[n] = "upload" => i # 1)
      BY <2>2 DEF IsGoing
    <3>2. CASE n = l
      <4>1. PICK i \in 1..Len(Tail(p)) : Tail(p)[i] = f
        BY <1>3, <3>1, <3>2
      <4>2. i + 1 \in 1..Len(p) /\ p[i + 1] = f /\ i + 1 # 1
        BY <1>2, <4>1
      <4> QED
        BY <4>2 DEF IsGoing
    <3>3. CASE n # l
      BY <1>3, <3>1, <3>3 DEF IsGoing
    <3> QED
      BY <3>2, <3>3
  <2> QED
    BY <2>1, <2>2
<1>5. ToGo' = ToGo
  BY <1>1, <1>3, <1>4, ToGoPositions
<1>6. Distinct => Distinct'
  <2> SUFFICES ASSUME Distinct, NEW m \in Loops, NEW n \in Loops,
                      NEW i \in 1..Len(picked'[m]), NEW j \in 1..Len(picked'[n]),
                      picked'[m][i] = picked'[n][j]
               PROVE  m = n /\ i = j
    BY DEF Distinct
  <2>0. ASSUME NEW k \in Loops, NEW x \in 1..Len(picked'[k])
        PROVE  \E a \in 1..Len(picked[k]) : /\ picked[k][a] = picked'[k][x]
                                            /\ k = l => a = x + 1
                                            /\ k # l => a = x
    <3>1. CASE k = l
      <4>0. picked[k] = p /\ picked'[k] = Tail(p)
        BY <1>3, <3>1
      <4>1. x + 1 \in 1..Len(picked[k]) /\ picked[k][x + 1] = picked'[k][x]
        BY <1>2, <4>0, Zenon
      <4> QED
        BY <3>1, <4>1
    <3>2. CASE k # l
      BY <1>3, <3>2
    <3> QED
      BY <3>1, <3>2
  <2>1. PICK a \in 1..Len(picked[m]) : /\ picked[m][a] = picked'[m][i]
                                       /\ m = l => a = i + 1
                                       /\ m # l => a = i
    BY <2>0, Zenon
  <2>2. PICK b \in 1..Len(picked[n]) : /\ picked[n][b] = picked'[n][j]
                                       /\ n = l => b = j + 1
                                       /\ n # l => b = j
    BY <2>0, Zenon
  <2>3. picked[m][a] = picked[n][b]
    BY <2>1, <2>2, Zenon
  <2>4. m = n /\ a = b
    BY <2>3 DEF Distinct
  <2>5. CASE m = l
    BY <2>1, <2>2, <2>4, <2>5
  <2>6. CASE m # l
    BY <2>1, <2>2, <2>4, <2>6
  <2> QED
    BY <2>5, <2>6
<1>7. \A n \in Loops : RangeOf(picked'[n]) \subseteq RangeOf(picked[n])
  <2>1. RangeOf(Tail(p)) \subseteq RangeOf(p)
    <3> SUFFICES ASSUME NEW i \in 1..Len(Tail(p)) PROVE Tail(p)[i] \in RangeOf(p)
      BY DEF RangeOf
    <3> QED
      BY <1>2 DEF RangeOf
  <2> QED
    BY <1>3, <2>1
<1>8. ASSUME Distinct PROVE Head(p) \notin ToGo
  <2>1. ~ IsGoing(Head(p), picked, stage)
    <3> SUFFICES ASSUME NEW n \in Loops, NEW i \in 1..Len(picked[n]), picked[n][i] = Head(p),
                        stage[n] = "upload" => i # 1
                 PROVE  FALSE
      BY DEF IsGoing
    <3>1. n = l /\ i = 1
      BY <1>2, <1>8 DEF Distinct
    <3> QED
      BY <3>1
  <2> QED
    BY <1>1, <1>3, <2>1, ToGoPositions
<1>9. Head(p) \in RangeOf(p)
  BY <1>2 DEF RangeOf
<1> QED
  BY <1>2, <1>3, <1>5, <1>6, <1>7, <1>8, <1>9

\* The first file of a call gets its row: it is not to go any more.
LEMMA MeasuredEffect ==
    ASSUME TypeOK, NEW l \in Loops, picked[l] # << >>, stage[l] = "measure",
           picked' = picked, stage' = [stage EXCEPT ![l] = "upload"]
    PROVE  /\ Head(picked[l]) \in Files
           /\ Head(picked[l]) \in ToGo
           /\ ToGo' \subseteq ToGo
           /\ ToGo \subseteq ToGo' \cup {Head(picked[l])}
           /\ Distinct => Head(picked[l]) \notin ToGo'
<1>1. picked \in [Loops -> Seq(Files)] /\ stage \in [Loops -> {"measure", "upload"}]
  BY DEF TypeOK
<1>2. Head(picked[l]) \in Files /\ Head(picked[l]) = picked[l][1] /\ 1 \in 1..Len(picked[l])
  BY <1>1, HeadTail
<1>3. stage'[l] = "upload" /\ \A n \in Loops : n # l => stage'[n] = stage[n]
  BY <1>1
<1>4. IsGoing(Head(picked[l]), picked, stage)
  BY <1>2 DEF IsGoing
<1>5. \A f : IsGoing(f, picked', stage') => IsGoing(f, picked, stage)
  BY <1>3 DEF IsGoing
<1>6. \A f : IsGoing(f, picked, stage) => IsGoing(f, picked', stage') \/ f = Head(picked[l])
  BY <1>2, <1>3 DEF IsGoing
<1>7. Distinct => ~ IsGoing(Head(picked[l]), picked', stage')
  BY <1>2, <1>3 DEF IsGoing, Distinct
<1> QED
  BY <1>1, <1>2, <1>4, <1>5, <1>6, <1>7, ToGoPositions

\* Files are picked by a call that has none.
LEMMA AttachEffect ==
    ASSUME TypeOK, NEW l \in Loops, picked[l] = << >>, NEW f \in Files, NEW g \in Files,
           picked' = [picked EXCEPT ![l] = IF f = g THEN <<f>> ELSE <<f, g>>],
           stage' = [stage EXCEPT ![l] = "measure"]
    PROVE  /\ picked' \in [Loops -> Seq(Files)]
           /\ stage' \in [Loops -> {"measure", "upload"}]
           /\ ToGo' = ToGo \cup {f, g}
           /\ \A n \in Loops : n # l => picked'[n] = picked[n] /\ stage'[n] = stage[n]
           /\ RangeOf(picked'[l]) = {f, g}
           /\ (Distinct /\ \A n \in Loops : RangeOf(picked[n]) \cap {f, g} = {}) => Distinct'
<1> DEFINE q == IF f = g THEN <<f>> ELSE <<f, g>>
<1>1. /\ picked \in [Loops -> Seq(Files)] /\ stage \in [Loops -> {"measure", "upload"}]
  BY DEF TypeOK
<1>2. /\ q \in Seq(Files) /\ \A i \in 1..Len(q) : q[i] \in {f, g}
      /\ \E i \in 1..Len(q) : q[i] = f
      /\ \E i \in 1..Len(q) : q[i] = g
      /\ \A i, j \in 1..Len(q) : q[i] = q[j] => i = j
  <2>1. CASE f = g
    BY <2>1
  <2>2. CASE f # g
    <3>1. q = <<f, g>> /\ Len(q) = 2 /\ q[1] = f /\ q[2] = g /\ 1..2 = {1, 2}
      BY <2>2
    <3> QED
      BY <2>2, <3>1
  <2> QED
    BY <2>1, <2>2
<1>3. picked' = [picked EXCEPT ![l] = q]
  OBVIOUS
<1> HIDE DEF q
<1>4. /\ picked' \in [Loops -> Seq(Files)] /\ stage' \in [Loops -> {"measure", "upload"}]
      /\ picked'[l] = q /\ stage'[l] = "measure"
      /\ \A n \in Loops : n # l => picked'[n] = picked[n] /\ stage'[n] = stage[n]
  BY <1>1, <1>2, <1>3
<1>5. 1..Len(picked[l]) = {}
  OBVIOUS
<1>6. \A x : IsGoing(x, picked', stage') <=> IsGoing(x, picked, stage) \/ x \in {f, g}
  <2>1. ASSUME NEW x, IsGoing(x, picked', stage') PROVE IsGoing(x, picked, stage) \/ x \in {f, g}
    BY <1>2, <1>4, <2>1 DEF IsGoing
  <2>2. ASSUME NEW x, IsGoing(x, picked, stage) PROVE IsGoing(x, picked', stage')
    BY <1>4, <1>5, <2>2 DEF IsGoing
  <2>3. IsGoing(f, picked', stage') /\ IsGoing(g, picked', stage')
    BY <1>2, <1>4 DEF IsGoing
  <2> QED
    BY <2>1, <2>2, <2>3
<1>7. ToGo' = ToGo \cup {f, g}
  BY <1>1, <1>4, <1>6, ToGoPositions
<1>8. RangeOf(picked'[l]) = {f, g}
  BY <1>2, <1>4 DEF RangeOf
<1>9. ASSUME Distinct, \A n \in Loops : RangeOf(picked[n]) \cap {f, g} = {} PROVE Distinct'
  <2>1. \A n \in Loops : \A i \in 1..Len(picked[n]) : picked[n][i] \notin {f, g}
    BY <1>9 DEF RangeOf
  <2> SUFFICES ASSUME NEW m \in Loops, NEW n \in Loops,
                      NEW i \in 1..Len(picked'[m]), NEW j \in 1..Len(picked'[n]),
                      picked'[m][i] = picked'[n][j]
               PROVE  m = n /\ i = j
    BY DEF Distinct
  <2>2. CASE m = l /\ n = l
    BY <1>2, <1>4, <2>2
  <2>3. CASE m # l /\ n # l
    BY <1>4, <1>9, <2>3 DEF Distinct
  <2>4. CASE (m = l /\ n # l) \/ (m # l /\ n = l)
    BY <1>2, <1>4, <2>1, <2>4
  <2> QED
    BY <2>2, <2>3, <2>4
<1> QED
  BY <1>4, <1>7, <1>8, <1>9

-------------------------------------------------------------------------------
(* Types, and the rows that wait *)

\* The rows whose upload is under way.
Served == {Head(picked[l]) : l \in {n \in Loops : picked[n] # << >> /\ stage[n] = "upload"}}

\* What a submission sends, and when it may.
LEMMA SubmitEffect ==
    ASSUME TypeOK, Submit
    PROVE  LET x == [message |-> text \cup ready \cup reply, words |-> text, rows |-> drafts]
           IN  /\ sending' = {x} /\ x \in Message
               /\ x.message = text \cup ready \cup reply /\ x.words = text /\ x.rows = drafts
               /\ ready = drafts /\ sending = {}
<1> DEFINE x == [message |-> text \cup ready \cup reply, words |-> text, rows |-> drafts]
<1>1. ready = drafts /\ sending = {} /\ sending' = {x}
  BY DEF Submit, CanSend, Uploading
<1>2. /\ text \cup ready \cup reply \in SUBSET Items
      /\ text \in SUBSET Words /\ drafts \in SUBSET Files
  BY <1>1 DEF TypeOK, Items
<1>3. x \in Message
  BY <1>2 DEF Message
<1> QED
  BY <1>1, <1>3

\* Every step keeps what is composed well typed and its rows accounted for.
LEMMA KeptKept == Kept /\ Once /\ [Next]_vars => Kept'
<1> SUFFICES ASSUME Kept, Once, [Next]_vars PROVE Kept'
  OBVIOUS
<1>1. TypeOK /\ EveryRowSent /\ drafts \ ready \subseteq Served
  BY DEF Kept, NoStuckRow, Served
<1>2. NoStuckRow' <=> drafts' \ ready' \subseteq Served'
  BY DEF NoStuckRow, Served
<1>3. ASSUME picked' = picked, stage' = stage PROVE Served' = Served
  BY <1>3 DEF Served
<1>4. CASE Type
  <2>1. TypeOK'
    BY <1>1, <1>4 DEF TypeOK, Type, AtRisk, loops, Items
  <2> QED
    BY <1>1, <1>2, <1>3, <1>4, <2>1 DEF Kept, EveryRowSent, Type, loops
<1>5. CASE Erase
  <2>1. TypeOK'
    BY <1>1, <1>5 DEF TypeOK, Erase, loops, Items
  <2> QED
    BY <1>1, <1>2, <1>3, <1>5, <2>1 DEF Kept, EveryRowSent, Erase, loops
<1>6. CASE ChooseReply
  <2>1. TypeOK'
    BY <1>1, <1>6 DEF TypeOK, ChooseReply, AtRisk, loops, Items
  <2> QED
    BY <1>1, <1>2, <1>3, <1>6, <2>1 DEF Kept, EveryRowSent, ChooseReply, loops
<1>7. CASE CancelReply
  <2>1. TypeOK'
    BY <1>1, <1>7 DEF TypeOK, CancelReply, loops, Items
  <2> QED
    BY <1>1, <1>2, <1>3, <1>7, <2>1 DEF Kept, EveryRowSent, CancelReply, loops
<1>8. CASE OpenPicker
  <2>1. TypeOK'
    BY <1>1, <1>8 DEF TypeOK, OpenPicker, history
  <2> QED
    BY <1>1, <1>2, <1>3, <1>8, <2>1 DEF Kept, EveryRowSent, OpenPicker, history
<1>9. CASE Discard
  <2>1. TypeOK'
    BY <1>1, <1>9 DEF TypeOK, Discard, loops, Items
  <2>2. drafts' \ ready' \subseteq drafts \ ready
    BY <1>9 DEF Discard
  <2> QED
    BY <1>1, <1>2, <1>3, <1>9, <2>1, <2>2 DEF Kept, EveryRowSent, Discard, loops
<1>10. ASSUME NEW l \in Loops, AttachFiles(l) PROVE Kept'
  <2>1. PICK f \in Files \ used, g \in Files \ used :
            /\ picked' = [picked EXCEPT ![l] = IF f = g THEN <<f>> ELSE <<f, g>>]
            /\ used' = used \cup {f, g}
    BY <1>10 DEF AttachFiles
  <2>2. /\ picked[l] = << >> /\ picker' = FALSE /\ stage' = [stage EXCEPT ![l] = "measure"]
        /\ UNCHANGED <<text, drafts, ready, reply, sending, removed, risky, accepted>>
    BY <1>10 DEF AttachFiles
  <2>3. /\ picked' \in [Loops -> Seq(Files)] /\ stage' \in [Loops -> {"measure", "upload"}]
        /\ \A n \in Loops : n # l => picked'[n] = picked[n] /\ stage'[n] = stage[n]
    BY <1>1, <2>1, <2>2, AttachEffect
  <2>4. TypeOK'
    BY <1>1, <2>1, <2>2, <2>3 DEF TypeOK, Items
  <2>5. Served \subseteq Served'
    BY <2>2, <2>3 DEF Served
  <2> QED
    BY <1>1, <1>2, <2>2, <2>4, <2>5 DEF Kept, EveryRowSent
<1>11. ASSUME NEW l \in Loops, Measured(l) PROVE Kept'
  <2>1. /\ picked[l] # << >> /\ stage[l] = "measure"
        /\ drafts' = drafts \cup {Head(picked[l])}
        /\ stage' = [stage EXCEPT ![l] = "upload"]
        /\ UNCHANGED <<text, ready, picker, picked, reply, sending, used, removed, accepted>>
    BY <1>11 DEF Measured
  <2>2. Head(picked[l]) \in Files
    BY <1>1, <2>1, MeasuredEffect
  <2>3. risky' \subseteq Items
    BY <1>1, <1>11, <2>2 DEF Measured, AtRisk, TypeOK, Items
  <2>4. TypeOK'
    BY <1>1, <2>1, <2>2, <2>3 DEF TypeOK, Items
  <2>5. stage'[l] = "upload" /\ \A n \in Loops : n # l => stage'[n] = stage[n]
    BY <1>1, <2>1 DEF TypeOK
  <2>6. Served \cup {Head(picked[l])} \subseteq Served'
    BY <2>1, <2>5 DEF Served
  <2> QED
    BY <1>1, <1>2, <2>1, <2>4, <2>6 DEF Kept, EveryRowSent
<1>12. ASSUME NEW l \in Loops, Uploaded(l) \/ UploadFails(l) PROVE Kept'
  <2>1. /\ picked[l] # << >> /\ stage[l] = "upload" /\ NextFile(l)
        /\ UNCHANGED <<text, picker, reply, sending, used, risky, accepted>>
    BY <1>12 DEF Uploaded, UploadFails, history
  <2>2. /\ picked' \in [Loops -> Seq(Files)] /\ stage' \in [Loops -> {"measure", "upload"}]
        /\ Head(picked[l]) \in Files
        /\ \A n \in Loops : n # l => picked'[n] = picked[n] /\ stage'[n] = stage[n]
    BY <1>1, <2>1, NextFileEffect
  <2>3. /\ drafts' \subseteq drafts /\ ready' \subseteq drafts'
        /\ drafts' \ ready' \subseteq (drafts \ ready) \ {Head(picked[l])}
        /\ removed' \subseteq Items
    <3>1. CASE Uploaded(l)
      BY <1>1, <3>1 DEF Uploaded, TypeOK, history
    <3>2. CASE UploadFails(l)
      <4>1. Head(picked[l]) \notin ready
        BY <2>1 DEF Once, Unfinished
      <4> QED
        BY <1>1, <2>2, <3>2, <4>1 DEF UploadFails, TypeOK, Items
    <3> QED
      BY <1>12, <3>1, <3>2
  <2>4. TypeOK'
    BY <1>1, <2>1, <2>2, <2>3 DEF TypeOK
  <2>5. Served \ {Head(picked[l])} \subseteq Served'
    BY <2>2 DEF Served
  <2> QED
    BY <1>1, <1>2, <2>1, <2>3, <2>4, <2>5 DEF Kept, EveryRowSent
<1>13. CASE Submit
  <2> DEFINE x == [message |-> text \cup ready \cup reply, words |-> text, rows |-> drafts]
  <2>1. /\ sending' = {x} /\ x \in Message /\ ready = drafts
        /\ x.message = text \cup ready \cup reply /\ x.rows = drafts
    BY <1>1, <1>13, SubmitEffect
  <2>2. /\ text' = {} /\ drafts' = {} /\ ready' = {}
        /\ UNCHANGED <<loops, reply, history>>
    BY <1>13 DEF Submit
  <2> HIDE DEF x
  <2>3. TypeOK'
    BY <1>1, <2>1, <2>2 DEF TypeOK, loops, history
  <2>4. EveryRowSent' /\ drafts' \ ready' = {}
    BY <2>1, <2>2 DEF EveryRowSent
  <2> QED
    BY <1>2, <2>3, <2>4 DEF Kept
<1>14. CASE Sent
  <2>1. PICK x \in sending : accepted' = Append(accepted, x.message)
    BY <1>14 DEF Sent
  <2>2. /\ reply' = {} /\ sending' = {}
        /\ UNCHANGED <<text, drafts, ready, loops, used, removed, risky>>
    BY <1>14 DEF Sent
  <2>3. x.message \in SUBSET Items
    BY <1>1 DEF TypeOK, Message
  <2>4. accepted' \in Seq(SUBSET Items)
    BY <1>1, <2>1, <2>3, AppendRange DEF TypeOK
  <2>5. TypeOK'
    BY <1>1, <2>2, <2>4 DEF TypeOK, loops
  <2> QED
    BY <1>1, <1>2, <1>3, <2>2, <2>5 DEF Kept, EveryRowSent, loops
<1>15. CASE SendFails
  <2>1. PICK x \in sending : text' = x.words /\ drafts' = x.rows /\ ready' = x.rows
    BY <1>15 DEF SendFails
  <2>2. sending' = {} /\ UNCHANGED <<loops, reply, history>>
    BY <1>15 DEF SendFails
  <2>3. x.words \subseteq Words /\ x.rows \subseteq Files
    BY <1>1 DEF TypeOK, Message
  <2>4. TypeOK'
    BY <1>1, <2>1, <2>2, <2>3 DEF TypeOK, loops, history
  <2> QED
    BY <1>2, <2>1, <2>2, <2>4 DEF Kept, EveryRowSent
<1>16. CASE Leave
  <2>1. /\ text' = {} /\ drafts' = {} /\ ready' = {} /\ reply' = {} /\ sending' = {}
        /\ picker' = FALSE
        /\ picked' = [l \in Loops |-> << >>]
        /\ stage' = [l \in Loops |-> "measure"]
        /\ removed' = removed \cup text \cup drafts \cup ToGo \cup reply \cup InFlight
        /\ accepted' = accepted \/ accepted' = Append(accepted, InFlight)
        /\ UNCHANGED <<used, risky>>
    BY <1>16 DEF Leave
  <2>2. InFlight \in SUBSET Items
    BY <1>1 DEF TypeOK, InFlight, Message
  <2>3. accepted' \in Seq(SUBSET Items)
    <3>1. accepted \in Seq(SUBSET Items)
      BY <1>1 DEF TypeOK
    <3>2. Append(accepted, InFlight) \in Seq(SUBSET Items)
      BY <2>2, <3>1, AppendRange
    <3> QED
      BY <2>1, <3>1, <3>2
  <2>4. picked' \in [Loops -> Seq(Files)] /\ stage' \in [Loops -> {"measure", "upload"}]
    BY <2>1
  <2>5. ToGo \subseteq Items
    <3>1. picked \in [Loops -> Seq(Files)]
      BY <1>1 DEF TypeOK
    <3>2. \A f : IsGoing(f, picked, stage) => f \in Files
      BY <3>1 DEF IsGoing
    <3> QED
      BY <2>4, <3>1, <3>2, ToGoPositions DEF Items
  <2>6. TypeOK'
    BY <1>1, <2>1, <2>2, <2>3, <2>4, <2>5 DEF TypeOK, Items
  <2> QED
    BY <1>2, <2>1, <2>6 DEF Kept, EveryRowSent
<1>17. CASE UNCHANGED vars
  <2>1. TypeOK'
    BY <1>1, <1>17 DEF TypeOK, vars, loops, history
  <2> QED
    BY <1>1, <1>2, <1>3, <1>17, <2>1 DEF Kept, EveryRowSent, vars, loops
<1> QED
  BY <1>4, <1>5, <1>6, <1>7, <1>8, <1>9, <1>10, <1>11, <1>12, <1>13, <1>14, <1>15, <1>16, <1>17
     DEF Next

-------------------------------------------------------------------------------
(* Once *)

\* What was taken and what is being taken are apart.
LEMMA AppendOnce ==
    ASSUME TypeOK, HandedOnce, NEW m \in SUBSET Items, m \cap Taken = {},
           accepted' = Append(accepted, m)
    PROVE  HandedOnce' /\ Taken' = Taken \cup m
<1>1. PICK S : accepted \in Seq(S) /\ m \in S
  BY DEF TypeOK
<1>2. /\ UNION RangeOf(Append(accepted, m)) = (UNION RangeOf(accepted)) \cup m
      /\ Len(Append(accepted, m)) = Len(accepted) + 1 /\ Len(accepted) \in Nat
      /\ \A i \in 1..Len(accepted) : /\ Append(accepted, m)[i] = accepted[i]
                                     /\ accepted[i] \subseteq UNION RangeOf(accepted)
      /\ Append(accepted, m)[Len(accepted) + 1] = m
  <2>1. UNION RangeOf(Append(accepted, m)) = (UNION RangeOf(accepted)) \cup m
    BY <1>1, AppendRange
  <2>2. /\ Len(Append(accepted, m)) = Len(accepted) + 1 /\ Len(accepted) \in Nat
        /\ \A i \in 1..Len(accepted) : Append(accepted, m)[i] = accepted[i]
        /\ Append(accepted, m)[Len(accepted) + 1] = m
    BY <1>1
  <2>3. \A i \in 1..Len(accepted) : accepted[i] \subseteq UNION RangeOf(accepted)
    BY DEF RangeOf
  <2> QED
    BY <2>1, <2>2, <2>3
<1>3. Taken' = Taken \cup m
  BY <1>2 DEF Taken, RangeOf
<1>4. \A i \in 1..Len(accepted) : accepted[i] \cap m = {}
  BY <1>2 DEF Taken
<1>5. ASSUME NEW i \in 1..Len(accepted'), NEW n \in 1..Len(accepted'), i # n
      PROVE  accepted'[i] \cap accepted'[n] = {}
  <2>1. CASE i \in 1..Len(accepted) /\ n \in 1..Len(accepted)
    BY <1>2, <1>5, <2>1 DEF HandedOnce
  <2>2. CASE i = Len(accepted) + 1 /\ n \in 1..Len(accepted)
    BY <1>2, <1>4, <2>2
  <2>3. CASE i \in 1..Len(accepted) /\ n = Len(accepted) + 1
    BY <1>2, <1>4, <2>3
  <2> QED
    BY <1>2, <1>5, <2>1, <2>2, <2>3
<1> QED
  BY <1>3, <1>5 DEF HandedOnce

\* What is in flight, given the one submit or none.
LEMMA FlightFacts ==
    /\ \A x \in sending : x.message \subseteq InFlight
    /\ \A x \in sending : sending = {x} => InFlight = x.message
    /\ sending = {} => InFlight = {}
  BY DEF InFlight

\* A step that leaves the calls of attachFiles and the accepted messages alone.
LEMMA SameCalls ==
    ASSUME picked' = picked, stage' = stage
    PROVE  /\ ToGo' = ToGo /\ Distinct' = Distinct
           /\ \A l \in Loops : RangeOf(picked'[l]) = RangeOf(picked[l])
  BY DEF ToGo, Distinct, RangeOf

\* A step that stores nothing takes nothing.
LEMMA SameTaken ==
    ASSUME accepted' = accepted
    PROVE  Taken' = Taken /\ HandedOnce' = HandedOnce
  BY DEF Taken, HandedOnce, RangeOf

\* A step that sends nothing puts nothing into flight.
LEMMA SameFlight == ASSUME sending' = sending PROVE InFlight' = InFlight
  BY DEF InFlight

\* A file that a call has still to upload is in the call's list.
LEMMA ToGoIsPicked ==
    ASSUME TypeOK
    PROVE  \A f \in ToGo : \E l \in Loops : f \in RangeOf(picked[l])
<1>1. picked \in [Loops -> Seq(Files)]
  BY DEF TypeOK
<1>2. ToGo = Going(picked, stage)
  BY DEF ToGo, Going
<1>3. \A f \in ToGo : IsGoing(f, picked, stage)
  BY <1>1, <1>2, GoingPositions
<1> QED
  BY <1>3 DEF IsGoing, RangeOf

\* Every step hands over at most what was not handed over before.
LEMMA OnceKept == Kept /\ Kept' /\ Once /\ [Next]_vars => Once'
<1> SUFFICES ASSUME Kept, Kept', Once, [Next]_vars PROVE Once'
  OBVIOUS
<1>1. TypeOK /\ TypeOK' /\ EveryRowSent /\ ready \subseteq drafts
  BY DEF Kept, TypeOK
<1>2. Distinct /\ AllUsed /\ Apart /\ Unfinished /\ HandedOnce
  BY DEF Once
<1>3. ToGo \subseteq used
  BY <1>1, <1>2, ToGoIsPicked DEF AllUsed
<1> DEFINE Adds(S) ==
         /\ UNCHANGED <<picked, stage, sending, accepted>> /\ used \subseteq used'
         /\ S \cap used = {} /\ S \subseteq used' /\ ready' \subseteq ready
         /\ text' \subseteq text \cup S /\ drafts' \subseteq drafts /\ reply' \subseteq reply \cup S
<1>4. ASSUME NEW S, Adds(S) PROVE Once'
  <2>1. /\ ToGo' = ToGo /\ Distinct' /\ Taken' = Taken /\ HandedOnce' /\ InFlight' = InFlight
        /\ \A l \in Loops : RangeOf(picked'[l]) = RangeOf(picked[l])
    BY <1>2, <1>4, SameCalls, SameTaken, SameFlight
  <2>2. AllUsed'
    BY <1>2, <1>4, <2>1 DEF AllUsed
  <2>3. Apart'
    BY <1>2, <1>3, <1>4, <2>1 DEF Apart, AllUsed
  <2>4. Unfinished'
    BY <1>2, <1>4 DEF Unfinished
  <2> QED
    BY <2>1, <2>2, <2>3, <2>4 DEF Once
<1>5. CASE Type
  <2>1. PICK w \in Words \ used : text' = text \cup {w} /\ used' = used \cup {w}
    BY <1>5 DEF Type
  <2> QED
    BY <1>4, <1>5, <2>1 DEF Type, loops
<1>6. CASE ChooseReply
  <2>1. PICK w \in Replies \ used : reply' = {w} /\ used' = used \cup {w}
    BY <1>6 DEF ChooseReply
  <2> QED
    BY <1>4, <1>6, <2>1 DEF ChooseReply, loops
<1>7. CASE Erase \/ CancelReply \/ OpenPicker \/ Discard
  <2>1. /\ UNCHANGED <<picked, stage, sending, accepted, used>> /\ ready' \subseteq ready
        /\ text' \subseteq text /\ drafts' \subseteq drafts /\ reply' \subseteq reply
    BY <1>7 DEF Erase, CancelReply, OpenPicker, Discard, loops, history
  <2>2. Adds({})
    BY <2>1
  <2> HIDE DEF Adds
  <2> QED
    BY <1>4, <2>2
<1>8. ASSUME NEW l \in Loops, AttachFiles(l) PROVE Once'
  <2>1. PICK f \in Files \ used, g \in Files \ used :
            /\ picked' = [picked EXCEPT ![l] = IF f = g THEN <<f>> ELSE <<f, g>>]
            /\ used' = used \cup {f, g}
    BY <1>8 DEF AttachFiles
  <2>2. /\ picked[l] = << >> /\ stage' = [stage EXCEPT ![l] = "measure"]
        /\ UNCHANGED <<text, drafts, ready, reply, sending, removed, risky, accepted>>
    BY <1>8 DEF AttachFiles
  <2>3. /\ ToGo' = ToGo \cup {f, g}
        /\ \A n \in Loops : n # l => picked'[n] = picked[n] /\ stage'[n] = stage[n]
        /\ RangeOf(picked'[l]) = {f, g}
        /\ (Distinct /\ \A n \in Loops : RangeOf(picked[n]) \cap {f, g} = {}) => Distinct'
    <3>1. f \in Files /\ g \in Files
      OBVIOUS
    <3>2. /\ picked[l] = << >> /\ stage' = [stage EXCEPT ![l] = "measure"]
          /\ picked' = [picked EXCEPT ![l] = IF f = g THEN <<f>> ELSE <<f, g>>]
      BY <2>1, <2>2
    <3>3. ToGo' = ToGo \cup {f, g}
      BY <1>1, <3>1, <3>2, AttachEffect
    <3>4. /\ \A n \in Loops : n # l => picked'[n] = picked[n] /\ stage'[n] = stage[n]
          /\ RangeOf(picked'[l]) = {f, g}
      BY <1>1, <3>1, <3>2, AttachEffect
    <3>5. (Distinct /\ \A n \in Loops : RangeOf(picked[n]) \cap {f, g} = {}) => Distinct'
      BY <1>1, <3>1, <3>2, AttachEffect
    <3> QED
      BY <3>3, <3>4, <3>5
  <2>4. \A n \in Loops : RangeOf(picked[n]) \cap {f, g} = {}
    BY <1>2, <2>1 DEF AllUsed
  <2>5. Taken' = Taken /\ HandedOnce' /\ InFlight' = InFlight
    BY <1>2, <2>2, SameTaken, SameFlight
  <2>6. AllUsed'
    <3>1. \A n \in Loops : RangeOf(picked'[n]) \subseteq used'
      BY <1>2, <2>1, <2>3 DEF AllUsed
    <3> QED
      BY <1>2, <2>1, <2>2, <2>5, <3>1 DEF AllUsed
  <2>7. Apart'
    BY <1>2, <2>1, <2>2, <2>3, <2>5 DEF Apart, AllUsed
  <2>8. Unfinished'
    <3>1. stage'[l] = "measure"
      BY <1>1, <2>2 DEF TypeOK
    <3> QED
      BY <1>2, <2>2, <2>3, <3>1 DEF Unfinished
  <2> QED
    BY <1>2, <2>3, <2>4, <2>5, <2>6, <2>7, <2>8 DEF Once
<1>9. ASSUME NEW l \in Loops, Measured(l) PROVE Once'
  <2> DEFINE h == Head(picked[l])
  <2>1. /\ picked[l] # << >> /\ stage[l] = "measure"
        /\ drafts' = drafts \cup {h}
        /\ stage' = [stage EXCEPT ![l] = "upload"]
        /\ UNCHANGED <<text, ready, picker, picked, reply, sending, used, removed, accepted>>
    BY <1>9 DEF Measured
  <2>2. h \in ToGo /\ ToGo' \subseteq ToGo /\ h \notin ToGo'
    BY <1>1, <1>2, <2>1, MeasuredEffect
  <2>3. Taken' = Taken /\ HandedOnce' /\ InFlight' = InFlight
    BY <1>2, <2>1, SameTaken, SameFlight
  <2>4. Distinct' /\ \A n \in Loops : RangeOf(picked'[n]) = RangeOf(picked[n])
    BY <1>2, <2>1 DEF Distinct, RangeOf
  <2>5. AllUsed'
    BY <1>2, <1>3, <2>1, <2>2, <2>3, <2>4 DEF AllUsed
  <2>6. h \notin drafts /\ h \notin InFlight /\ h \notin Taken
    BY <1>2, <2>2 DEF Apart
  <2>7. Apart'
    BY <1>2, <2>1, <2>2, <2>3, <2>6 DEF Apart
  <2>8. \A x \in sending : h \notin x.rows
    BY <1>1, <2>6, FlightFacts DEF EveryRowSent
  <2>9. Unfinished'
    <3>1. \A n \in Loops : n # l => stage'[n] = stage[n]
      BY <1>1, <2>1 DEF TypeOK
    <3> QED
      BY <1>1, <1>2, <2>1, <2>6, <2>8, <3>1 DEF Unfinished
  <2> QED
    BY <2>3, <2>4, <2>5, <2>7, <2>9 DEF Once
<1>10. ASSUME NEW l \in Loops, Uploaded(l) \/ UploadFails(l) PROVE Once'
  <2> DEFINE h == Head(picked[l])
  <2>1. /\ picked[l] # << >> /\ stage[l] = "upload" /\ NextFile(l)
        /\ UNCHANGED <<text, picker, reply, sending, used, risky, accepted>>
        /\ drafts' \subseteq drafts /\ ready' \subseteq ready \cup {h}
    BY <1>10 DEF Uploaded, UploadFails, history
  <2>2. /\ ToGo' = ToGo /\ Distinct' /\ h \in Files
        /\ \A n \in Loops : RangeOf(picked'[n]) \subseteq RangeOf(picked[n])
        /\ \A n \in Loops : n # l => picked'[n] = picked[n] /\ stage'[n] = stage[n]
    BY <1>1, <1>2, <2>1, NextFileEffect
  <2>3. Taken' = Taken /\ HandedOnce' /\ InFlight' = InFlight
    BY <1>2, <2>1, SameTaken, SameFlight
  <2>4. AllUsed'
    BY <1>2, <2>1, <2>2, <2>3 DEF AllUsed
  <2>5. Apart'
    BY <1>2, <2>1, <2>2, <2>3 DEF Apart
  <2>6. ASSUME NEW n \in Loops, n # l, picked[n] # << >> PROVE Head(picked[n]) # h
    <3>1. picked[n] \in Seq(Files) /\ picked[l] \in Seq(Files)
      BY <1>1 DEF TypeOK
    <3>2. /\ h = picked[l][1] /\ 1 \in 1..Len(picked[l])
          /\ Head(picked[n]) = picked[n][1] /\ 1 \in 1..Len(picked[n])
      BY <2>1, <2>6, <3>1, HeadTail
    <3> QED
      BY <1>2, <2>6, <3>2 DEF Distinct
  <2>7. Unfinished'
    <3>1. stage'[l] = "measure"
      BY <1>1, <2>1 DEF NextFile, TypeOK
    <3> QED
      BY <1>2, <2>1, <2>2, <2>6, <3>1 DEF Unfinished
  <2> QED
    BY <2>2, <2>3, <2>4, <2>5, <2>7 DEF Once
<1>11. CASE Submit
  <2> DEFINE x == [message |-> text \cup ready \cup reply, words |-> text, rows |-> drafts]
  <2>1. /\ sending' = {x} /\ ready = drafts
        /\ x.message = text \cup ready \cup reply /\ x.rows = drafts /\ x.words = text
    BY <1>1, <1>11, SubmitEffect
  <2>2. /\ text' = {} /\ drafts' = {} /\ ready' = {}
        /\ UNCHANGED <<picked, stage, reply, used, accepted>>
    BY <1>11 DEF Submit, loops, history
  <2> HIDE DEF x
  <2>3. InFlight' = x.message
    BY <2>1 DEF InFlight
  <2>4. /\ ToGo' = ToGo /\ Distinct' /\ Taken' = Taken /\ HandedOnce'
        /\ \A l \in Loops : RangeOf(picked'[l]) = RangeOf(picked[l])
    BY <1>2, <2>2, SameCalls, SameTaken
  <2>5. AllUsed'
    BY <1>2, <2>1, <2>2, <2>3, <2>4 DEF AllUsed
  <2>6. Apart'
    BY <1>2, <2>1, <2>2, <2>3, <2>4 DEF Apart
  <2>7. Unfinished'
    BY <1>2, <2>1, <2>2 DEF Unfinished
  <2> QED
    BY <2>4, <2>5, <2>6, <2>7 DEF Once
<1>12. CASE Sent
  <2>1. PICK x \in sending : accepted' = Append(accepted, x.message)
    BY <1>12 DEF Sent
  <2>2. /\ reply' = {} /\ sending' = {}
        /\ UNCHANGED <<text, drafts, ready, picked, stage, used>>
    BY <1>12 DEF Sent, loops
  <2>3. x.message \subseteq InFlight /\ x.message \in SUBSET Items
    BY <1>1, FlightFacts DEF TypeOK, Message
  <2>4. x.message \cap Taken = {}
    BY <1>2, <2>3 DEF Apart
  <2>5. HandedOnce' /\ Taken' = Taken \cup x.message
    BY <1>1, <1>2, <2>1, <2>3, <2>4, AppendOnce
  <2>6. /\ ToGo' = ToGo /\ Distinct'
        /\ \A l \in Loops : RangeOf(picked'[l]) = RangeOf(picked[l])
    BY <1>2, <2>2, SameCalls
  <2>7. InFlight' = {}
    BY <2>2 DEF InFlight
  <2>8. AllUsed'
    BY <1>2, <2>2, <2>3, <2>5, <2>6, <2>7 DEF AllUsed
  <2>9. Apart'
    BY <1>2, <2>2, <2>3, <2>5, <2>6, <2>7 DEF Apart
  <2>10. Unfinished'
    BY <1>2, <2>2 DEF Unfinished
  <2> QED
    BY <2>5, <2>6, <2>8, <2>9, <2>10 DEF Once
<1>13. CASE SendFails
  <2>1. PICK x \in sending : text' = x.words /\ drafts' = x.rows /\ ready' = x.rows
    BY <1>13 DEF SendFails
  <2>2. sending' = {} /\ UNCHANGED <<picked, stage, reply, used, accepted>>
    BY <1>13 DEF SendFails, loops, history
  <2>3. x.words \subseteq InFlight /\ x.rows \subseteq InFlight
    BY <1>1, <1>2, FlightFacts DEF EveryRowSent, Apart
  <2>4. /\ ToGo' = ToGo /\ Distinct' /\ Taken' = Taken /\ HandedOnce'
        /\ \A l \in Loops : RangeOf(picked'[l]) = RangeOf(picked[l])
    BY <1>2, <2>2, SameCalls, SameTaken
  <2>5. InFlight' = {}
    BY <2>2 DEF InFlight
  <2>6. AllUsed'
    BY <1>2, <2>1, <2>2, <2>3, <2>4, <2>5 DEF AllUsed
  <2>7. Apart'
    BY <1>2, <2>1, <2>2, <2>3, <2>4, <2>5 DEF Apart
  <2>8. Unfinished'
    BY <1>2, <2>1, <2>2 DEF Unfinished
  <2> QED
    BY <2>4, <2>6, <2>7, <2>8 DEF Once
<1>14. CASE Leave
  <2>1. /\ text' = {} /\ drafts' = {} /\ ready' = {} /\ reply' = {} /\ sending' = {}
        /\ picked' = [l \in Loops |-> << >>]
        /\ accepted' = accepted \/ accepted' = Append(accepted, InFlight)
        /\ used' = used
    BY <1>14 DEF Leave
  <2>2. InFlight \in SUBSET Items /\ InFlight \cap Taken = {}
    BY <1>1, <1>2 DEF TypeOK, InFlight, Message, Apart
  <2>3. HandedOnce' /\ Taken' \subseteq Taken \cup InFlight
    BY <1>1, <1>2, <2>1, <2>2, AppendOnce, SameTaken
  <2>4. Len(<< >>) = 0 /\ RangeOf(<< >>) = {}
    BY DEF RangeOf
  <2>5. Distinct' /\ \A l \in Loops : RangeOf(picked'[l]) = {}
    BY <2>1, <2>4 DEF Distinct
  <2>6. ToGo' = {}
    BY <1>1, <2>1, ToGoIsPicked, <2>5 DEF ToGo, RangeOf
  <2>7. InFlight' = {}
    BY <2>1 DEF InFlight
  <2>8. AllUsed'
    BY <1>2, <2>1, <2>3, <2>5, <2>7 DEF AllUsed
  <2>9. Apart'
    BY <2>1, <2>6, <2>7 DEF Apart
  <2>10. Unfinished'
    BY <2>1 DEF Unfinished
  <2> QED
    BY <2>3, <2>5, <2>8, <2>9, <2>10 DEF Once
<1>15. CASE UNCHANGED vars
  <2>1. /\ UNCHANGED <<picked, stage, sending, accepted, used>> /\ ready' = ready
        /\ text' = text /\ drafts' = drafts /\ reply' = reply
    BY <1>15 DEF vars, loops, history
  <2>2. {} \cap used = {} /\ {} \subseteq used'
    OBVIOUS
  <2> QED
    BY <1>4, <2>1, <2>2
<1> QED
  BY <1>5, <1>6, <1>7, <1>8, <1>9, <1>10, <1>11, <1>12, <1>13, <1>14, <1>15 DEF Next

-------------------------------------------------------------------------------
(* Nothing lost *)

\* Everything that is somewhere, or was given up.
Somewhere == text \cup drafts \cup ToGo \cup reply \cup InFlight \cup Taken \cup removed \cup risky

\* Every step keeps an item where it was or moves it to where it is accounted for.
LEMMA LostKept == Kept /\ Once /\ Flight /\ NothingLost /\ [Next]_vars => Flight' /\ NothingLost'
<1> SUFFICES ASSUME Kept, Once, Flight, NothingLost, [Next]_vars PROVE Flight' /\ NothingLost'
  OBVIOUS
<1>1. TypeOK /\ EveryRowSent /\ HandedOnce
  BY DEF Kept, Once
<1>2. used \subseteq Somewhere
  BY DEF NothingLost, Somewhere, Taken
<1>3. NothingLost' <=> used' \subseteq Somewhere'
  BY DEF NothingLost, Somewhere, Taken
<1>4. ASSUME UNCHANGED <<picked, stage>> PROVE ToGo' = ToGo
  BY <1>4, SameCalls
<1>5. ASSUME UNCHANGED <<sending, accepted>> PROVE InFlight' = InFlight /\ Taken' = Taken
  BY <1>5, SameTaken, SameFlight
<1>6. CASE Type
  <2>1. PICK w \in Words \ used : text' = text \cup {w} /\ used' = used \cup {w} /\ AtRisk({w})
    BY <1>6 DEF Type
  <2>2. UNCHANGED <<drafts, picked, stage, reply, sending, removed, accepted>>
    BY <1>6 DEF Type, loops
  <2>3. risky \subseteq risky' /\ (sending # {} => w \in risky')
    BY <2>1 DEF AtRisk
  <2>4. Flight'
    BY <2>1, <2>2, <2>3 DEF Flight
  <2>5. used' \subseteq Somewhere'
    BY <1>2, <1>4, <1>5, <2>1, <2>2, <2>3 DEF Somewhere
  <2> QED
    BY <1>3, <2>4, <2>5
<1>7. CASE Erase
  <2>1. /\ text' = {} /\ removed' = removed \cup text
        /\ UNCHANGED <<drafts, picked, stage, reply, sending, used, risky, accepted>>
    BY <1>7 DEF Erase, loops
  <2>2. Flight'
    BY <2>1 DEF Flight
  <2>3. used' \subseteq Somewhere'
    BY <1>2, <1>4, <1>5, <2>1 DEF Somewhere
  <2> QED
    BY <1>3, <2>2, <2>3
<1>8. CASE ChooseReply
  <2>1. PICK w \in Replies \ used : reply' = {w} /\ used' = used \cup {w} /\ AtRisk({w})
    BY <1>8 DEF ChooseReply
  <2>2. /\ removed' = removed \cup reply
        /\ UNCHANGED <<text, drafts, picked, stage, sending, accepted>>
    BY <1>8 DEF ChooseReply, loops
  <2>3. risky \subseteq risky' /\ (sending # {} => w \in risky')
    BY <2>1 DEF AtRisk
  <2>4. Flight'
    BY <2>1, <2>2, <2>3 DEF Flight
  <2>5. used' \subseteq Somewhere'
    BY <1>2, <1>4, <1>5, <2>1, <2>2, <2>3 DEF Somewhere
  <2> QED
    BY <1>3, <2>4, <2>5
<1>9. CASE CancelReply
  <2>1. /\ reply' = {} /\ removed' = removed \cup reply
        /\ UNCHANGED <<text, drafts, picked, stage, sending, used, risky, accepted>>
    BY <1>9 DEF CancelReply, loops
  <2>2. Flight'
    BY <2>1 DEF Flight
  <2>3. used' \subseteq Somewhere'
    BY <1>2, <1>4, <1>5, <2>1 DEF Somewhere
  <2> QED
    BY <1>3, <2>2, <2>3
<1>10. CASE OpenPicker \/ UNCHANGED vars
  <2>1. UNCHANGED <<text, drafts, picked, stage, reply, sending, used, removed, risky, accepted>>
    BY <1>10 DEF OpenPicker, vars, loops, history
  <2>2. Flight'
    BY <2>1 DEF Flight
  <2>3. used' \subseteq Somewhere'
    BY <1>2, <1>4, <1>5, <2>1 DEF Somewhere
  <2> QED
    BY <1>3, <2>2, <2>3
<1>11. CASE Discard
  <2>1. PICK f \in drafts : drafts' = drafts \ {f} /\ removed' = removed \cup {f}
    BY <1>11 DEF Discard
  <2>2. UNCHANGED <<text, picked, stage, reply, sending, used, risky, accepted>>
    BY <1>11 DEF Discard, loops
  <2>3. Flight'
    BY <2>1, <2>2 DEF Flight
  <2>4. used' \subseteq Somewhere'
    BY <1>2, <1>4, <1>5, <2>1, <2>2 DEF Somewhere
  <2> QED
    BY <1>3, <2>3, <2>4
<1>12. ASSUME NEW l \in Loops, AttachFiles(l) PROVE Flight' /\ NothingLost'
  <2>1. PICK f \in Files \ used, g \in Files \ used :
            /\ picked' = [picked EXCEPT ![l] = IF f = g THEN <<f>> ELSE <<f, g>>]
            /\ used' = used \cup {f, g}
    BY <1>12 DEF AttachFiles
  <2>2. /\ picked[l] = << >> /\ stage' = [stage EXCEPT ![l] = "measure"]
        /\ UNCHANGED <<text, drafts, reply, sending, removed, risky, accepted>>
    BY <1>12 DEF AttachFiles
  <2>3. ToGo' = ToGo \cup {f, g}
    BY <1>1, <2>1, <2>2, AttachEffect
  <2>4. Flight'
    BY <2>2 DEF Flight
  <2>5. used' \subseteq Somewhere'
    BY <1>2, <1>5, <2>1, <2>2, <2>3 DEF Somewhere
  <2> QED
    BY <1>3, <2>4, <2>5
<1>13. ASSUME NEW l \in Loops, Measured(l) PROVE Flight' /\ NothingLost'
  <2> DEFINE h == Head(picked[l])
  <2>1. /\ picked[l] # << >> /\ stage[l] = "measure" /\ drafts' = drafts \cup {h} /\ AtRisk({h})
        /\ stage' = [stage EXCEPT ![l] = "upload"]
        /\ UNCHANGED <<text, picked, reply, sending, used, removed, accepted>>
    BY <1>13 DEF Measured
  <2>2. ToGo \subseteq ToGo' \cup {h}
    BY <1>1, <2>1, MeasuredEffect
  <2>3. risky \subseteq risky' /\ (sending # {} => h \in risky')
    BY <2>1 DEF AtRisk
  <2>4. Flight'
    BY <2>1, <2>3 DEF Flight
  <2>5. used' \subseteq Somewhere'
    BY <1>2, <1>5, <2>1, <2>2, <2>3 DEF Somewhere
  <2> QED
    BY <1>3, <2>4, <2>5
<1>14. ASSUME NEW l \in Loops, Uploaded(l) \/ UploadFails(l) PROVE Flight' /\ NothingLost'
  <2>1. /\ picked[l] # << >> /\ stage[l] = "upload" /\ NextFile(l)
        /\ UNCHANGED <<text, reply, sending, used, risky, accepted>>
        /\ drafts' \subseteq drafts /\ drafts \cup removed \subseteq drafts' \cup removed'
    BY <1>14 DEF Uploaded, UploadFails, history
  <2>2. ToGo' = ToGo /\ removed \subseteq removed'
    BY <1>1, <1>14, <2>1, NextFileEffect DEF Uploaded, UploadFails, history
  <2>3. Flight'
    BY <2>1, <2>2 DEF Flight
  <2>4. used' \subseteq Somewhere'
    BY <1>2, <1>5, <2>1, <2>2 DEF Somewhere
  <2> QED
    BY <1>3, <2>3, <2>4
<1>15. CASE Submit
  <2> DEFINE x == [message |-> text \cup ready \cup reply, words |-> text, rows |-> drafts]
  <2>1. /\ sending' = {x} /\ ready = drafts /\ sending = {}
        /\ x.message = text \cup ready \cup reply /\ x.rows = drafts /\ x.words = text
    BY <1>1, <1>15, SubmitEffect
  <2>2. /\ text' = {} /\ drafts' = {}
        /\ UNCHANGED <<picked, stage, reply, used, removed, risky, accepted>>
    BY <1>15 DEF Submit, loops, history
  <2> HIDE DEF x
  <2>3. InFlight' = x.message /\ InFlight = {} /\ Taken' = Taken
    BY <2>1, <2>2, SameTaken DEF InFlight
  <2>4. Flight'
    BY <2>1, <2>2 DEF Flight
  <2>5. used' \subseteq Somewhere'
    BY <1>2, <1>4, <2>1, <2>2, <2>3 DEF Somewhere
  <2> QED
    BY <1>3, <2>4, <2>5
<1>16. ASSUME NEW x \in sending
       PROVE  /\ InFlight = x.message /\ x.message \in SUBSET Items
              /\ text \cup drafts \subseteq risky
              /\ reply \subseteq x.message \cup risky
              /\ x.message \subseteq x.words \cup x.rows \cup reply \cup removed
  <2>1. sending = {x}
    BY DEF Flight
  <2> QED
    BY <1>1, <2>1, FlightFacts DEF Flight, TypeOK, Message
<1>17. CASE Sent
  <2>1. PICK x \in sending : accepted' = Append(accepted, x.message)
    BY <1>17 DEF Sent
  <2>2. /\ reply' = {} /\ sending' = {}
        /\ UNCHANGED <<text, drafts, picked, stage, used, removed, risky>>
    BY <1>17 DEF Sent, loops
  <2>3. InFlight = x.message /\ x.message \in SUBSET Items /\ reply \subseteq x.message \cup risky
    BY <1>16
  <2>4. Taken' = Taken \cup x.message
    BY <1>1, <2>1, <2>3, AppendOnce DEF Once, Apart
  <2>5. used' \subseteq Somewhere'
    BY <1>2, <1>4, <2>2, <2>3, <2>4 DEF Somewhere
  <2> QED
    BY <1>3, <2>2, <2>5 DEF Flight
<1>18. CASE SendFails
  <2>1. PICK x \in sending : text' = x.words /\ drafts' = x.rows /\ ready' = x.rows
    BY <1>18 DEF SendFails
  <2>2. sending' = {} /\ UNCHANGED <<picked, stage, reply, used, removed, risky, accepted>>
    BY <1>18 DEF SendFails, loops, history
  <2>3. /\ InFlight = x.message /\ text \cup drafts \subseteq risky
        /\ x.message \subseteq x.words \cup x.rows \cup reply \cup removed
    BY <1>16
  <2>4. Taken' = Taken
    BY <2>2, SameTaken
  <2>5. used' \subseteq Somewhere'
    BY <1>2, <1>4, <2>1, <2>2, <2>3, <2>4 DEF Somewhere
  <2> QED
    BY <1>3, <2>2, <2>5 DEF Flight
<1>19. CASE Leave
  <2>1. /\ sending' = {} /\ UNCHANGED <<used, risky>>
        /\ removed' = removed \cup text \cup drafts \cup ToGo \cup reply \cup InFlight
        /\ accepted' = accepted \/ accepted' = Append(accepted, InFlight)
    BY <1>19 DEF Leave
  <2>2. InFlight \in SUBSET Items /\ InFlight \cap Taken = {}
    BY <1>1 DEF TypeOK, InFlight, Message, Once, Apart
  <2>3. Taken \subseteq Taken'
    BY <1>1, <2>1, <2>2, AppendOnce, SameTaken
  <2>4. used' \subseteq Somewhere'
    BY <1>2, <2>1, <2>3 DEF Somewhere
  <2> QED
    BY <1>3, <2>1, <2>4 DEF Flight
<1> QED
  BY <1>6, <1>7, <1>8, <1>9, <1>10, <1>11, <1>12, <1>13, <1>14, <1>15, <1>17, <1>18, <1>19 DEF Next

-------------------------------------------------------------------------------

\* At first nothing is composed.
LEMMA InitIInv == Init => IInv
<1> SUFFICES ASSUME Init PROVE IInv
  OBVIOUS
<1>1. << >> \in Seq(SUBSET Items) /\ << >> \in Seq(Files) /\ Len(<< >>) = 0 /\ RangeOf(<< >>) = {}
  BY DEF RangeOf
<1>2. TypeOK
  BY <1>1 DEF Init, TypeOK
<1>3. Kept
  BY <1>2 DEF Init, Kept, NoStuckRow, EveryRowSent
<1>4. Taken = {} /\ InFlight = {}
  BY <1>1 DEF Init, Taken, InFlight
<1>5. \A l \in Loops : RangeOf(picked[l]) = {} /\ Len(picked[l]) = 0
  BY <1>1 DEF Init
<1>6. ToGo = {}
  BY <1>2, <1>5, ToGoIsPicked
<1>7. Flight /\ NothingLost
  BY DEF Init, Flight, NothingLost
<1>8. Distinct /\ AllUsed
  BY <1>4, <1>5 DEF Init, Distinct, AllUsed
<1>9. Apart /\ Unfinished /\ HandedOnce
  BY <1>4, <1>6, <1>1 DEF Init, Apart, Unfinished, HandedOnce
<1> QED
  BY <1>3, <1>7, <1>8, <1>9 DEF IInv, Once

\* The four parts hold in every state that can be reached.
LEMMA Inductive == Spec => []IInv
<1>1. IInv /\ [Next]_vars => IInv'
  BY KeptKept, OnceKept, LostKept DEF IInv
<1> QED
  BY InitIInv, <1>1, PTL DEF Spec

\* What the composer holds keeps its type; a row is ready only while it is there.
THEOREM TypeCorrect == Spec => []TypeOK
<1>1. IInv => TypeOK
  BY DEF IInv, Kept
<1> QED
  BY Inductive, <1>1, PTL

\* Only what appears while a message is on its way can be lost.
THEOREM OnlyRiskyIsLost == Spec => []NothingLost
<1>1. IInv => NothingLost
  BY DEF IInv
<1> QED
  BY Inductive, <1>1, PTL

\* A submit takes every file the user sees.
THEOREM RowsAreSent == Spec => []EveryRowSent
<1>1. IInv => EveryRowSent
  BY DEF IInv, Kept
<1> QED
  BY Inductive, <1>1, PTL

\* However often a send fails and is made again, no item is accepted twice.
THEOREM ItemsAreHandedOnce == Spec => []HandedOnce
<1>1. IInv => HandedOnce
  BY DEF IInv, Once
<1> QED
  BY Inductive, <1>1, PTL

\* A row that keeps the send button disabled has an upload at work on it.
THEOREM RowsAreServed == Spec => []NoStuckRow
<1>1. IInv => NoStuckRow
  BY DEF IInv, Kept
<1> QED
  BY Inductive, <1>1, PTL

-------------------------------------------------------------------------------
(* The dialogs *)

\* What a call in flight may be: nothing, a search, or another question.
Asks == {"contacts", "add", "open", "create"}
Inquiry == [op : {"search"}, box : Boxes, term : Terms \cup {NoTerm}, alive : BOOLEAN]
Ask == [op : Asks, users : SUBSET Users, step : {"asked", "answered"}, alive : BOOLEAN]
DialogCall == {Idle} \cup Inquiry \cup Ask

\* What the proofs need to know of the types.
DialogTypes ==
    /\ needle \in [Boxes -> Terms \cup {NoTerm}]
    /\ contacts \in [Users -> Nat]
    /\ friends \subseteq Users
    /\ made \in 0..2
    /\ busy \in BOOLEAN
    /\ unsure \in BOOLEAN
    /\ call \in [Calls -> DialogCall]

\* A call waits for nothing, for a search, or for another answer.
LEMMA CallKinds ==
    ASSUME NEW c \in DialogCall
    PROVE  \/ c = Idle /\ c.op = "idle"
           \/ c.op = "search" /\ c \in Inquiry
           \/ c.op \in Asks /\ c \in Ask
  BY DEF DialogCall, Inquiry, Ask, Idle

\* The fields of a search, also of one whose dialog is taken away.
LEMMA QueryFields ==
    ASSUME NEW c \in Inquiry
    PROVE  /\ c.op = "search" /\ c.box \in Boxes /\ c.alive \in BOOLEAN
           /\ [c EXCEPT !.alive = FALSE] \in Inquiry
  BY DEF Inquiry

\* The fields of another call, whose dialog is taken away, or that is answered.
LEMMA AskFields ==
    ASSUME NEW c \in Ask
    PROVE  /\ c.op \in Asks /\ c.users \in SUBSET Users /\ c.step \in {"asked", "answered"}
           /\ c.alive \in BOOLEAN
           /\ [c EXCEPT !.alive = FALSE] \in Ask
           /\ [c EXCEPT !.alive = FALSE].op = c.op
           /\ [c EXCEPT !.alive = FALSE].alive = FALSE
           /\ [c EXCEPT !.step = "answered"] \in Ask
           /\ [c EXCEPT !.step = "answered"].op = c.op
           /\ [c EXCEPT !.step = "answered"].alive = c.alive
           /\ [c EXCEPT !.step = "answered"].users = c.users
           /\ [c EXCEPT !.step = "answered"].step = "answered"
  BY DEF Ask

\* The answer with the contacts.
LEMMA ListFields ==
    ASSUME NEW c \in Ask, NEW f \in SUBSET Users
    PROVE  /\ [c EXCEPT !.step = "answered", !.users = f] \in Ask
           /\ [c EXCEPT !.step = "answered", !.users = f].op = c.op
           /\ [c EXCEPT !.step = "answered", !.users = f].alive = c.alive
           /\ [c EXCEPT !.step = "answered", !.users = f].users = f
           /\ [c EXCEPT !.step = "answered", !.users = f].step = "answered"
  BY DEF Ask

\* The calls that begin.
LEMMA NewCalls ==
    /\ Idle \in DialogCall /\ Idle.op = "idle"
    /\ \A op \in Asks : \A users \in SUBSET Users :
          /\ Request(op, users) \in DialogCall
          /\ Request(op, users).op = op
          /\ Request(op, users).users = users
          /\ Request(op, users).step = "asked"
          /\ Request(op, users).alive = TRUE
    /\ \A b \in Boxes : DialogTypes => Query(b) \in DialogCall /\ Query(b).op = "search"
<1>1. Idle \in DialogCall /\ Idle.op = "idle"
  BY DEF DialogCall, Idle
<1>2. ASSUME NEW op \in Asks, NEW users \in SUBSET Users
      PROVE  /\ Request(op, users) \in DialogCall
             /\ Request(op, users).op = op
             /\ Request(op, users).users = users
             /\ Request(op, users).step = "asked"
             /\ Request(op, users).alive = TRUE
  BY DEF DialogCall, Ask, Request
<1>3. ASSUME DialogTypes, NEW b \in Boxes
      PROVE  Query(b) \in DialogCall /\ Query(b).op = "search"
  BY <1>3 DEF DialogCall, Inquiry, Query, DialogTypes
<1> QED
  BY <1>1, <1>2, <1>3

\* What is left of a call when its dialog is taken away.
LEMMA Orphans ==
    ASSUME NEW k, call[k] \in DialogCall
    PROVE  /\ Orphaned(k) \in DialogCall
           /\ Orphaned(k).op = call[k].op
           /\ call[k].op \in Asks => Orphaned(k).alive = FALSE
<1>1. CASE call[k] \in Ask
  <2>1. Orphaned(k) = [call[k] EXCEPT !.alive = FALSE]
    BY <1>1, AskFields DEF Orphaned, Asks, Idle
  <2>2. [call[k] EXCEPT !.alive = FALSE] \in DialogCall
    BY <1>1, AskFields DEF DialogCall
  <2> QED
    BY <1>1, <2>1, <2>2, AskFields
<1>2. CASE call[k] \in Inquiry
  <2>1. Orphaned(k) = [call[k] EXCEPT !.alive = FALSE] \/ Orphaned(k) = call[k]
    BY DEF Orphaned
  <2>2. [call[k] EXCEPT !.alive = FALSE] \in Inquiry
    BY <1>2, QueryFields
  <2>3. Orphaned(k) \in Inquiry
    BY <1>2, <2>1, <2>2
  <2> QED
    BY <1>2, <2>3, QueryFields DEF DialogCall, Asks
<1>3. CASE call[k] = Idle
  BY <1>3, NewCalls DEF Orphaned, Asks
<1> QED
  BY <1>1, <1>2, <1>3, CallKinds

\* The calls that will create a group for the dialog that is shown.
Creates == {k \in Awaited("create") : call[k].alive}

\* There is one at most while the button is disabled, and a group that was made
\* has its answer still to come.
OneCreation ==
    /\ \A k, l \in Creates : k = l
    /\ Creates # {} => busy
    /\ ~ unsure => made <= 1 /\ (made # 0 => \E k \in Creates : call[k].step = "answered")

\* The contacts that were added and are not in the dialog yet.
Adding == {k \in Awaited("add") : call[k].step = "answered"}

\* The dialog and those that are about to come have each contact once.
Balanced ==
    /\ \A u \in Users : contacts[u] = IF u \in friends /\ \A k \in Adding : u \notin call[k].users
                                      THEN 1 ELSE 0
    /\ \A k \in Adding : call[k].users \subseteq friends
    /\ \A k, l \in Adding : call[k].users \cap call[l].users # {} => k = l

\* A dialog that has not missed anything has its contacts or waits for them, and
\* adds none while they are being read.
Listed ==
    compose # "none" /\ ~ unsure =>
        /\ Awaited("contacts") = {} \/ Awaited("add") = {}
        /\ \A k \in Awaited("add") : call[k].alive
        /\ \A k \in Awaited("contacts") :
              call[k].alive /\ call[k].step = "answered" => call[k].users = friends
        /\ (\A k \in Awaited("contacts") : ~ call[k].alive) => Balanced

DialogInv == DialogTypes /\ OneCreation /\ Listed

\* A step of one call.
LEMMA BecameFacts ==
    ASSUME DialogTypes, NEW k \in Calls, NEW c \in DialogCall, Became(k, c)
    PROVE  /\ call' \in [Calls -> DialogCall] /\ call'[k] = c
           /\ \A x \in Calls : x # k => call'[x] = call[x]
  BY DEF DialogTypes, Became

\* A step in which a dialog is taken away.
LEMMA TakenAway ==
    ASSUME DialogTypes, NEW k \in Calls, NEW c \in DialogCall,
           call' = [x \in Calls |-> IF x = k THEN c ELSE Orphaned(x)]
    PROVE  /\ call' \in [Calls -> DialogCall] /\ call'[k] = c
           /\ \A x \in Calls : x # k =>
                 /\ call'[x].op = call[x].op
                 /\ call[x].op \in Asks => call'[x].alive = FALSE
<1>1. \A x \in Calls : call[x] \in DialogCall
  BY DEF DialogTypes
<1>2. \A x \in Calls : /\ Orphaned(x) \in DialogCall
                       /\ Orphaned(x).op = call[x].op
                       /\ call[x].op \in Asks => Orphaned(x).alive = FALSE
  BY <1>1, Orphans
<1> QED
  BY <1>2

\* A step of a call that creates no group.
LEMMA NoCreation ==
    ASSUME DialogTypes, OneCreation, NEW k \in Calls, NEW c \in DialogCall, Became(k, c),
           call[k].op # "create", c.op # "create",
           made' = made, busy' = busy, unsure => unsure'
    PROVE  OneCreation'
<1>1. call'[k] = c /\ \A x \in Calls : x # k => call'[x] = call[x]
  BY BecameFacts
<1>2. Creates' = Creates /\ \A x \in Creates : call'[x] = call[x]
  BY <1>1 DEF Creates, Awaited
<1> QED
  BY <1>2 DEF OneCreation

\* A step of a call that is not about the contacts.
LEMMA NoContact ==
    ASSUME DialogTypes, Listed, NEW k \in Calls, NEW c \in DialogCall, Became(k, c),
           call[k].op \notin {"contacts", "add"}, c.op \notin {"contacts", "add"},
           compose' = compose, contacts' = contacts, friends' = friends, unsure => unsure'
    PROVE  Listed'
<1>1. call'[k] = c /\ \A x \in Calls : x # k => call'[x] = call[x]
  BY BecameFacts
<1>2. /\ Awaited("contacts")' = Awaited("contacts") /\ Awaited("add")' = Awaited("add")
      /\ \A x \in Awaited("contacts") \cup Awaited("add") : call'[x] = call[x]
  BY <1>1 DEF Awaited
<1>3. Adding' = Adding /\ \A x \in Adding : call'[x] = call[x]
  BY <1>2 DEF Adding
<1>4. Balanced' <=> Balanced
  BY <1>3 DEF Balanced
<1> QED
  BY <1>2, <1>4 DEF Listed

\* A dialog is shown: it asks for its contacts and has created nothing.
LEMMA ShowKeeps ==
    ASSUME DialogInv, NEW k \in Calls, NEW kind, Show(k, kind)
    PROVE  DialogInv'
<1>0. PICK c \in DialogCall : /\ c = Request("contacts", {}) /\ c.op = "contacts"
                              /\ c.step = "asked" /\ c.alive = TRUE
  BY NewCalls DEF Asks
<1>1. /\ call' = [x \in Calls |-> IF x = k THEN c ELSE Orphaned(x)]
      /\ unsure' = (Awaited("add") # {}) /\ Clear /\ friends' = friends
      /\ call[k] = Idle
  BY <1>0 DEF Show
<1>2. /\ call' \in [Calls -> DialogCall] /\ call'[k] = c
      /\ \A x \in Calls : x # k => /\ call'[x].op = call[x].op
                                   /\ call[x].op \in Asks => call'[x].alive = FALSE
  BY <1>1, TakenAway DEF DialogInv
<1>3. DialogTypes'
  <2>1. needle' \in [Boxes -> Terms \cup {NoTerm}] /\ contacts' \in [Users -> Nat]
    BY <1>1 DEF Clear, DialogInv, DialogTypes
  <2>2. friends' \subseteq Users /\ made' \in 0..2
    BY <1>1 DEF Clear, DialogInv, DialogTypes
  <2>3. busy' \in BOOLEAN /\ unsure' \in BOOLEAN
    BY <1>1 DEF Clear
  <2> QED
    BY <1>2, <2>1, <2>2, <2>3 DEF DialogTypes
<1>4. OneCreation'
  <2>1. Creates' = {}
    BY <1>0, <1>2 DEF Creates, Awaited, Asks
  <2> QED
    BY <1>1, <2>1 DEF OneCreation, Clear
<1>5. Listed'
  <2> SUFFICES ASSUME ~ unsure' PROVE Listed'
    BY DEF Listed
  <2>1. Awaited("add")' = {}
    BY <1>0, <1>1, <1>2 DEF Awaited
  <2>2. \A x \in Awaited("contacts")' : x = k \/ ~ call'[x].alive
    BY <1>2 DEF Awaited, Asks
  <2>3. k \in Awaited("contacts")' /\ call'[k].alive /\ call'[k].step # "answered"
    BY <1>0, <1>2 DEF Awaited
  <2> QED
    BY <2>1, <2>2, <2>3 DEF Listed
<1> QED
  BY <1>3, <1>4, <1>5 DEF DialogInv

\* No dialog is shown any more.
LEMMA ClosedKeeps ==
    ASSUME DialogInv, NEW k \in Calls, NEW next, next = Idle \/ next = Orphaned(k),
           Closed(k, next), friends' = friends
    PROVE  DialogInv'
<1>1. /\ call' = [x \in Calls |-> IF x = k THEN next ELSE Orphaned(x)]
      /\ unsure' = FALSE /\ Clear /\ compose' = "none"
  BY DEF Closed
<1>2. call[k] \in DialogCall
  BY DEF DialogInv, DialogTypes
<1>3. next \in DialogCall /\ (next.op \in Asks => next.alive = FALSE)
  <2>1. CASE next = Idle
    BY <2>1, NewCalls DEF Asks
  <2>2. CASE next = Orphaned(k)
    BY <1>2, <2>2, Orphans
  <2> QED
    BY <2>1, <2>2
<1>4. /\ call' \in [Calls -> DialogCall] /\ call'[k] = next
      /\ \A x \in Calls : x # k => /\ call'[x].op = call[x].op
                                   /\ call[x].op \in Asks => call'[x].alive = FALSE
  BY <1>1, <1>3, TakenAway DEF DialogInv
<1>5. DialogTypes'
  <2>1. needle' \in [Boxes -> Terms \cup {NoTerm}] /\ contacts' \in [Users -> Nat]
    BY <1>1 DEF Clear, DialogInv, DialogTypes
  <2>2. friends' \subseteq Users /\ made' \in 0..2
    BY <1>1 DEF Clear, DialogInv, DialogTypes
  <2>3. busy' \in BOOLEAN /\ unsure' \in BOOLEAN
    BY <1>1 DEF Clear
  <2> QED
    BY <1>4, <2>1, <2>2, <2>3 DEF DialogTypes
<1>6. OneCreation'
  <2>1. Creates' = {}
    BY <1>3, <1>4 DEF Creates, Awaited, Asks
  <2> QED
    BY <1>1, <2>1 DEF OneCreation, Clear
<1>7. Listed'
  BY <1>1 DEF Listed
<1> QED
  BY <1>5, <1>6, <1>7 DEF DialogInv

\* A step of one call keeps the types.
LEMMA TypesKept ==
    ASSUME DialogTypes, NEW k \in Calls, NEW c \in DialogCall, Became(k, c),
           needle' = needle, contacts' \in [Users -> Nat], friends' \subseteq Users,
           made' \in 0..2, busy' \in BOOLEAN, unsure' \in BOOLEAN
    PROVE  DialogTypes'
  BY BecameFacts DEF DialogTypes

\* What is known of a call in flight.
LEMMA AskInFlight ==
    ASSUME DialogTypes, NEW k \in Calls, call[k].op \in Asks
    PROVE  /\ call[k] \in Ask /\ call[k] \in DialogCall
           /\ call[k].users \in SUBSET Users /\ call[k].step \in {"asked", "answered"}
           /\ call[k].alive \in BOOLEAN
           /\ [call[k] EXCEPT !.step = "answered"] \in DialogCall
<1>1. call[k] \in DialogCall
  BY DEF DialogTypes
<1>2. call[k] \in Ask
  BY <1>1, CallKinds DEF Asks
<1> QED
  BY <1>1, <1>2, AskFields DEF DialogCall

\* What is typed has no part in the invariant.
LEMMA OnChangeKeeps ==
    ASSUME DialogInv, NEW b \in Boxes, NEW t \in Terms \cup {NoTerm}, OnChange(b, t)
    PROVE  DialogInv'
<1>1. /\ UNCHANGED <<compose, contacts, friends, made, busy, unsure, call>>
      /\ needle' = [needle EXCEPT ![b] = t]
  BY DEF OnChange, dialog
<1>2. DialogTypes'
  BY <1>1 DEF DialogInv, DialogTypes
<1>3. OneCreation'
  BY <1>1 DEF DialogInv, OneCreation, Creates, Awaited
<1>4. Listed'
  BY <1>1 DEF DialogInv, Listed, Balanced, Adding, Awaited
<1> QED
  BY <1>2, <1>3, <1>4 DEF DialogInv

\* A step of a search.
LEMMA SearchKeeps ==
    ASSUME DialogInv, NEW k \in Calls,
           Searched(k) \/ \E b \in Boxes : Search(k, b)
    PROVE  DialogInv'
<1>1. PICK c \in DialogCall : /\ Became(k, c) /\ c.op \in {"idle", "search"}
                              /\ call[k].op \in {"idle", "search"}
  <2>1. CASE Searched(k)
    BY <2>1, NewCalls DEF Searched
  <2>2. ASSUME NEW b \in Boxes, Search(k, b)
        PROVE  \E c \in DialogCall : /\ Became(k, c) /\ c.op \in {"idle", "search"}
                                     /\ call[k].op \in {"idle", "search"}
    <3>1. call[k] = Idle /\ Became(k, Query(b))
      BY <2>2 DEF Search, Begin, Became
    <3> QED
      BY <3>1, NewCalls DEF DialogInv
  <2> QED
    BY <2>1, <2>2
<1>2. UNCHANGED <<compose, needle, contacts, friends, made, busy, unsure>>
  BY DEF Searched, Search, dialog
<1>3. DialogTypes'
  BY <1>1, <1>2, TypesKept DEF DialogInv, DialogTypes
<1>4. OneCreation'
  BY <1>1, <1>2, NoCreation DEF DialogInv
<1>5. Listed'
  BY <1>1, <1>2, NoContact DEF DialogInv
<1> QED
  BY <1>3, <1>4, <1>5 DEF DialogInv

\* "Message" begins a call that creates no group.
LEMMA OpenChatKeeps ==
    ASSUME DialogInv, NEW k \in Calls, NEW u \in Users, OpenChat(k, u)
    PROVE  DialogInv'
<1>1. PICK c \in DialogCall : c = Request("open", {u}) /\ c.op = "open"
  BY NewCalls DEF Asks
<1>2. /\ Became(k, c) /\ call[k] = Idle
      /\ UNCHANGED <<compose, needle, contacts, friends, made, busy, unsure>>
  BY <1>1 DEF OpenChat, Begin, Became, search
<1>3. call[k].op = "idle"
  BY <1>2, NewCalls
<1>4. DialogTypes'
  BY <1>2, TypesKept DEF DialogInv, DialogTypes
<1>5. OneCreation'
  BY <1>1, <1>2, <1>3, NoCreation DEF DialogInv
<1>6. Listed'
  BY <1>1, <1>2, <1>3, NoContact DEF DialogInv
<1> QED
  BY <1>4, <1>5, <1>6 DEF DialogInv

\* The button was enabled: no other creation is in flight for this dialog.
LEMMA CreateKeeps ==
    ASSUME DialogInv, NEW k \in Calls, Create(k)
    PROVE  DialogInv'
<1>1. PICK c \in DialogCall : c = Request("create", {}) /\ c.op = "create"
  BY NewCalls DEF Asks
<1>2. /\ Became(k, c) /\ call[k] = Idle /\ ~ busy /\ busy' = TRUE
      /\ UNCHANGED <<compose, needle, contacts, friends, made, unsure>>
  BY <1>1 DEF Create, Begin, Became, search
<1>3. call[k].op = "idle"
  BY <1>2, NewCalls
<1>4. DialogTypes'
  BY <1>2, TypesKept DEF DialogInv, DialogTypes
<1>5. OneCreation'
  <2>1. Creates = {} /\ (~ unsure => made = 0)
    BY <1>2 DEF DialogInv, OneCreation
  <2>2. \A x \in Calls : x # k => call'[x] = call[x]
    BY <1>2, BecameFacts DEF DialogInv
  <2>3. Creates' \subseteq {k}
    BY <2>1, <2>2 DEF Creates, Awaited
  <2>4. ~ unsure' => made' = 0
    BY <1>2, <2>1
  <2> QED
    BY <1>2, <2>3, <2>4 DEF OneCreation
<1>6. Listed'
  BY <1>1, <1>2, <1>3, NoContact DEF DialogInv
<1> QED
  BY <1>4, <1>5, <1>6 DEF DialogInv

\* A group is made, for the dialog that is shown or for one that is gone.
LEMMA ServeBeginKeeps ==
    ASSUME DialogInv, NEW k \in Calls, ServeBegin(k)
    PROVE  DialogInv'
<1>1. call[k] \in Ask /\ call[k].op \in {"open", "create"} /\ call[k].step = "asked"
  BY AskInFlight DEF ServeBegin, DialogInv, Asks
<1>2. PICK c \in DialogCall : /\ c = [call[k] EXCEPT !.step = "answered"]
                              /\ c.op = call[k].op /\ c.alive = call[k].alive
                              /\ c.step = "answered"
  BY <1>1, AskInFlight, AskFields DEF DialogInv, Asks
<1>3. /\ Became(k, c)
      /\ UNCHANGED <<compose, needle, contacts, friends, busy, unsure>>
      /\ made' = IF call[k].op = "create" /\ call[k].alive /\ made < 2 THEN made + 1 ELSE made
  BY <1>2 DEF ServeBegin, search, Many
<1>4. DialogTypes'
  <2>1. made' \in 0..2
    BY <1>3 DEF DialogInv, DialogTypes
  <2> QED
    BY <1>3, <2>1, TypesKept DEF DialogInv, DialogTypes
<1>5. OneCreation'
  <2>1. call'[k] = c /\ \A x \in Calls : x # k => call'[x] = call[x]
    BY <1>3, BecameFacts DEF DialogInv
  <2>2. Creates' = Creates
    BY <1>2, <2>1 DEF Creates, Awaited
  <2>3. CASE k \in Creates
    <3>1. \A x \in Creates : x = k
      BY <2>3 DEF DialogInv, OneCreation
    <3>2. ~ unsure => made = 0
      <4> SUFFICES ASSUME ~ unsure, made # 0 PROVE FALSE
        OBVIOUS
      <4>1. \E x \in Creates : call[x].step = "answered"
        BY DEF DialogInv, OneCreation
      <4> QED
        BY <1>1, <3>1, <4>1
    <3>3. ~ unsure' => made' <= 1
      BY <1>3, <3>2
    <3>4. call'[k].step = "answered"
      BY <1>2, <2>1
    <3> QED
      BY <1>3, <2>2, <2>3, <3>3, <3>4 DEF DialogInv, OneCreation
  <2>4. CASE k \notin Creates
    <3>1. made' = made
      BY <1>3, <2>4 DEF Creates, Awaited
    <3>2. \A x \in Creates : call'[x] = call[x]
      BY <2>1, <2>4 DEF Creates, Awaited
    <3> QED
      BY <1>3, <2>2, <3>1, <3>2 DEF DialogInv, OneCreation
  <2> QED
    BY <2>3, <2>4
<1>6. Listed'
  BY <1>1, <1>2, <1>3, NoContact DEF DialogInv
<1> QED
  BY <1>4, <1>5, <1>6 DEF DialogInv

\* When the creation fails the button is enabled again; what may have been made
\* without an answer is not known.
LEMMA BeginFailsKeeps ==
    ASSUME DialogInv, NEW k \in Calls, BeginFails(k)
    PROVE  DialogInv'
<1>1. call[k] \in Ask /\ call[k].op \in {"open", "create"} /\ call[k].step \in {"asked", "answered"}
  BY AskInFlight DEF BeginFails, DialogInv, Asks
<1>2. Idle \in DialogCall /\ Idle.op = "idle"
  BY NewCalls
<1>3. /\ Became(k, Idle)
      /\ UNCHANGED <<compose, needle, contacts, friends, made>>
      /\ busy' = (busy /\ ~ (call[k].op = "create" /\ call[k].alive))
      /\ unsure' = (unsure \/ (call[k].step = "answered" /\ call[k].alive))
  BY DEF BeginFails, search
<1>4. DialogTypes'
  <2>1. busy' \in BOOLEAN /\ unsure' \in BOOLEAN
    BY <1>3
  <2> QED
    BY <1>2, <1>3, <2>1, TypesKept DEF DialogInv, DialogTypes
<1>5. OneCreation'
  <2>1. call'[k] = Idle /\ \A x \in Calls : x # k => call'[x] = call[x]
    BY <1>2, <1>3, BecameFacts DEF DialogInv
  <2>2. Creates' = Creates \ {k} /\ \A x \in Creates' : call'[x] = call[x]
    BY <1>2, <2>1 DEF Creates, Awaited
  <2>3. CASE k \in Creates
    <3>1. Creates' = {}
      BY <2>2, <2>3 DEF DialogInv, OneCreation
    <3>2. ~ unsure' => made' = 0
      <4> SUFFICES ASSUME ~ unsure', made # 0 PROVE FALSE
        BY <1>3
      <4>1. ~ unsure /\ \E x \in Creates : call[x].step = "answered"
        BY <1>3 DEF DialogInv, OneCreation
      <4>2. call[k].step = "answered" /\ call[k].alive
        BY <2>3, <4>1 DEF DialogInv, OneCreation, Creates
      <4> QED
        BY <1>3, <4>2
    <3> QED
      BY <3>1, <3>2 DEF OneCreation
  <2>4. CASE k \notin Creates
    <3>1. Creates' = Creates
      BY <2>2, <2>4
    <3>2. ~ (call[k].op = "create" /\ call[k].alive)
      BY <2>4 DEF Creates, Awaited
    <3>3. (busy => busy') /\ (unsure => unsure')
      BY <1>3, <3>2
    <3>4. \A x, y \in Creates' : x = y
      BY <3>1 DEF DialogInv, OneCreation
    <3>5. Creates' # {} => busy'
      BY <3>1, <3>3 DEF DialogInv, OneCreation
    <3>6. ~ unsure' => made' <= 1 /\ (made' # 0 => \E x \in Creates' : call'[x].step = "answered")
      BY <1>3, <2>2, <3>1, <3>3 DEF DialogInv, OneCreation
    <3> QED
      BY <3>4, <3>5, <3>6 DEF OneCreation
  <2> QED
    BY <2>3, <2>4
<1>6. Listed'
  <2>1. unsure => unsure'
    BY <1>3
  <2> QED
    BY <1>1, <1>2, <1>3, <2>1, NoContact DEF DialogInv
<1> QED
  BY <1>4, <1>5, <1>6 DEF DialogInv

\* The calls about the contacts, when one call has changed.
LEMMA Flights ==
    ASSUME DialogTypes, NEW k \in Calls, NEW c \in DialogCall, Became(k, c)
    PROVE  /\ c.op = "contacts" => Awaited("contacts")' = Awaited("contacts") \cup {k}
           /\ c.op # "contacts" => Awaited("contacts")' = Awaited("contacts") \ {k}
           /\ c.op = "add" => Awaited("add")' = Awaited("add") \cup {k}
           /\ c.op # "add" => Awaited("add")' = Awaited("add") \ {k}
           /\ k \in Awaited("contacts") <=> call[k].op = "contacts"
           /\ k \in Awaited("add") <=> call[k].op = "add"
<1>1. call'[k] = c /\ \A x \in Calls : x # k => call'[x] = call[x]
  BY BecameFacts
<1> QED
  BY <1>1 DEF Awaited

\* The balance depends on the contacts, and on what is about to come.
LEMMA SameBalance ==
    ASSUME Balanced, UNCHANGED <<contacts, friends>>, Adding' = Adding,
           \A x \in Adding : call'[x] = call[x]
    PROVE  Balanced'
  BY DEF Balanced

\* "Add", while no list of contacts is awaited.
LEMMA AddContactKeeps ==
    ASSUME DialogInv, NEW k \in Calls, NEW u \in Users, AddContact(k, u)
    PROVE  DialogInv'
<1>1. PICK c \in DialogCall : /\ c = Request("add", {u}) /\ c.op = "add"
                              /\ c.step = "asked" /\ c.alive = TRUE
  BY NewCalls DEF Asks
<1>2. /\ Became(k, c) /\ call[k] = Idle
      /\ UNCHANGED <<compose, needle, contacts, friends, busy, made>>
      /\ unsure' = (unsure \/ Awaited("contacts") # {})
  BY <1>1 DEF AddContact, Begin, Became, search
<1>3. call[k].op = "idle"
  BY <1>2, NewCalls
<1>4. call'[k] = c /\ \A x \in Calls : x # k => call'[x] = call[x]
  BY <1>2, BecameFacts DEF DialogInv
<1>5. DialogTypes'
  <2>1. unsure' \in BOOLEAN
    BY <1>2 DEF DialogInv, DialogTypes
  <2> QED
    BY <1>2, <2>1, TypesKept DEF DialogInv, DialogTypes
<1>6. OneCreation'
  BY <1>1, <1>2, <1>3, NoCreation DEF DialogInv
<1>7. Listed'
  <2> SUFFICES ASSUME compose # "none", ~ unsure' PROVE Listed'
    BY <1>2 DEF Listed
  <2>1. ~ unsure /\ Awaited("contacts") = {}
    BY <1>2
  <2>2. Balanced /\ \A x \in Awaited("add") : call[x].alive
    BY <2>1 DEF DialogInv, Listed
  <2>3. Awaited("contacts")' = {}
    BY <1>1, <1>2, <2>1, Flights DEF DialogInv
  <2>4. Awaited("add")' = Awaited("add") \cup {k}
    BY <1>1, <1>2, Flights DEF DialogInv
  <2>5. Adding' = Adding /\ \A x \in Adding : call'[x] = call[x]
    BY <1>1, <1>3, <1>4, <2>4 DEF Adding, Awaited
  <2>6. Balanced'
    BY <1>2, <2>2, <2>5, SameBalance
  <2>7. \A x \in Awaited("add")' : call'[x].alive
    BY <1>1, <1>4, <2>2, <2>4 DEF Awaited
  <2> QED
    BY <2>3, <2>6, <2>7 DEF Listed
<1> QED
  BY <1>5, <1>6, <1>7 DEF DialogInv

\* The server reads the contacts: until they arrive no contact is added.
LEMMA ServeContactsKeeps ==
    ASSUME DialogInv, NEW k \in Calls, ServeContacts(k)
    PROVE  DialogInv'
<1>1. call[k] \in Ask /\ call[k].op = "contacts" /\ friends \in SUBSET Users
  BY AskInFlight DEF ServeContacts, DialogInv, DialogTypes, Asks
<1>2. PICK c \in DialogCall :
          /\ c = [call[k] EXCEPT !.step = "answered", !.users = friends]
          /\ c.op = "contacts" /\ c.alive = call[k].alive /\ c.users = friends
          /\ c.step = "answered"
  <2> DEFINE r == [call[k] EXCEPT !.step = "answered", !.users = friends]
  <2>1. r \in DialogCall
    BY <1>1, ListFields DEF DialogCall
  <2>2. r.op = "contacts" /\ r.alive = call[k].alive /\ r.users = friends /\ r.step = "answered"
    BY <1>1, ListFields
  <2> QED
    BY <2>1, <2>2
<1>3. /\ Became(k, c)
      /\ UNCHANGED <<compose, needle, contacts, friends, busy, made, unsure>>
  BY <1>2 DEF ServeContacts, search, dialog
<1>4. call'[k] = c /\ \A x \in Calls : x # k => call'[x] = call[x]
  BY <1>3, BecameFacts DEF DialogInv
<1>5. DialogTypes'
  BY <1>3, TypesKept DEF DialogInv, DialogTypes
<1>6. OneCreation'
  BY <1>1, <1>2, <1>3, NoCreation DEF DialogInv
<1>7. Listed'
  <2> SUFFICES ASSUME compose # "none", ~ unsure PROVE Listed'
    BY <1>3 DEF Listed
  <2>1. /\ Awaited("contacts")' = Awaited("contacts")
        /\ Awaited("add")' = Awaited("add")
        /\ k \in Awaited("contacts") /\ k \notin Awaited("add")
    BY <1>1, <1>2, <1>3, Flights DEF DialogInv
  <2>2. Adding' = Adding /\ \A x \in Adding : call'[x] = call[x]
    BY <1>4, <2>1 DEF Adding, Awaited
  <2>3. \A x \in Awaited("contacts") : call'[x].alive = call[x].alive
    BY <1>2, <1>4 DEF Awaited
  <2>4. (\A x \in Awaited("contacts")' : ~ call'[x].alive) => Balanced'
    BY <1>3, <2>1, <2>2, <2>3, SameBalance DEF DialogInv, Listed
  <2>5. \A x \in Awaited("contacts")' :
            call'[x].alive /\ call'[x].step = "answered" => call'[x].users = friends'
    <3>1. call'[k].users = friends'
      BY <1>2, <1>3, <1>4
    <3>2. \A x \in Awaited("contacts") : x # k => call'[x] = call[x]
      BY <1>4 DEF Awaited
    <3>3. \A x \in Awaited("contacts") :
              call[x].alive /\ call[x].step = "answered" => call[x].users = friends
      BY DEF DialogInv, Listed
    <3> QED
      BY <1>3, <2>1, <3>1, <3>2, <3>3
  <2>6. \A x \in Awaited("add")' : call'[x].alive
    BY <1>4, <2>1 DEF DialogInv, Listed, Awaited
  <2> QED
    BY <2>1, <2>4, <2>5, <2>6 DEF DialogInv, Listed
<1> QED
  BY <1>5, <1>6, <1>7 DEF DialogInv

\* The list arrives: it is what the server has, and nothing is about to come.
LEMMA GotContactsKeeps ==
    ASSUME DialogInv, NEW k \in Calls, GotContacts(k)
    PROVE  DialogInv'
<1>1. /\ call[k].op = "contacts" /\ call[k].step = "answered" /\ call[k].alive \in BOOLEAN
      /\ Idle \in DialogCall /\ Idle.op = "idle"
  BY AskInFlight, NewCalls DEF GotContacts, DialogInv, Asks
<1>2. /\ Became(k, Idle)
      /\ contacts' = IF call[k].alive THEN [u \in Users |-> IF u \in call[k].users THEN 1 ELSE 0]
                     ELSE contacts
      /\ UNCHANGED <<compose, needle, friends, busy, made, unsure>>
  BY DEF GotContacts, search
<1>3. call'[k] = Idle /\ \A x \in Calls : x # k => call'[x] = call[x]
  BY <1>1, <1>2, BecameFacts DEF DialogInv
<1>4. DialogTypes'
  <2>1. contacts' \in [Users -> Nat]
    BY <1>2 DEF DialogInv, DialogTypes
  <2> QED
    BY <1>1, <1>2, <2>1, TypesKept DEF DialogInv, DialogTypes
<1>5. OneCreation'
  BY <1>1, <1>2, NoCreation DEF DialogInv
<1>6. Listed'
  <2> SUFFICES ASSUME compose # "none", ~ unsure PROVE Listed'
    BY <1>2 DEF Listed
  <2>1. /\ Awaited("contacts")' = Awaited("contacts") \ {k}
        /\ Awaited("add")' = Awaited("add") \ {k}
        /\ k \in Awaited("contacts") /\ k \notin Awaited("add")
    BY <1>1, <1>2, Flights DEF DialogInv
  <2>2. Adding' = Adding /\ \A x \in Adding : call'[x] = call[x]
    BY <1>3, <2>1 DEF Adding, Awaited
  <2>3. Awaited("add")' = {}
    BY <2>1 DEF DialogInv, Listed
  <2>4. \A x \in Awaited("contacts")' : call'[x] = call[x] /\ x \in Awaited("contacts")
    BY <1>3, <2>1 DEF Awaited
  <2>5. CASE call[k].alive
    <3>1. call[k].users = friends
      BY <1>1, <2>1, <2>5 DEF DialogInv, Listed
    <3>2. \A u \in Users : contacts'[u] = IF u \in friends' THEN 1 ELSE 0
      BY <1>2, <2>5, <3>1
    <3>3. Adding' = {}
      BY <2>3 DEF Adding
    <3>4. Balanced'
      BY <3>2, <3>3 DEF Balanced
    <3> QED
      BY <1>2, <2>3, <2>4, <3>4 DEF DialogInv, Listed
  <2>6. CASE ~ call[k].alive
    <3>1. contacts' = contacts
      BY <1>2, <2>6
    <3>2. (\A x \in Awaited("contacts")' : ~ call'[x].alive)
            => \A x \in Awaited("contacts") : ~ call[x].alive
      BY <2>1, <2>4, <2>6
    <3>3. (\A x \in Awaited("contacts")' : ~ call'[x].alive) => Balanced'
      BY <1>2, <2>2, <3>1, <3>2, SameBalance DEF DialogInv, Listed
    <3> QED
      BY <1>2, <2>3, <2>4, <3>3 DEF DialogInv, Listed
  <2> QED
    BY <1>1, <2>5, <2>6
<1> QED
  BY <1>4, <1>5, <1>6 DEF DialogInv

\* A contact is added: it is new, and about to come into the dialog.
LEMMA ServeAddKeeps ==
    ASSUME DialogInv, NEW k \in Calls, ServeAdd(k)
    PROVE  DialogInv'
<1>1. /\ call[k] \in Ask /\ call[k].op = "add" /\ call[k].step = "asked"
      /\ call[k].users \in SUBSET Users
  BY AskInFlight DEF ServeAdd, DialogInv, Asks
<1>2. PICK c \in DialogCall :
          /\ c = [call[k] EXCEPT !.step = "answered"]
          /\ c.op = "add" /\ c.alive = call[k].alive /\ c.users = call[k].users
          /\ c.step = "answered"
  BY <1>1, AskInFlight, AskFields DEF DialogInv, Asks
<1>3. /\ Became(k, c) /\ call[k].users \cap friends = {}
      /\ friends' = friends \cup call[k].users
      /\ UNCHANGED <<compose, needle, contacts, busy, made, unsure>>
  BY <1>2 DEF ServeAdd, search, dialog
<1>4. call'[k] = c /\ \A x \in Calls : x # k => call'[x] = call[x]
  BY <1>3, BecameFacts DEF DialogInv
<1>5. DialogTypes'
  <2>1. friends' \subseteq Users
    BY <1>1, <1>3 DEF DialogInv, DialogTypes
  <2> QED
    BY <1>3, <2>1, TypesKept DEF DialogInv, DialogTypes
<1>6. OneCreation'
  BY <1>1, <1>2, <1>3, NoCreation DEF DialogInv
<1>7. Listed'
  <2> SUFFICES ASSUME compose # "none", ~ unsure PROVE Listed'
    BY <1>3 DEF Listed
  <2>1. /\ Awaited("contacts")' = Awaited("contacts") \ {k}
        /\ Awaited("add")' = Awaited("add")
        /\ k \in Awaited("add")
    BY <1>1, <1>2, <1>3, Flights DEF DialogInv
  <2>2. Awaited("contacts") = {} /\ Balanced /\ \A x \in Awaited("add") : call[x].alive
    BY <2>1 DEF DialogInv, Listed
  <2>3. k \notin Adding /\ Adding' = Adding \cup {k}
    <3>1. \A x \in Awaited("add") : x \in Calls
      BY DEF Awaited
    <3>2. call[k].step # "answered" /\ call'[k].step = "answered"
      BY <1>1, <1>2, <1>4
    <3> QED
      BY <1>4, <2>1, <3>1, <3>2 DEF Adding
  <2>4. \A x \in Adding : x # k /\ x \in Calls /\ call'[x] = call[x]
    BY <1>4, <2>3 DEF Adding, Awaited
  <2>5. call'[k].users = call[k].users
    BY <1>2, <1>4
  <2>6. Balanced'
    <3>1. ASSUME NEW u \in Users
          PROVE  contacts'[u] = IF u \in friends' /\ \A x \in Adding' : u \notin call'[x].users
                                THEN 1 ELSE 0
      <4>1. CASE u \in call[k].users
        BY <1>3, <2>2, <2>3, <2>5, <4>1 DEF Balanced
      <4>2. CASE u \notin call[k].users
        BY <1>3, <2>2, <2>3, <2>4, <2>5, <4>2 DEF Balanced
      <4> QED
        BY <4>1, <4>2
    <3>2. \A x \in Adding' : call'[x].users \subseteq friends'
      BY <1>3, <2>2, <2>3, <2>4, <2>5 DEF Balanced
    <3>3. \A x \in Adding : call'[x].users \cap call'[k].users = {}
      BY <1>3, <2>2, <2>4, <2>5 DEF Balanced
    <3>4. \A x, y \in Adding' : call'[x].users \cap call'[y].users # {} => x = y
      BY <2>2, <2>3, <2>4, <3>3 DEF Balanced
    <3> QED
      BY <3>1, <3>2, <3>4 DEF Balanced
  <2>7. \A x \in Awaited("add")' : call'[x].alive
    BY <1>2, <1>4, <2>1, <2>2 DEF Awaited
  <2> QED
    BY <2>1, <2>2, <2>6, <2>7 DEF Listed
<1> QED
  BY <1>5, <1>6, <1>7 DEF DialogInv

\* The contact comes into the dialog that added it.
LEMMA AddedKeeps ==
    ASSUME DialogInv, NEW k \in Calls, Added(k)
    PROVE  DialogInv'
<1>1. /\ call[k].op = "add" /\ call[k].step = "answered" /\ call[k].alive \in BOOLEAN
      /\ Idle \in DialogCall /\ Idle.op = "idle"
  BY AskInFlight, NewCalls DEF Added, DialogInv, Asks
<1>2. /\ Became(k, Idle)
      /\ contacts' = [u \in Users |-> IF call[k].alive /\ u \in call[k].users THEN contacts[u] + 1
                                      ELSE contacts[u]]
      /\ UNCHANGED <<compose, needle, friends, busy, made, unsure>>
  BY DEF Added, search
<1>3. call'[k] = Idle /\ \A x \in Calls : x # k => call'[x] = call[x]
  BY <1>1, <1>2, BecameFacts DEF DialogInv
<1>4. DialogTypes'
  <2>1. contacts' \in [Users -> Nat]
    BY <1>2 DEF DialogInv, DialogTypes
  <2> QED
    BY <1>1, <1>2, <2>1, TypesKept DEF DialogInv, DialogTypes
<1>5. OneCreation'
  BY <1>1, <1>2, NoCreation DEF DialogInv
<1>6. Listed'
  <2> SUFFICES ASSUME compose # "none", ~ unsure PROVE Listed'
    BY <1>2 DEF Listed
  <2>1. /\ Awaited("contacts")' = Awaited("contacts") \ {k}
        /\ Awaited("add")' = Awaited("add") \ {k}
        /\ k \in Awaited("add")
    BY <1>1, <1>2, Flights DEF DialogInv
  <2>2. Awaited("contacts") = {} /\ Balanced /\ \A x \in Awaited("add") : call[x].alive
    BY <2>1 DEF DialogInv, Listed
  <2>3. k \in Adding /\ Adding' = Adding \ {k}
    BY <1>1, <1>3, <2>1 DEF Adding, Awaited
  <2>4. \A x \in Adding' : x \in Adding /\ x # k /\ call'[x] = call[x]
    BY <1>3, <2>3 DEF Adding, Awaited
  <2>5. \A x \in Adding' : call[x].users \cap call[k].users = {}
    BY <2>2, <2>3, <2>4 DEF Balanced
  <2>6. Balanced'
    <3>1. ASSUME NEW u \in Users
          PROVE  contacts'[u] = IF u \in friends' /\ \A x \in Adding' : u \notin call'[x].users
                                THEN 1 ELSE 0
      <4>1. CASE u \in call[k].users
        <5>1. contacts[u] = 0 /\ u \in friends
          BY <2>2, <2>3, <4>1 DEF Balanced
        <5>2. contacts'[u] = 1
          BY <1>2, <2>1, <2>2, <4>1, <5>1
        <5>3. \A x \in Adding' : u \notin call'[x].users
          BY <2>4, <2>5, <4>1
        <5> QED
          BY <1>2, <5>1, <5>2, <5>3
      <4>2. CASE u \notin call[k].users
        <5>1. contacts'[u] = contacts[u]
          BY <1>2, <4>2
        <5>2. (\A x \in Adding' : u \notin call'[x].users)
                <=> \A x \in Adding : u \notin call[x].users
          BY <2>3, <2>4, <4>2
        <5> QED
          BY <1>2, <2>2, <5>1, <5>2 DEF Balanced
      <4> QED
        BY <4>1, <4>2
    <3>2. \A x \in Adding' : call'[x].users \subseteq friends'
      BY <1>2, <2>2, <2>4 DEF Balanced
    <3>3. \A x, y \in Adding' : call'[x].users \cap call'[y].users # {} => x = y
      BY <2>2, <2>4 DEF Balanced
    <3> QED
      BY <3>1, <3>2, <3>3 DEF Balanced
  <2>7. \A x \in Awaited("add")' : call'[x].alive
    BY <1>3, <2>1, <2>2 DEF Awaited
  <2> QED
    BY <2>1, <2>2, <2>6, <2>7 DEF Listed
<1> QED
  BY <1>4, <1>5, <1>6 DEF DialogInv

\* A call about the contacts fails: if something was done, the dialog has missed it.
LEMMA ContactCallFailsKeeps ==
    ASSUME DialogInv, NEW k \in Calls, ContactCallFails(k)
    PROVE  DialogInv'
<1>1. /\ call[k].op \in {"contacts", "add"} /\ call[k].step \in {"asked", "answered"}
      /\ Idle \in DialogCall /\ Idle.op = "idle"
  BY AskInFlight, NewCalls DEF ContactCallFails, DialogInv, Asks
<1>2. /\ Became(k, Idle)
      /\ UNCHANGED <<compose, needle, contacts, friends, busy, made>>
      /\ unsure' = (unsure \/ call[k].op = "contacts" \/ call[k].step = "answered")
  BY DEF ContactCallFails, search
<1>3. call'[k] = Idle /\ \A x \in Calls : x # k => call'[x] = call[x]
  BY <1>1, <1>2, BecameFacts DEF DialogInv
<1>4. DialogTypes'
  <2>1. unsure' \in BOOLEAN
    BY <1>2 DEF DialogInv, DialogTypes
  <2> QED
    BY <1>1, <1>2, <2>1, TypesKept DEF DialogInv, DialogTypes
<1>5. OneCreation'
  <2>1. unsure => unsure'
    BY <1>2
  <2> QED
    BY <1>1, <1>2, <2>1, NoCreation DEF DialogInv
<1>6. Listed'
  <2> SUFFICES ASSUME compose # "none", ~ unsure' PROVE Listed'
    BY <1>2 DEF Listed
  <2>1. ~ unsure /\ call[k].op = "add" /\ call[k].step = "asked"
    BY <1>1, <1>2
  <2>2. /\ Awaited("contacts")' = Awaited("contacts") \ {k}
        /\ Awaited("add")' = Awaited("add") \ {k}
        /\ k \in Awaited("add")
    BY <1>1, <1>2, <2>1, Flights DEF DialogInv
  <2>3. Awaited("contacts") = {} /\ Balanced /\ \A x \in Awaited("add") : call[x].alive
    BY <2>1, <2>2 DEF DialogInv, Listed
  <2>4. Adding' = Adding /\ \A x \in Adding : call'[x] = call[x]
    BY <1>3, <2>1, <2>2 DEF Adding, Awaited
  <2>5. Balanced'
    BY <1>2, <2>3, <2>4, SameBalance
  <2>6. \A x \in Awaited("add")' : call'[x].alive
    BY <1>3, <2>2, <2>3 DEF Awaited
  <2> QED
    BY <2>2, <2>3, <2>5, <2>6 DEF Listed
<1> QED
  BY <1>4, <1>5, <1>6 DEF DialogInv

\* No step breaks the invariant.
LEMMA DialogsKeep ==
    ASSUME DialogInv, [DialogsNext]_dialogsVars
    PROVE  DialogInv'
<1>1. ASSUME NEW k \in Calls, InList(k)
      PROVE  DialogInv'
  <2>1. ASSUME Navigate PROVE DialogInv'
    BY <2>1, OnChangeKeeps DEF Navigate, Boxes
  <2>2. ASSUME NEW t \in Terms \cup {NoTerm}, OnChange("chats", t) PROVE DialogInv'
    BY <2>2, OnChangeKeeps DEF Boxes
  <2> QED
    BY <1>1, <2>1, <2>2, ShowKeeps DEF InList
<1>2. ASSUME NEW k \in Calls, InNewChat(k)
      PROVE  DialogInv'
  <2>1. ASSUME NEW t \in Terms \cup {NoTerm}, OnChange("people", t) PROVE DialogInv'
    BY <2>1, OnChangeKeeps DEF Boxes
  <2> QED
    BY <1>2, <2>1, ShowKeeps, AddContactKeeps, OpenChatKeeps DEF InNewChat
<1>3. ASSUME NEW k \in Calls, Respond(k)
      PROVE  DialogInv'
  <2>1. ASSUME Begun(k) PROVE DialogInv'
    BY <2>1, ClosedKeeps DEF Begun
  <2> QED
    BY <1>3, <2>1, SearchKeeps, ServeContactsKeeps, GotContactsKeeps, ServeAddKeeps, AddedKeeps,
       ContactCallFailsKeeps, ServeBeginKeeps, BeginFailsKeeps
    DEF Respond
<1>4. ASSUME Close PROVE DialogInv'
  BY <1>4, ClosedKeeps DEF Close
<1>5. ASSUME UNCHANGED dialogsVars PROVE DialogInv'
  <2>1. UNCHANGED <<compose, needle, contacts, friends, made, busy, unsure, call>>
    BY <1>5 DEF dialogsVars, search, dialog
  <2> QED
    BY <2>1 DEF DialogInv, DialogTypes, OneCreation, Creates, Listed, Balanced, Adding, Awaited
<1> QED
  BY <1>1, <1>2, <1>3, <1>4, <1>5, CreateKeeps, SearchKeeps DEF DialogsNext, User

\* Nothing has begun.
LEMMA DialogsBegin ==
    ASSUME DialogsInit PROVE DialogInv
<1>1. \A k \in Calls : call[k] = Idle /\ Idle \in DialogCall /\ Idle.op = "idle"
  BY NewCalls DEF DialogsInit
<1>2. DialogTypes
  <2>1. needle \in [Boxes -> Terms \cup {NoTerm}] /\ contacts \in [Users -> Nat]
    BY DEF DialogsInit
  <2>2. friends \subseteq Users /\ made \in 0..2
    BY DEF DialogsInit
  <2>3. busy \in BOOLEAN /\ unsure \in BOOLEAN
    BY DEF DialogsInit
  <2>4. call \in [Calls -> DialogCall]
    BY <1>1 DEF DialogsInit
  <2> QED
    BY <2>1, <2>2, <2>3, <2>4 DEF DialogTypes
<1>3. OneCreation
  <2>1. Creates = {} /\ made = 0
    BY <1>1 DEF Creates, Awaited, DialogsInit
  <2> QED
    BY <2>1 DEF OneCreation
<1>4. Listed
  BY DEF Listed, DialogsInit
<1> QED
  BY <1>2, <1>3, <1>4 DEF DialogInv

\* In every state of the dialogs: the creations and the contacts that are on
\* their way account for what the dialog shows.
THEOREM DialogsInvariant == DialogsSpec => []DialogInv
  BY DialogsBegin, DialogsKeep, PTL DEF DialogsSpec

\* A dialog creates one group, however often its button is clicked and whatever
\* is closed meanwhile, unless the answer to a creation was lost
\* (createGroup in NewGroupModal.tsx).
THEOREM CreatesOneGroup == DialogsSpec => []OneGroup
<1>1. DialogInv => OneGroup
  BY DEF DialogInv, OneCreation, OneGroup
<1> QED
  BY <1>1, DialogsInvariant, PTL

\* With no call about them in flight, the dialog shows the user's contacts, each
\* once, unless a call failed or overlapped another (addContact and the effect
\* that loads the contacts in NewChatModal.tsx).
THEOREM ShowsTheContacts == DialogsSpec => []ContactsRight
<1>1. ASSUME DialogInv PROVE ContactsRight
  <2> SUFFICES ASSUME compose # "none", ~ unsure,
                      Awaited("contacts") = {}, Awaited("add") = {}
               PROVE  \A u \in Users : contacts[u] = IF u \in friends THEN 1 ELSE 0
    BY DEF ContactsRight
  <2>1. Balanced
    BY <1>1 DEF DialogInv, Listed
  <2>2. Adding = {}
    BY DEF Adding
  <2> QED
    BY <2>1, <2>2 DEF Balanced
<1> QED
  BY <1>1, DialogsInvariant, PTL

-------------------------------------------------------------------------------
(* Results *)

\* An answer that is kept is what the server finds for its term, or nobody.
Honest ==
    /\ DOMAIN result = Boxes
    /\ \A b \in Boxes : result[b].users = {} \/ result[b].users = Found[result[b].term]

\* Only an answer, and a dialog that is taken away, change what is kept.
LEMMA HonestKeeps ==
    ASSUME Honest, [DialogsNext]_dialogsVars
    PROVE  Honest'
<1>1. CASE UNCHANGED result
  BY <1>1 DEF Honest
<1>2. CASE Clear
  BY <1>2 DEF Honest, Clear, Nothing
<1>3. ASSUME NEW k \in Calls, Searched(k)
      PROVE  Honest'
  <2> DEFINE b == call[k].box
  <2> DEFINE t == call[k].term
  <2>1. PICK users \in {Found[t], {}} :
            result' = result \/ result' = [result EXCEPT ![b] = [term |-> t, users |-> users]]
    BY <1>3 DEF Searched
  <2>2. CASE result' = [result EXCEPT ![b] = [term |-> t, users |-> users]]
    BY <2>2 DEF Honest
  <2> QED
    BY <1>1, <2>1, <2>2
<1>4. Clear \/ (\E k \in Calls : Searched(k)) \/ UNCHANGED result
  <2>1. ASSUME NEW k \in Calls, InList(k) PROVE Clear \/ UNCHANGED result
    BY <2>1 DEF InList, Show, Navigate, OnChange
  <2>2. ASSUME NEW k \in Calls, InNewChat(k) PROVE Clear \/ UNCHANGED result
    BY <2>2 DEF InNewChat, Show, OnChange, AddContact, OpenChat, search
  <2>3. ASSUME NEW k \in Calls, Respond(k)
        PROVE  Clear \/ Searched(k) \/ UNCHANGED result
    BY <2>3
    DEF Respond, ServeContacts, GotContacts, ServeAdd, Added, ContactCallFails,
        ServeBegin, Begun, BeginFails, Closed, search
  <2>4. ASSUME Close \/ UNCHANGED dialogsVars PROVE Clear \/ UNCHANGED result
    BY <2>4 DEF Close, Closed, dialogsVars, search
  <2>5. ASSUME NEW k \in Calls, Create(k) \/ \E b \in Boxes : Search(k, b)
        PROVE  UNCHANGED result
    BY <2>5 DEF Create, Search, search
  <2> QED
    BY <2>1, <2>2, <2>3, <2>4, <2>5 DEF DialogsNext, User
<1> QED
  BY <1>1, <1>2, <1>3, <1>4

\* The results shown are those of what is typed now, in whichever order the
\* answers come (showing in NewChatModal.tsx and SearchResults.tsx).
THEOREM ShowsWhatIsTyped == DialogsSpec => []ResultsMatch
<1>1. DialogsInit => Honest
  BY DEF DialogsInit, Nothing, Honest
<1>2. Honest => ResultsMatch
  BY DEF Honest, ResultsMatch, Shown
<1> QED
  BY <1>1, <1>2, HonestKeeps, PTL DEF DialogsSpec
===============================================================================
