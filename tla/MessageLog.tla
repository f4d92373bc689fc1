------------------------------ MODULE MessageLog ------------------------------
(***************************************************************************)
(* What one conversation promises its members, whatever the service does   *)
(* inside: a log of messages that only grows at its end, in which the pair *)
(* of a sender and a client_message_id occurs once, from which nothing is  *)
(* ever taken out (a deletion leaves a tombstone at its position), where a *)
(* send is answered with success, and an event is pushed to the other      *)
(* members, only for what the log already holds.                           *)
(***************************************************************************)
EXTENDS Naturals, Sequences

CONSTANTS Users,    \* accounts
          Keys      \* client_message_ids

VARIABLES log,        \* a sequence of <<sender, key>>: position = seq
          gone,       \* the positions deleted by their senders
          confirmed,  \* the sends that were answered with success
          told        \* the events pushed: <<"created", seq>>, <<"deleted", seq>>

logVars == <<log, gone, confirmed, told>>

Entry == Users \X Keys

Init ==
    /\ log = << >>
    /\ gone = {}
    /\ confirmed = {}
    /\ told = {}

Write(e) ==
    /\ \A i \in 1..Len(log) : log[i] # e
    /\ log' = Append(log, e)
    /\ UNCHANGED <<gone, confirmed, told>>

Retract(i) ==
    /\ gone' = gone \cup {i}
    /\ UNCHANGED <<log, confirmed, told>>

\* The sender of position i gets its answer; the others may be told with it.
Confirm(i) ==
    /\ confirmed' = confirmed \cup {log[i]}
    /\ told' \in {told, told \cup {<<"created", i>>}}
    /\ UNCHANGED <<log, gone>>

TellGone(i) ==
    /\ i \in gone
    /\ told' = told \cup {<<"deleted", i>>}
    /\ UNCHANGED <<log, gone, confirmed>>

Next ==
    \/ \E e \in Entry : Write(e)
    \/ \E i \in 1..Len(log) : Retract(i) \/ Confirm(i) \/ TellGone(i)

Spec == Init /\ [][Next]_logVars
===============================================================================
