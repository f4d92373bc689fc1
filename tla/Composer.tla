------------------------------- MODULE Composer -------------------------------
(***************************************************************************)
(* The composer of a conversation (Composer.tsx) and the reply its page    *)
(* keeps for it ([id]/page.tsx): what is typed, the files that are         *)
(* attached and uploaded one after the other, and the message that is      *)
(* handed to the store while the user goes on.                             *)
(*                                                                         *)
(* A step is an event handler or what runs between two awaits.  An item is *)
(* a word, a file or a reply, each used once, so that a message is the set *)
(* of its items and one can ask where an item is.                          *)
(*                                                                         *)
(* Abstracted: the order of the items, preview urls, dimensions, typing    *)
(* frames.  The store accepts a message or rejects it, as sendMessage does *)
(* when IndexedDB fails (Outbox.EnqueueFails).                             *)
(*                                                                         *)
(* A definition named Bug... is the next one with a plausible mistake in   *)
(* it; the runs use it only to show that a property can fail.              *)
(***************************************************************************)
EXTENDS Naturals, Sequences

CONSTANTS Words,    \* what is typed
          Files,    \* what is picked
          Replies,  \* messages to reply to
          Loops     \* slots for calls of attachFiles

VARIABLES text,     \* draft: the words in the textarea
          drafts,   \* the files with a row
          ready,    \* those of them with an attachment
          picker,   \* the file dialog is open
          picked,   \* per call of attachFiles: the files to go, the first in work
          stage,    \* per call: what it does with that file
          reply,    \* the reply shown (none or one)
          sending,  \* the submit in flight (none or one): its message and rows
          used,     \* history: items that have been typed, picked or chosen
          removed,  \* history: items the user removed or whose upload failed
          risky,    \* history: items that appeared while a submit was in flight
          accepted  \* history: the messages the store has accepted

loops == <<picker, picked, stage>>
history == <<used, removed, risky, accepted>>
vars == <<text, drafts, ready, loops, reply, sending, history>>

Items == Words \cup Files \cup Replies
RangeOf(s) == {s[i] : i \in 1..Len(s)}

Uploading == drafts # ready
InFlight == UNION {x.message : x \in sending}

\* Files of attachFiles that have no row yet.
ToGo == UNION {IF picked[l] # << >> /\ stage[l] = "upload" THEN RangeOf(Tail(picked[l]))
               ELSE RangeOf(picked[l]) : l \in Loops}

\* What appears while a submit is in flight is at risk.
AtRisk(items) == risky' = IF sending # {} THEN risky \cup items ELSE risky

-------------------------------------------------------------------------------
(* The textarea and the reply *)

Type ==
    /\ \E w \in Words \ used : text' = text \cup {w} /\ used' = used \cup {w} /\ AtRisk({w})
    /\ UNCHANGED <<drafts, ready, loops, reply, sending, removed, accepted>>

Erase ==
    /\ text # {}
    /\ text' = {}
    /\ removed' = removed \cup text
    /\ UNCHANGED <<drafts, ready, loops, reply, sending, used, risky, accepted>>

\* "Reply" in the menu of a message replaces the reply shown.
ChooseReply ==
    /\ \E r \in Replies \ used : reply' = {r} /\ used' = used \cup {r} /\ AtRisk({r})
    /\ removed' = removed \cup reply
    /\ UNCHANGED <<text, drafts, ready, loops, sending, accepted>>

CancelReply ==
    /\ reply # {}
    /\ reply' = {}
    /\ removed' = removed \cup reply
    /\ UNCHANGED <<text, drafts, ready, loops, sending, used, risky, accepted>>

-------------------------------------------------------------------------------
(* Files *)

\* "Add attachment".  The dialog stays while a file is measured and gets its row.
OpenPicker ==
    /\ ~ Uploading
    /\ picker' = TRUE
    /\ UNCHANGED <<text, drafts, ready, picked, stage, reply, sending, history>>

\* attachFiles: one file or two of them, of which the first is measured.
AttachFiles(l) ==
    /\ picker
    /\ picked[l] = << >>
    /\ \E f, g \in Files \ used :
          /\ picked' = [picked EXCEPT ![l] = IF f = g THEN <<f>> ELSE <<f, g>>]
          /\ used' = used \cup {f, g}
    /\ picker' = FALSE
    /\ stage' = [stage EXCEPT ![l] = "measure"]
    /\ UNCHANGED <<text, drafts, ready, reply, sending, removed, risky, accepted>>

\* measureImage resolves: the row appears, and uploadAttachment begins.  A file
\* that is no image is not measured: then nothing happens in between.
Measured(l) ==
    /\ picked[l] # << >>
    /\ stage[l] = "measure"
    /\ drafts' = drafts \cup {Head(picked[l])}
    /\ stage' = [stage EXCEPT ![l] = "upload"]
    /\ AtRisk({Head(picked[l])})
    /\ UNCHANGED <<text, ready, picker, picked, reply, sending, used, removed, accepted>>

\* The loop goes on with the next file.
NextFile(l) ==
    /\ picked' = [picked EXCEPT ![l] = Tail(@)]
    /\ stage' = [stage EXCEPT ![l] = "measure"]

\* The row gets its attachment if it is still there.
Uploaded(l) ==
    /\ picked[l] # << >>
    /\ stage[l] = "upload"
    /\ ready' = ready \cup (drafts \cap {Head(picked[l])})
    /\ NextFile(l)
    /\ UNCHANGED <<text, drafts, picker, reply, sending, history>>

BugUploadFails(l) ==
    /\ picked[l] # << >>
    /\ stage[l] = "upload"
    /\ NextFile(l)
    /\ UNCHANGED <<text, drafts, ready, picker, reply, sending, history>>

\* One of the three calls of uploadAttachment fails.
UploadFails(l) ==
    /\ picked[l] # << >>
    /\ stage[l] = "upload"
    /\ drafts' = drafts \ {Head(picked[l])}
    /\ removed' = removed \cup {Head(picked[l])}
    /\ NextFile(l)
    /\ UNCHANGED <<text, ready, picker, reply, sending, used, risky, accepted>>

\* "Remove attachment", also while it is being uploaded.
Discard ==
    /\ \E f \in drafts : /\ drafts' = drafts \ {f}
                         /\ ready' = ready \ {f}
                         /\ removed' = removed \cup {f}
    /\ UNCHANGED <<text, loops, reply, sending, used, risky, accepted>>

-------------------------------------------------------------------------------
(* Sending *)

BugCanSend == text \cup drafts # {} /\ sending = {}

CanSend == text \cup drafts # {} /\ sending = {} /\ ~ Uploading

BugSubmit ==
    /\ CanSend
    /\ sending' = {[message |-> text \cup ready \cup reply, words |-> text, rows |-> drafts]}
    /\ text' = {}
    /\ UNCHANGED <<drafts, ready, loops, reply, history>>

\* submit: the message takes the rows that have an attachment.
Submit ==
    /\ CanSend
    /\ sending' = {[message |-> text \cup ready \cup reply, words |-> text, rows |-> drafts]}
    /\ text' = {}
    /\ drafts' = {}
    /\ ready' = {}
    /\ UNCHANGED <<loops, reply, history>>

\* The page clears whatever reply is shown.
Sent ==
    /\ \E x \in sending : accepted' = Append(accepted, x.message)
    /\ reply' = {}
    /\ sending' = {}
    /\ UNCHANGED <<text, drafts, ready, loops, used, removed, risky>>

BugSendFails ==
    /\ \E x \in sending : text' = x.words
    /\ sending' = {}
    /\ UNCHANGED <<drafts, ready, loops, reply, history>>

\* catch: what was sent replaces what has come since.
SendFails ==
    /\ \E x \in sending : /\ text' = x.words
                          /\ drafts' = x.rows
                          /\ ready' = x.rows
    /\ sending' = {}
    /\ UNCHANGED <<loops, reply, history>>

\* The user goes to another conversation: the page starts anew, and the calls in
\* flight end unseen.
Leave ==
    /\ text' = {} /\ drafts' = {} /\ ready' = {} /\ reply' = {} /\ sending' = {}
    /\ picker' = FALSE
    /\ picked' = [l \in Loops |-> << >>]
    /\ stage' = [l \in Loops |-> "measure"]
    /\ \E done \in SUBSET sending :
          /\ accepted' = IF done = {} THEN accepted ELSE Append(accepted, InFlight)
          /\ removed' = removed \cup text \cup drafts \cup ToGo \cup reply \cup InFlight
    /\ UNCHANGED <<used, risky>>

-------------------------------------------------------------------------------

Init ==
    /\ text = {} /\ drafts = {} /\ ready = {} /\ reply = {} /\ sending = {}
    /\ picker = FALSE
    /\ picked = [l \in Loops |-> << >>]
    /\ stage = [l \in Loops |-> "measure"]
    /\ used = {} /\ removed = {} /\ risky = {}
    /\ accepted = << >>

Next ==
    \/ Type \/ Erase \/ ChooseReply \/ CancelReply \/ OpenPicker \/ Discard
    \/ \E l \in Loops : AttachFiles(l) \/ Measured(l) \/ Uploaded(l) \/ UploadFails(l)
    \/ Submit \/ Sent \/ SendFails \/ Leave

Spec == Init /\ [][Next]_vars

-------------------------------------------------------------------------------
(* Properties *)

Message == [message : SUBSET Items, words : SUBSET Words, rows : SUBSET Files]

TypeOK ==
    /\ text \subseteq Words /\ drafts \subseteq Files /\ ready \subseteq drafts
    /\ picker \in BOOLEAN
    /\ picked \in [Loops -> Seq(Files)]
    /\ stage \in [Loops -> {"measure", "upload"}]
    /\ reply \subseteq Replies
    /\ sending \subseteq Message
    /\ used \subseteq Items /\ removed \subseteq Items /\ risky \subseteq Items
    /\ accepted \in Seq(SUBSET Items)

\* Nothing typed, picked or chosen is lost unless it appeared while a message
\* was being sent: it is shown, on its way or accepted, or the user removed it.
NothingLost ==
    used \subseteq text \cup drafts \cup ToGo \cup reply \cup InFlight
               \cup (UNION RangeOf(accepted)) \cup removed \cup risky

\* A message carries every file whose row the user saw when he sent it.
EveryRowSent == \A x \in sending : x.rows \subseteq x.message

\* No item is in two accepted messages, however often a send failed and was
\* made again.
HandedOnce ==
    \A i, n \in 1..Len(accepted) : i # n => accepted[i] \cap accepted[n] = {}

\* A row that waits for its attachment is in the hands of an upload: it will
\* not disable the composer for good.
NoStuckRow ==
    drafts \ ready \subseteq {Head(picked[l]) : l \in {n \in Loops : picked[n] # << >>
                                                                   /\ stage[n] = "upload"}}
===============================================================================
