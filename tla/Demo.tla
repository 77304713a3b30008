-------------------------------- MODULE Demo --------------------------------
(***************************************************************************)
(* The demo page: alice and bob write to each other and alice asks the     *)
(* agent, in three panels of one browser tab (app/demo/page.tsx), over the *)
(* routes e2ee/send, e2ee/pull and chat.                                   *)
(*                                                                         *)
(* A message is shown when the response to its sending arrives, and, if it *)
(* is for bob, again when one of his polls brings it.  Polls are started by*)
(* an interval and overlap; each takes bob's mailbox over at the relay (see*)
(* Chat).  A fetch may fail before, while or after the server does its     *)
(* work.  An action is what the page, or the server for one request, does  *)
(* between two awaits.                                                     *)
(***************************************************************************)
EXTENDS Naturals, FiniteSets, Sequences

CONSTANTS
  Texts,      \* what is typed; each text is typed once
  NoText,     \* an empty input
  Polls,      \* polls that can be in progress at the same time
  NoPoll,     \* nobody reads bob's mailbox
  MaxClock,   \* bound on Date.now()
  MaxErrors   \* bound on what fails: fetches, decryptions

Users  == {"alice", "bob"}
Panels == Users \cup {"sysmaint"}

ASSUME DemoAssumption ==
  /\ NoText \notin Texts /\ NoPoll \notin Polls
  /\ MaxClock \in Nat /\ MaxErrors \in Nat

VARIABLES
  draft,     \* draft[x]: the input of the panel x
  sending,   \* sending[x]: the text of its request; it is busy unless NoText
  message,   \* message[u]: the message that the server makes of it
  step,      \* step[u]: how far the server is with it
  made,      \* the number of messages made
  clock,     \* Date.now() of the server
  mailbox,   \* messages for bob that the relay has and no poll has read
  reader,    \* the poll whose socket the relay serves
  polling,   \* the polls in progress
  got,       \* got[k]: the messages the poll k has decrypted, in order
  thread,    \* directMessages, oldest first
  autos,     \* messages for which an automatic status was asked
  log,       \* sysmaintMessages
  typed,     \* history: the texts that were typed
  failures,  \* history: failures[t]: how many sendings of the text t failed
  dropped,   \* history: texts that the user, or a restored text, has replaced
  errors     \* how much of the bound is used

formVars   == <<draft, sending, typed, dropped>>
serverVars == <<message, step, made>>
pollVars   == <<mailbox, reader, polling, got>>
statusVars == <<autos, log>>
demoVars == <<draft, sending, message, step, made, clock, mailbox, reader, polling, got,
             thread, autos, log, typed, failures, dropped, errors>>

Message   == [id : Nat, from : Users, text : Texts, at : 0..MaxClock]
NoMessage == [id |-> 0, from |-> "alice", text |-> NoText, at |-> 0]

DemoTypeOK ==
  /\ draft \in [Panels -> Texts \cup {NoText}]
  /\ sending \in [Panels -> Texts \cup {NoText}]
  /\ message \in [Users -> Message \cup {NoMessage}]
  /\ step \in [Users -> {"idle", "requested", "made", "accepted"}]
  /\ made \in Nat /\ clock \in 0..MaxClock
  /\ mailbox \subseteq Message
  /\ reader \in Polls \cup {NoPoll}
  /\ polling \subseteq Polls
  /\ got \in [Polls -> Seq(Message)]
  /\ thread \in Seq(Message)
  /\ autos \subseteq Message
  /\ log \subseteq (Texts \cup Message) \X {"user", "bot", "error", "auto"}
  /\ typed \subseteq Texts /\ dropped \subseteq Texts
  /\ failures \in [Texts -> 0..MaxErrors]
  /\ errors \in 0..MaxErrors

DemoInit ==
  /\ draft = [x \in Panels |-> NoText]
  /\ sending = [x \in Panels |-> NoText]
  /\ message = [u \in Users |-> NoMessage]
  /\ step = [u \in Users |-> "idle"]
  /\ made = 0
  /\ clock = 0
  /\ mailbox = {}
  /\ reader = NoPoll
  /\ polling = {}
  /\ got = [k \in Polls |-> <<>>]
  /\ thread = <<>>
  /\ autos = {}
  /\ log = {}
  /\ typed = {}
  /\ failures = [t \in Texts |-> 0]
  /\ dropped = {}
  /\ errors = 0

-----------------------------------------------------------------------------
(* The thread.                                                             *)

\* The messages ms[i], i \in K, by their times; Array.sort is stable.
ByTime(ms, K) ==
  LET Before(i, j) == ms[i].at < ms[j].at \/ (ms[i].at = ms[j].at /\ i < j)
  IN [n \in 1..Cardinality(K) |->
        ms[CHOOSE i \in K : Cardinality({j \in K : Before(j, i)}) = n - 1]]

\* A Map keeps a key where it was first set.
FirstOfEachId(ms) == {i \in DOMAIN ms : \A j \in DOMAIN ms : ms[j].id = ms[i].id => i <= j}

\* Mutant of MergeDirectMessages: the map is filled in the other order.
MergeIncomingFirst(existing, incoming) ==
  LET ms == incoming \o existing IN ByTime(ms, FirstOfEachId(ms))

\* Mutant of MergeDirectMessages: no map.
MergeAll(existing, incoming) ==
  LET ms == existing \o incoming IN ByTime(ms, DOMAIN ms)

MergeDirectMessages(existing, incoming) ==
  LET ms == existing \o incoming IN ByTime(ms, FirstOfEachId(ms))

-----------------------------------------------------------------------------
(* The forms.                                                              *)

Dropping(x) == dropped \cup ({draft[x]} \ {NoText})

\* The user writes into an input, also while its panel is busy.
Type(x, t) ==
  /\ t \notin typed
  /\ typed' = typed \cup {t}
  /\ draft' = [draft EXCEPT ![x] = t]
  /\ dropped' = Dropping(x)
  /\ UNCHANGED <<sending, serverVars, clock, pollVars, thread, statusVars, failures, errors>>

\* onAliceSend, onBobSend and onSysmaintSend up to the fetch.  A prompt is shown
\* at once.
Submit(x) ==
  /\ draft[x] # NoText /\ sending[x] = NoText
  /\ sending' = [sending EXCEPT ![x] = draft[x]]
  /\ draft' = [draft EXCEPT ![x] = NoText]
  /\ IF x \in Users
     THEN step' = [step EXCEPT ![x] = "requested"] /\ UNCHANGED log
     ELSE log' = log \cup {<<draft[x], "user">>} /\ UNCHANGED step
  /\ UNCHANGED <<message, made, clock, pollVars, thread, autos, typed, failures,
                 dropped, errors>>

\* Mutant of NewMessage: the text is read from the input after the await.
NewMessageOfInput(u) == [id |-> made + 1, from |-> u, text |-> draft[u], at |-> clock]

NewMessage(u) == [id |-> made + 1, from |-> u, text |-> sending[u], at |-> clock]

\* sendDirectMessage, both users bootstrapped and the session there: the message
\* is made before it is encrypted.
MakeMessage(u) ==
  /\ step[u] = "requested"
  /\ made' = made + 1
  /\ message' = [message EXCEPT ![u] = NewMessage(u)]
  /\ step' = [step EXCEPT ![u] = "made"]
  /\ UNCHANGED <<formVars, clock, pollVars, thread, statusVars, failures, errors>>

\* The relay has it.  Nobody polls what is for alice.
Posted(u) == IF u = "alice" THEN mailbox \cup {message[u]} ELSE mailbox

Post(u) ==
  /\ step[u] = "made"
  /\ step' = [step EXCEPT ![u] = "accepted"]
  /\ mailbox' = Posted(u)
  /\ UNCHANGED <<formVars, message, made, clock, reader, polling, got, thread,
                 statusVars, failures, errors>>

Finish(u) ==
  /\ sending' = [sending EXCEPT ![u] = NoText]
  /\ message' = [message EXCEPT ![u] = NoMessage]
  /\ step' = [step EXCEPT ![u] = "idle"]

\* sendDirect goes on: the message is shown, and a status is asked for.
Answer(u) ==
  /\ step[u] = "accepted"
  /\ thread' = MergeDirectMessages(thread, <<message[u]>>)
  /\ autos' = autos \cup {message[u]}
  /\ Finish(u)
  /\ UNCHANGED <<draft, made, clock, pollVars, log, typed, failures, dropped, errors>>

\* Mutant of Restored: the input stays as it is.
KeptDraft(u) == draft

\* setAliceInput(text), setBobInput(text): over what was written meanwhile.
Restored(u) == [draft EXCEPT ![u] = sending[u]]

\* The fetch fails, or the response is an error; the server may have come, or
\* may still come, further than the page will ever know.
SendFails(u) ==
  /\ step[u] # "idle" /\ errors < MaxErrors
  /\ errors' = errors + 1
  /\ failures' = [failures EXCEPT ![sending[u]] = @ + 1]
  /\ \/ UNCHANGED <<made, mailbox>>
     \/ step[u] = "made" /\ mailbox' = Posted(u) /\ UNCHANGED made
     \/ /\ step[u] = "requested" /\ u = "alice"
        /\ made' = made + 1
        /\ mailbox' = mailbox \cup {NewMessage(u)}
  /\ draft' = Restored(u)
  /\ dropped' = Dropping(u)
  /\ Finish(u)
  /\ UNCHANGED <<clock, reader, polling, got, thread, statusVars, typed>>

-----------------------------------------------------------------------------
(* The polls of bob's mailbox.                                             *)

\* The interval fires; the new socket supersedes that of an older poll.
StartPoll(k) ==
  /\ k \notin polling
  /\ polling' = polling \cup {k}
  /\ reader' = k
  /\ UNCHANGED <<formVars, serverVars, clock, mailbox, got, thread, statusVars,
                 failures, errors>>

\* A message is read from the current socket and decrypted.
Take(m) ==
  /\ reader # NoPoll /\ m \in mailbox
  /\ mailbox' = mailbox \ {m}
  /\ got' = [got EXCEPT ![reader] = Append(@, m)]
  /\ UNCHANGED <<formVars, serverVars, clock, reader, polling, thread, statusVars,
                 failures, errors>>

\* It is read and cannot be decrypted: it is ignored.
TakeInVain(m) ==
  /\ reader # NoPoll /\ m \in mailbox /\ errors < MaxErrors
  /\ errors' = errors + 1
  /\ mailbox' = mailbox \ {m}
  /\ UNCHANGED <<formVars, serverVars, clock, reader, polling, got, thread, statusVars,
                 failures>>

EndPoll(k) ==
  /\ polling' = polling \ {k}
  /\ reader' = IF reader = k THEN NoPoll ELSE reader
  /\ got' = [got EXCEPT ![k] = <<>>]

\* The response of the poll arrives.
PollAnswered(k) ==
  /\ k \in polling
  /\ thread' = MergeDirectMessages(thread, got[k])
  /\ EndPoll(k)
  /\ UNCHANGED <<formVars, serverVars, clock, mailbox, statusVars, failures, errors>>

\* It fails, silently: what it has read is gone.
PollFails(k) ==
  /\ k \in polling /\ errors < MaxErrors
  /\ errors' = errors + 1
  /\ EndPoll(k)
  /\ UNCHANGED <<formVars, serverVars, clock, mailbox, thread, statusVars, failures>>

-----------------------------------------------------------------------------
(* The agent's panel.                                                      *)

\* The reply to a prompt, or an error: the text is not restored.
PromptAnswered ==
  /\ sending["sysmaint"] # NoText
  /\ log' = log \cup {<<sending["sysmaint"], "bot">>}
  /\ sending' = [sending EXCEPT !["sysmaint"] = NoText]
  /\ UNCHANGED <<draft, serverVars, clock, pollVars, thread, autos, typed, failures,
                 dropped, errors>>

PromptFails ==
  /\ sending["sysmaint"] # NoText /\ errors < MaxErrors
  /\ errors' = errors + 1
  /\ log' = log \cup {<<sending["sysmaint"], "error">>}
  /\ sending' = [sending EXCEPT !["sysmaint"] = NoText]
  /\ UNCHANGED <<draft, serverVars, clock, pollVars, thread, autos, typed, failures, dropped>>

\* The automatic status, or its error.
AutoStatus(m) ==
  /\ m \in autos
  /\ autos' = autos \ {m}
  /\ log' = log \cup {<<m, "auto">>}
  /\ UNCHANGED <<formVars, serverVars, clock, pollVars, thread, failures, errors>>

Tick ==
  /\ clock < MaxClock
  /\ clock' = clock + 1
  /\ UNCHANGED <<formVars, serverVars, pollVars, thread, statusVars, failures, errors>>

DemoNext ==
  \/ \E x \in Panels, t \in Texts : Type(x, t)
  \/ \E x \in Panels : Submit(x)
  \/ \E u \in Users : MakeMessage(u) \/ Post(u) \/ Answer(u) \/ SendFails(u)
  \/ \E k \in Polls : StartPoll(k) \/ PollAnswered(k) \/ PollFails(k)
  \/ \E m \in mailbox : Take(m) \/ TakeInVain(m)
  \/ PromptAnswered \/ PromptFails
  \/ \E m \in autos : AutoStatus(m)
  \/ Tick

DemoSpec == DemoInit /\ [][DemoNext]_demoVars

-----------------------------------------------------------------------------
(* Properties.                                                             *)

\* Two messages that are shown never change places, although a message comes a
\* second time, at any time later, and timestamps may be equal.
OrderIsKept ==
  [][\A i, j \in DOMAIN thread : i < j =>
       \E k, l \in DOMAIN thread' :
         k < l /\ thread'[k] = thread[i] /\ thread'[l] = thread[j]]_demoVars

\* A text is shown once, and once more at most for each of its sendings that
\* failed for the page: a failed sending may have arrived, and its text is put
\* back for another one.
ShownOnceBarFailures ==
  \A t \in Texts :
    Cardinality({i \in DOMAIN thread : thread[i].text = t}) <= 1 + failures[t]

\* What was typed is in an input, or on its way, or shown, unless the user wrote
\* over it or the page put an older text back.
NothingTypedIsLost ==
  \A t \in typed \ dropped :
    \/ \E x \in Panels : t \in {draft[x], sending[x]}
    \/ \E i \in DOMAIN thread : thread[i].text = t
    \/ <<t, "user">> \in log
=============================================================================
