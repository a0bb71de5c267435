------------------------------ MODULE Composer ------------------------------
(***************************************************************************)
(* The composer of packages/client-react, over client-core and the         *)
(* server's sending and upload routes: a draft, its attachments and the    *)
(* open conversation, while sends, uploads, the making of a conversation,  *)
(* sign-ins and sign-outs are under way. A handler keeps what it read when *)
(* it began and goes on after its await, whatever became of the screen.    *)
(*                                                                         *)
(* A generation of client-core ends with a render, whose effect clears the *)
(* screen; the two are one step here. Retries are ClientSend's, and are    *)
(* answered at once; uploads are FileStore's. Every user is a member of    *)
(* every conversation.                                                     *)
(***************************************************************************)
EXTENDS Naturals

CONSTANTS
  Users, Rooms,
  Texts,         \* what users type; a text is typed once
  Files,         \* what users attach; a file is attached once
  MaxSends,      \* bound on the sends, which are numbered: their clientMessageId
  MaxGen,        \* bound on the generations that users start
  Null

Keys == 1..MaxSends
Replies == {Null, "ok", "refused", "unauthorized", "busy", "lost"}

ASSUME ComposerAssumption ==
  /\ MaxSends \in Nat /\ MaxGen \in Nat
  /\ Null \notin Users \cup Rooms \cup Texts \cup Files
       \cup {"ok", "refused", "unauthorized", "busy", "lost"}
       \cup [key : Keys, gen : Nat, by : Users \cup {Null}, room : Rooms, text : Texts,
             files : SUBSET Files, reply : Replies, step : {"asked"}]

VARIABLES
  gen,           \* snapshot.generation
  user,          \* snapshot.user
  cookie,        \* whose session the browser has
  entering,      \* a handleLogin under way: [gen, user, step]
  action,        \* actionBusy: a logout or a conversation being made
  selected,      \* selectedConversationId
  draft, files,  \* the draft and selectedFiles
  send,          \* a handleSend under way; sendBusy
  upload,        \* a handleFile under way; uploadBusy
  waiting,       \* snapshot.pending, without the item `send` is about
  sends,         \* sends so far
  messages,      \* the server's messages, by clientMessageId
  uploads,       \* the server's files: who uploaded them, where, in which message
  typed,         \* history: who typed a text
  spared         \* history: texts whose send the server put off

screen == <<selected, draft, files>>
core == <<gen, user, waiting>>
server == <<messages, uploads>>
history == <<typed, spared>>
vars == <<core, cookie, entering, action, screen, send, upload, sends, server, history>>

-----------------------------------------------------------------------------
\* The effect on a new generation, and the setters of handleLogin and handleLogout.
Cleared == selected' = Null /\ draft' = Null /\ files' = {}

\* login(), logout(): what they do first.
NewGeneration ==
  /\ gen' = gen + 1 /\ user' = Null /\ waiting' = {}
  /\ Cleared

\* handleLogin(): the shell can be used from the answer to /me on, and is cleared
\* when the snapshot has been loaded.
Login(u) ==
  /\ user = Null /\ entering = Null /\ action = Null /\ gen < MaxGen
  /\ NewGeneration
  /\ entering' = [gen |-> gen', user |-> u, step |-> "session"]
  /\ UNCHANGED <<cookie, action, send, upload, sends, server, history>>

ServeLogin ==
  /\ entering # Null /\ entering.step = "session"
  /\ cookie' = entering.user
  /\ entering' = [entering EXCEPT !.step = "me"]
  /\ UNCHANGED <<core, action, screen, send, upload, sends, server, history>>

TakeMe ==
  /\ entering # Null /\ entering.step = "me" /\ entering.gen = gen
  /\ cookie # Null /\ user' = cookie
  /\ entering' = [entering EXCEPT !.step = "load"]
  /\ UNCHANGED <<gen, waiting, cookie, action, screen, send, upload, sends, server, history>>

LoginEnds ==
  /\ entering # Null
  /\ entering.step = "load" \/ entering.gen # gen
  /\ entering' = Null
  /\ Cleared
  /\ UNCHANGED <<core, cookie, action, send, upload, sends, server, history>>

\* A request of login() fails: the snapshot is emptied, and nothing is cleared on
\* the screen, which shows the form again.
LoginFails ==
  /\ entering # Null /\ entering.gen = gen
  /\ entering' = Null
  /\ user' = Null /\ waiting' = {}
  /\ UNCHANGED <<gen, cookie, action, screen, send, upload, sends, server, history>>

\* handleLogout(): at once on the screen, in time on the server, or not at all.
Logout ==
  /\ user # Null /\ action = Null
  /\ NewGeneration
  /\ action' = [op |-> "logout", gen |-> gen', room |-> Null]
  /\ UNCHANGED <<cookie, entering, send, upload, sends, server, history>>

LogoutEnds ==
  /\ action # Null /\ action.op = "logout"
  /\ action' = Null
  /\ cookie' \in {cookie, Null}
  /\ UNCHANGED <<core, entering, screen, send, upload, sends, server, history>>

\* The session ends on the server.
Expire ==
  /\ cookie # Null
  /\ cookie' = Null
  /\ UNCHANGED <<core, entering, action, screen, send, upload, sends, server, history>>
-----------------------------------------------------------------------------
(* The conversation, the draft, the attachments *)

Select(c) ==
  /\ user # Null
  /\ selected' = c
  /\ UNCHANGED <<core, cookie, entering, action, draft, files, send, upload, sends, server,
                 history>>

\* handleCreateConversation(): the new conversation opens when its answer has been
\* read, unless it was of an earlier generation by then.
MakeRoom(c) ==
  /\ user # Null /\ action = Null
  /\ action' = [op |-> "make", gen |-> gen, room |-> c]
  /\ UNCHANGED <<core, cookie, entering, screen, send, upload, sends, server, history>>

OpenRoom ==
  /\ action # Null /\ action.op = "make"
  /\ \/ action.gen = gen /\ selected' = action.room
     \/ UNCHANGED selected
  /\ action' = Null
  /\ UNCHANGED <<core, cookie, entering, draft, files, send, upload, sends, server, history>>

\* The text area, disabled while a send is under way.
Type(t) ==
  /\ user # Null /\ selected # Null /\ send = Null
  /\ typed[t] = Null
  /\ draft' = t
  /\ typed' = [typed EXCEPT ![t] = user]
  /\ UNCHANGED <<core, cookie, entering, action, selected, files, send, upload, sends, server,
                 spared>>

CancelFile(f) ==
  /\ user # Null /\ f \in files
  /\ files' = files \ {f}
  /\ UNCHANGED <<core, cookie, entering, action, selected, draft, send, upload, sends, server,
                 history>>

\* handleFile(), its control disabled while a send or another upload is under way.
Attach(f) ==
  /\ user # Null /\ selected # Null /\ upload = Null /\ send = Null
  /\ uploads[f].by = Null
  /\ upload' = [gen |-> gen, by |-> cookie, room |-> selected, file |-> f, step |-> "asked"]
  /\ UNCHANGED <<core, cookie, entering, action, screen, send, sends, server, history>>

\* prepare(), for the session the request came with.
ServeUpload ==
  /\ upload # Null /\ upload.step = "asked"
  /\ \/ /\ upload.by # Null
        /\ uploads' = [uploads EXCEPT ![upload.file] =
             [by |-> upload.by, room |-> upload.room, in |-> 0]]
        /\ upload' = [upload EXCEPT !.step = "stored"]
     \/ upload' = [upload EXCEPT !.step = "refused"] /\ UNCHANGED uploads
  /\ UNCHANGED <<core, cookie, entering, action, screen, send, sends, messages, history>>

\* Seeded bug: the flag is taken back by the generation that set it only.
FreedIfCurrent(task) == IF task.gen = gen THEN Null ELSE [task EXCEPT !.step = "over"]

\* finally: setSendBusy(false), setUploadBusy(false)
Freed(task) == Null

\* uploadFile() compares generations when the answer begins, and reads its body
\* after that; handleFile() compares nothing.
TakeHead ==
  /\ upload # Null /\ upload.step \in {"stored", "refused"}
  /\ upload' = IF upload.gen # gen \/ upload.step = "refused" THEN Freed(upload)
               ELSE [upload EXCEPT !.step = "body"]
  /\ UNCHANGED <<core, cookie, entering, action, screen, send, sends, server, history>>

TakeBody ==
  /\ upload # Null /\ upload.step = "body"
  /\ files' = files \cup {upload.file}
  /\ upload' = Freed(upload)
  /\ UNCHANGED <<core, cookie, entering, action, selected, draft, send, sends, server, history>>

\* The connection fails under the upload, before or after the server had it.
LoseUpload ==
  /\ upload # Null /\ upload.step # "over"
  /\ upload' = Freed(upload)
  /\ UNCHANGED <<core, cookie, entering, action, screen, send, sends, server, history>>
-----------------------------------------------------------------------------
(* Sending *)

\* handleSend() and the head of sendMessage().
Submit ==
  /\ user # Null /\ selected # Null /\ draft # Null /\ send = Null /\ upload = Null
  /\ sends < MaxSends
  /\ sends' = sends + 1
  /\ send' = [key |-> sends', gen |-> gen, by |-> cookie, room |-> selected,
              text |-> draft, files |-> files, reply |-> Null, step |-> "asked"]
  /\ UNCHANGED <<core, cookie, entering, action, screen, upload, server, history>>

\* Seeded bug: whose file it is goes unchecked.
BindableAnyones(f, m) == uploads[f].room = m.room /\ uploads[f].in = 0

\* bind()
Bindable(f, m) ==
  uploads[f].by = m.by /\ uploads[f].room = m.room /\ uploads[f].in = 0

\* create(): a key is stored once, with its attachments or not at all.
Stores(m) ==
  /\ m.by # Null /\ messages[m.key] = Null
  /\ \A f \in m.files : Bindable(f, m)

Stored(m) ==
  /\ messages' = [messages EXCEPT ![m.key] = [by |-> m.by, room |-> m.room, text |-> m.text,
                                              files |-> m.files]]
  /\ uploads' = [f \in Files |-> IF f \in m.files THEN [uploads[f] EXCEPT !.in = m.key]
                                 ELSE uploads[f]]

\* The server's answer; "busy" is rate_limited or internal.
ServeSend ==
  /\ send # Null /\ send.reply = Null
  /\ \/ /\ Stores(send) /\ Stored(send)
        /\ send' = [send EXCEPT !.reply = "ok"]
        /\ UNCHANGED spared
     \/ /\ ~Stores(send)
        /\ send' = [send EXCEPT !.reply = IF send.by = Null THEN "unauthorized" ELSE "refused"]
        /\ UNCHANGED <<server, spared>>
     \/ /\ send' = [send EXCEPT !.reply = "busy"]
        /\ spared' = spared \cup {send.text}
        /\ UNCHANGED server
  /\ UNCHANGED <<core, cookie, entering, action, screen, upload, sends, typed>>

\* The answer is lost, times out or cannot be read.
LoseSend ==
  /\ send # Null /\ send.step = "asked" /\ send.reply # "lost"
  /\ send' = [send EXCEPT !.reply = "lost"]
  /\ UNCHANGED <<core, cookie, entering, action, screen, upload, sends, server, history>>

Waits == [key |-> send.key, room |-> send.room, text |-> send.text, files |-> send.files]

\* Seeded bug: a send that may have arrived leaves the draft where it is.
EmptiesWhenStored(reply) == reply = "ok"

\* The answers after which handleSend() empties the composer.
Empties(reply) == reply \in {"ok", "lost"}

\* The answer to a send of the present generation: a message that is not stored goes
\* on waiting, in sendMessage(), unless a failed login emptied the snapshot.
TakeSend ==
  /\ send # Null /\ send.reply \notin {Null, "unauthorized"} /\ send.gen = gen
  /\ IF Empties(send.reply) THEN draft' = Null /\ files' = {} ELSE UNCHANGED <<draft, files>>
  /\ waiting' = IF send.reply = "ok" \/ user = Null THEN waiting ELSE waiting \cup {Waits}
  /\ send' = Freed(send)
  /\ UNCHANGED <<gen, user, cookie, entering, action, selected, upload, sends, server, history>>

\* To one of an earlier generation sendMessage() returns null, which handleSend()
\* takes for success.
TakeOldSend ==
  /\ send # Null /\ send.step = "asked" /\ send.reply # Null /\ send.gen # gen
  /\ draft' = Null /\ files' = {}
  /\ send' = Freed(send)
  /\ UNCHANGED <<core, cookie, entering, action, selected, upload, sends, server, history>>

\* sendMessage(): unauthorized ends the generation.
TakeUnauthorized ==
  /\ send # Null /\ send.reply = "unauthorized" /\ send.gen = gen
  /\ NewGeneration
  /\ send' = Freed(send)
  /\ UNCHANGED <<cookie, entering, action, upload, sends, server, history>>

\* retryMessage(), by its timer or by handleRetry(); a failed one stays.
Retry(w) ==
  /\ w \in waiting /\ cookie # Null
  /\ LET m == [by |-> cookie, key |-> w.key, room |-> w.room, text |-> w.text,
                files |-> w.files]
     IN \/ /\ Stores(m) /\ Stored(m)
           /\ waiting' = waiting \ {w}
        \/ /\ messages[w.key] # Null
           /\ waiting' = waiting \ {w}
           /\ UNCHANGED server
  /\ UNCHANGED <<gen, user, cookie, entering, action, screen, send, upload, sends, history>>

RetryUnauthorized ==
  /\ waiting # {} /\ cookie = Null
  /\ NewGeneration
  /\ UNCHANGED <<cookie, entering, action, send, upload, sends, server, history>>
-----------------------------------------------------------------------------
Nobody == [by |-> Null, room |-> Null, in |-> 0]

Init ==
  /\ gen = 0 /\ user = Null /\ cookie = Null /\ entering = Null /\ action = Null
  /\ selected = Null /\ draft = Null /\ files = {}
  /\ send = Null /\ upload = Null /\ waiting = {} /\ sends = 0
  /\ messages = [k \in Keys |-> Null] /\ uploads = [f \in Files |-> Nobody]
  /\ typed = [t \in Texts |-> Null] /\ spared = {}

Entering == ServeLogin \/ TakeMe \/ LoginEnds
Uploading == ServeUpload \/ TakeHead \/ TakeBody
Sending == ServeSend \/ TakeSend \/ TakeOldSend \/ TakeUnauthorized

Next ==
  \/ \E u \in Users : Login(u)
  \/ Entering \/ LoginFails \/ Logout \/ LogoutEnds \/ Expire
  \/ \E c \in Rooms \cup {Null} : Select(c)
  \/ \E c \in Rooms : MakeRoom(c)
  \/ OpenRoom
  \/ \E t \in Texts : Type(t)
  \/ \E f \in Files : Attach(f) \/ CancelFile(f)
  \/ Uploading \/ LoseUpload
  \/ Submit \/ Sending \/ LoseSend
  \/ \E w \in waiting : Retry(w)
  \/ RetryUnauthorized

Spec == Init /\ [][Next]_vars

\* Requests are answered, or fail, and their handlers go on.
FairSpec == Spec /\ WF_vars(Uploading) /\ WF_vars(Sending)
-----------------------------------------------------------------------------
(* Properties *)

\* A message the server stores is its author's: typed on a screen of theirs, with
\* files that they uploaded into its conversation and that no other message has.
\* Drafts and attachments outlive the request that carries them, attachments even
\* arrive after their uploader has left (uploadFile, handleFile), and the server
\* must sort them out (bind).
OwnMessages ==
  \A k \in Keys : messages[k] # Null =>
    LET m == messages[k]
    IN /\ typed[m.text] = m.by
       /\ \A f \in m.files : uploads[f] = [by |-> m.by, room |-> m.room, in |-> k]

\* A text is stored twice only if the server put one of its sends off: after an
\* answer that may have been lost the composer is empty, and the retry has the key
\* of the first attempt (handleSend, sendMessage, retryMessage).
StoredOnce ==
  \A j, k \in Keys :
    messages[j] # Null /\ messages[k] # Null /\ messages[j].text = messages[k].text =>
      j = k \/ messages[j].text \in spared

\* The composer is usable again after every send and upload, whichever generation
\* began it (handleSend, handleFile).
ComposerFrees ==
  (send # Null ~> send = Null) /\ (upload # Null ~> upload = Null)
=============================================================================
