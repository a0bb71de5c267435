-------------------------- MODULE Composer_proofs --------------------------
(***************************************************************************)
(* Theorems about Composer, for any users, conversations, texts and files, *)
(* and any number of generations and sends.                                *)
(***************************************************************************)
EXTENDS Composer, TLAPS

Someone == Users \cup {Null}

Entry == [gen : Nat, user : Users, step : {"session", "me", "load"}]
Message == [by : Users, room : Rooms, text : Texts, files : SUBSET Files]
Item == [key : Keys, room : Rooms, text : Texts, files : SUBSET Files]
Sent == [key : Keys, gen : Nat, by : Someone, room : Rooms, text : Texts,
         files : SUBSET Files, reply : Replies, step : {"asked"}]
Upload == [gen : Nat, by : Someone, room : Rooms, file : Files,
           step : {"asked", "stored", "refused", "body"}]
Stock == [by : Someone, room : Rooms \cup {Null}, in : Nat]

Typed ==
  /\ gen \in Nat /\ user \in Someone /\ cookie \in Someone
  /\ entering # Null => entering \in Entry
  /\ action # Null /\ action.op = "make" => action.room \in Rooms
  /\ selected \in Rooms \cup {Null} /\ draft \in Texts \cup {Null} /\ files \subseteq Files
  /\ send # Null => send \in Sent
  /\ upload # Null => upload \in Upload
  /\ waiting \subseteq Item
  /\ sends \in Nat
  /\ messages \in [Keys -> {Null} \cup Message]
  /\ uploads \in [Files -> Stock]
  /\ typed \in [Texts -> Someone]

\* Between the first two answers of a login nobody is signed in, and nothing of a user
\* before is left that would count as the next one's.
EntryOK ==
  entering # Null /\ entering.step \in {"session", "me"} =>
    /\ entering.gen = gen /\ user = Null /\ draft = Null
    /\ send # Null => send.gen < gen

\* The browser's session is that of the user shown, if there still is one.
CookieOK == user # Null => cookie \in {user, Null}

\* What is on the screen and what waits is the user's own.
DraftOK == user # Null /\ draft # Null => typed[draft] = user

WaitingOK == \A w \in waiting : user # Null /\ typed[w.text] = user

\* A send carries its author's session or none, and belongs to the user as long as its
\* generation lasts.
SendOK ==
  send # Null =>
    /\ send.gen <= gen
    /\ typed[send.text] # Null /\ send.by \in {typed[send.text], Null}
    /\ send.gen = gen /\ user # Null => typed[send.text] = user

\* Before an upload is served the file is nobody's.
UploadOK ==
  upload # Null /\ upload.step = "asked" => uploads[upload.file].by = Null

IInv ==
  Typed /\ EntryOK /\ CookieOK /\ DraftOK /\ WaitingOK /\ SendOK /\ UploadOK /\ OwnMessages

-----------------------------------------------------------------------------
\* A new generation takes everything from the screen; the rest goes on.
LEMMA NewKeeps ==
  ASSUME IInv, NewGeneration,
         ~(entering # Null /\ entering.step \in {"session", "me"})
  PROVE  /\ gen' \in Nat /\ gen' > gen /\ user' = Null
         /\ draft' = Null /\ files' = {} /\ selected' = Null /\ waiting' = {}
         /\ CookieOK' /\ DraftOK' /\ WaitingOK'
BY DEF NewGeneration, Cleared, IInv, Typed, CookieOK, DraftOK, WaitingOK

\* What the server keeps is not touched.
LEMMA ServerFrame ==
  ASSUME OwnMessages, UNCHANGED <<messages, uploads, typed>>
  PROVE  OwnMessages'
BY DEF OwnMessages

LEMMA LoginKeeps ==
  ASSUME IInv, NEW u \in Users, Login(u)
  PROVE  IInv'
<1>1. /\ gen' \in Nat /\ gen' > gen /\ user' = Null /\ draft' = Null /\ files' = {}
      /\ selected' = Null /\ waiting' = {} /\ CookieOK' /\ DraftOK' /\ WaitingOK'
  BY NewKeeps DEF Login
<1>2. /\ entering' = [gen |-> gen', user |-> u, step |-> "session"]
      /\ UNCHANGED <<cookie, action, send, upload, sends, messages, uploads, typed>>
  BY DEF Login, server, history
<1>3. entering' \in Entry /\ entering'.gen = gen'
  BY <1>1, <1>2 DEF Entry
<1>4. Typed'
  BY <1>1, <1>2, <1>3 DEF IInv, Typed, Someone
<1>5. send' # Null => send'.gen < gen' /\ send'.gen <= gen' /\ send'.gen # gen'
  <2> SUFFICES ASSUME send # Null
               PROVE  send.gen < gen' /\ send.gen <= gen' /\ send.gen # gen'
    BY <1>2
  <2>1. send.gen \in Nat /\ send.gen <= gen /\ gen \in Nat
    BY DEF IInv, Typed, Sent, SendOK
  <2> QED
    BY <1>1, <2>1
<1>6. EntryOK'
  BY <1>1, <1>3, <1>5 DEF EntryOK
<1>7. SendOK'
  BY <1>1, <1>2, <1>5 DEF IInv, SendOK
<1>8. UploadOK' /\ OwnMessages'
  BY <1>2, ServerFrame DEF IInv, UploadOK
<1> QED
  BY <1>1, <1>4, <1>6, <1>7, <1>8 DEF IInv

\* What the invariant says of the server's side and of an upload.
LEMMA OthersFrame ==
  ASSUME IInv, UNCHANGED <<upload, messages, uploads, typed>>
  PROVE  UploadOK' /\ OwnMessages'
BY ServerFrame DEF IInv, UploadOK

LEMMA EnteringKeeps ==
  ASSUME IInv, Entering
  PROVE  IInv'
<1>1. CASE ServeLogin
  <2>1. /\ entering # Null /\ entering \in Entry /\ entering.step = "session" /\ user = Null
    BY <1>1 DEF ServeLogin, IInv, Typed, EntryOK
  <2>2. entering' \in Entry /\ entering'.step = "me" /\ entering'.gen = entering.gen
    BY <1>1, <2>1 DEF ServeLogin, Entry
  <2>3. /\ cookie' \in Users
        /\ UNCHANGED <<gen, user, waiting, action, selected, draft, files, send, upload, sends,
                       messages, uploads, typed>>
    BY <1>1, <2>1 DEF ServeLogin, Entry, core, screen, server, history
  <2>4. Typed'
    BY <2>2, <2>3 DEF IInv, Typed, Someone
  <2>5. EntryOK' /\ CookieOK'
    BY <2>1, <2>2, <2>3 DEF IInv, EntryOK, CookieOK
  <2>6. DraftOK' /\ WaitingOK' /\ SendOK'
    BY <2>3 DEF IInv, DraftOK, WaitingOK, SendOK
  <2> QED
    BY <2>3, <2>4, <2>5, <2>6, OthersFrame DEF IInv
<1>2. CASE TakeMe
  <2>1. /\ entering # Null /\ entering \in Entry /\ entering.step = "me"
        /\ user = Null /\ draft = Null /\ (send # Null => send.gen < gen)
    BY <1>2 DEF TakeMe, IInv, Typed, EntryOK
  <2>2. /\ entering' \in Entry /\ entering'.step = "load"
        /\ user' = cookie /\ cookie # Null
        /\ UNCHANGED <<gen, waiting, cookie, action, selected, draft, files, send, upload, sends,
                       messages, uploads, typed>>
    BY <1>2, <2>1 DEF TakeMe, Entry, screen, server, history
  <2>3. Typed'
    BY <2>2 DEF IInv, Typed
  <2>4. EntryOK' /\ CookieOK' /\ DraftOK'
    BY <2>1, <2>2 DEF EntryOK, CookieOK, DraftOK
  <2>5. waiting = {}
    BY <2>1 DEF IInv, WaitingOK
  <2>6. WaitingOK'
    BY <2>2, <2>5 DEF WaitingOK
  <2>7. SendOK'
    <3>1. send # Null => send.gen \in Nat /\ send.gen # gen
      BY <2>1 DEF IInv, Typed, Sent
    <3> QED
      BY <2>2, <3>1 DEF IInv, SendOK
  <2> QED
    BY <2>2, <2>3, <2>4, <2>6, <2>7, OthersFrame DEF IInv
<1>3. CASE LoginEnds
  <2>1. /\ entering' = Null /\ selected' = Null /\ draft' = Null /\ files' = {}
        /\ UNCHANGED <<gen, user, waiting, cookie, action, send, upload, sends, messages, uploads,
                       typed>>
    BY <1>3 DEF LoginEnds, Cleared, core, server, history
  <2>2. Typed'
    BY <2>1 DEF IInv, Typed
  <2>3. EntryOK' /\ CookieOK' /\ DraftOK' /\ WaitingOK' /\ SendOK'
    BY <2>1 DEF IInv, EntryOK, CookieOK, DraftOK, WaitingOK, SendOK
  <2> QED
    BY <2>1, <2>2, <2>3, OthersFrame DEF IInv
<1> QED
  BY <1>1, <1>2, <1>3 DEF Entering

LEMMA LoginFailsKeeps ==
  ASSUME IInv, LoginFails
  PROVE  IInv'
<1>1. /\ entering' = Null /\ user' = Null /\ waiting' = {}
      /\ UNCHANGED <<gen, cookie, action, selected, draft, files, send, upload, sends, messages,
                     uploads, typed>>
  BY DEF LoginFails, screen, server, history
<1>2. Typed'
  BY <1>1 DEF IInv, Typed, Someone
<1>3. EntryOK' /\ CookieOK' /\ DraftOK' /\ WaitingOK' /\ SendOK'
  BY <1>1 DEF IInv, EntryOK, CookieOK, DraftOK, WaitingOK, SendOK
<1> QED
  BY <1>1, <1>2, <1>3, OthersFrame DEF IInv

\* A user leaves: by a logout, or because an answer says the session is over.
LEMMA LeavingKeeps ==
  ASSUME IInv, NewGeneration, UNCHANGED <<cookie, entering, upload, sends, messages, uploads, typed>>,
         send' = send \/ send' = Null,
         action' = action \/ action'.op # "make",
         ~(entering # Null /\ entering.step \in {"session", "me"})
  PROVE  IInv'
<1>1. /\ gen' \in Nat /\ gen' > gen /\ user' = Null /\ draft' = Null /\ files' = {}
      /\ selected' = Null /\ waiting' = {} /\ CookieOK' /\ DraftOK' /\ WaitingOK'
  BY NewKeeps
<1>2. Typed'
  BY <1>1 DEF IInv, Typed, Someone
<1>3. EntryOK'
  BY DEF EntryOK
<1>4. SendOK'
  <2>1. send # Null => send.gen <= gen' /\ send.gen # gen'
    <3>1. send # Null => send.gen \in Nat /\ send.gen <= gen /\ gen \in Nat
      BY DEF IInv, Typed, Sent, SendOK
    <3> QED
      BY <1>1, <3>1
  <2> QED
    BY <2>1 DEF IInv, SendOK
<1> QED
  BY <1>1, <1>2, <1>3, <1>4, OthersFrame DEF IInv

LEMMA LogoutKeeps ==
  ASSUME IInv, Logout
  PROVE  IInv'
<1>1. ~(entering # Null /\ entering.step \in {"session", "me"})
  BY DEF Logout, IInv, EntryOK
<1>2. action'.op # "make"
  BY DEF Logout
<1> QED
  BY <1>1, <1>2, LeavingKeeps DEF Logout, server, history

\* A handler that touches the conversation, the draft or the session only.
LEMMA ScreenKeeps ==
  ASSUME IInv, UNCHANGED <<gen, user, waiting, entering, send, upload, sends, messages, uploads,
                           typed>>,
         cookie' \in {cookie, Null},
         action' # Null /\ action'.op = "make" => action'.room \in Rooms,
         selected' \in Rooms \cup {Null}, draft' = draft, files' \subseteq Files
  PROVE  IInv'
<1>1. Typed'
  BY DEF IInv, Typed, Someone
<1>2. EntryOK' /\ CookieOK' /\ DraftOK' /\ WaitingOK' /\ SendOK'
  BY DEF IInv, EntryOK, CookieOK, DraftOK, WaitingOK, SendOK
<1> QED
  BY <1>1, <1>2, OthersFrame DEF IInv

LEMMA SmallKeeps ==
  ASSUME IInv,
         \/ LogoutEnds \/ Expire \/ OpenRoom
         \/ \E c \in Rooms \cup {Null} : Select(c)
         \/ \E c \in Rooms : MakeRoom(c)
         \/ \E f \in Files : CancelFile(f)
  PROVE  IInv'
<1> USE DEF core, screen, server, history
<1>1. CASE LogoutEnds \/ Expire
  BY <1>1, ScreenKeeps DEF LogoutEnds, Expire, IInv, Typed
<1>2. CASE OpenRoom
  BY <1>2, ScreenKeeps DEF OpenRoom, IInv, Typed
<1>3. ASSUME NEW c \in Rooms \cup {Null}, Select(c)
      PROVE  IInv'
  BY <1>3, ScreenKeeps DEF Select, IInv, Typed
<1>4. ASSUME NEW c \in Rooms, MakeRoom(c)
      PROVE  IInv'
  BY <1>4, ScreenKeeps DEF MakeRoom, IInv, Typed
<1>5. ASSUME NEW f \in Files, CancelFile(f)
      PROVE  IInv'
  BY <1>5, ScreenKeeps DEF CancelFile, IInv, Typed
<1> QED
  BY <1>1, <1>2, <1>3, <1>4, <1>5

LEMMA TypeKeeps ==
  ASSUME IInv, NEW t \in Texts, Type(t)
  PROVE  IInv'
<1>1. /\ user # Null /\ send = Null /\ typed[t] = Null /\ draft' = t
      /\ typed' = [typed EXCEPT ![t] = user]
      /\ UNCHANGED <<gen, user, waiting, cookie, entering, action, selected, files, send, upload,
                     sends, messages, uploads>>
  BY DEF Type, core, server
<1>2. typed' \in [Texts -> Someone] /\ typed'[t] = user
      /\ \A x \in Texts \ {t} : typed'[x] = typed[x]
  BY <1>1 DEF IInv, Typed
<1>3. Typed'
  BY <1>1, <1>2 DEF IInv, Typed
<1>4. EntryOK' /\ CookieOK' /\ DraftOK' /\ SendOK' /\ UploadOK'
  BY <1>1, <1>2 DEF IInv, EntryOK, CookieOK, DraftOK, SendOK, UploadOK
<1>5. WaitingOK'
  <2>1. \A w \in waiting : w.text \in Texts
    BY DEF IInv, Typed, Item
  <2> QED
    BY <1>1, <1>2, <2>1 DEF IInv, WaitingOK
<1>6. OwnMessages'
  <2>1. ASSUME NEW k \in Keys, messages[k] # Null
        PROVE  typed'[messages[k].text] = typed[messages[k].text]
    <3>1. messages[k].text \in Texts /\ messages[k].by \in Users /\ Null \notin Users
      BY <2>1, ComposerAssumption DEF IInv, Typed, Message
    <3>2. typed[messages[k].text] = messages[k].by
      BY <2>1 DEF IInv, OwnMessages
    <3> QED
      BY <1>1, <1>2, <3>1, <3>2
  <2> QED
    BY <1>1, <2>1 DEF IInv, OwnMessages
<1> QED
  BY <1>3, <1>4, <1>5, <1>6 DEF IInv
-----------------------------------------------------------------------------
(* Uploads *)

LEMMA UploadMoves ==
  ASSUME IInv, UNCHANGED <<gen, user, waiting, cookie, entering, action, selected, draft, send,
                           sends, messages, typed>>,
         files' \subseteq Files, upload' # Null => upload' \in Upload,
         uploads' \in [Files -> Stock], UploadOK', OwnMessages'
  PROVE  IInv'
<1>1. Typed'
  BY DEF IInv, Typed
<1>2. EntryOK' /\ CookieOK' /\ DraftOK' /\ WaitingOK' /\ SendOK'
  BY DEF IInv, EntryOK, CookieOK, DraftOK, WaitingOK, SendOK
<1> QED
  BY <1>1, <1>2 DEF IInv

LEMMA AttachKeeps ==
  ASSUME IInv, NEW f \in Files, Attach(f)
  PROVE  IInv'
<1>1. upload' = [gen |-> gen, by |-> cookie, room |-> selected, file |-> f, step |-> "asked"]
  BY DEF Attach
<1>2. upload' \in Upload
  BY <1>1 DEF Attach, IInv, Typed, Upload
<1>3. UploadOK'
  BY <1>1 DEF Attach, server, UploadOK
<1>4. OwnMessages'
  BY ServerFrame DEF Attach, server, history, IInv
<1> QED
  BY <1>2, <1>3, <1>4, UploadMoves DEF Attach, core, screen, server, history, IInv, Typed

LEMMA ServeUploadKeeps ==
  ASSUME IInv, ServeUpload
  PROVE  IInv'
<1>1. PICK f \in Files : f = upload.file
  BY DEF ServeUpload, IInv, Typed, Upload
<1>2. uploads[f].by = Null /\ upload \in Upload
  BY <1>1 DEF ServeUpload, IInv, UploadOK, Typed
<1>3. upload' \in Upload /\ upload'.step # "asked"
  BY <1>2 DEF ServeUpload, Upload
<1>4. CASE uploads' = uploads
  <2>1. OwnMessages'
    BY <1>4, ServerFrame DEF ServeUpload, history, IInv
  <2> QED
    BY <1>3, <1>4, <2>1, UploadMoves DEF ServeUpload, core, screen, history, IInv, Typed, UploadOK
<1>5. CASE uploads' = [uploads EXCEPT ![f] = [by |-> upload.by, room |-> upload.room, in |-> 0]]
  <2>1. uploads' \in [Files -> Stock]
    BY <1>2, <1>5 DEF IInv, Typed, Stock, Upload
  <2>2. ASSUME NEW k \in Keys, messages[k] # Null
        PROVE  f \notin messages[k].files
    <3>1. messages[k].by \in Users /\ Null \notin Users
      BY <2>2, ComposerAssumption DEF IInv, Typed, Message
    <3>2. ASSUME NEW g \in messages[k].files
          PROVE  uploads[g].by = messages[k].by
      <4>1. uploads[g] = [by |-> messages[k].by, room |-> messages[k].room, in |-> k]
        BY <2>2 DEF IInv, OwnMessages
      <4> QED
        BY <4>1
    <3> QED
      BY <1>2, <3>1, <3>2
  <2>3. \A k \in Keys : messages[k] # Null => messages[k].files \subseteq Files
    BY DEF IInv, Typed, Message
  <2>4. \A g \in Files \ {f} : uploads'[g] = uploads[g]
    BY <1>5 DEF IInv, Typed
  <2>5. OwnMessages'
    BY <2>2, <2>3, <2>4 DEF OwnMessages, IInv, ServeUpload, history
  <2> QED
    BY <1>3, <2>1, <2>5, UploadMoves DEF ServeUpload, core, screen, history, IInv, Typed, UploadOK
<1> QED
  BY <1>1, <1>4, <1>5 DEF ServeUpload

LEMMA TakeUploadKeeps ==
  ASSUME IInv, TakeHead \/ TakeBody \/ LoseUpload
  PROVE  IInv'
<1>1. /\ upload' = Null \/ (upload' \in Upload /\ upload'.step # "asked")
      /\ files' \subseteq Files
      /\ UNCHANGED <<gen, user, waiting, cookie, entering, action, selected, draft, send, sends,
                     messages, uploads, typed>>
  <2>1. upload \in Upload /\ files \subseteq Files
    BY DEF TakeHead, TakeBody, LoseUpload, IInv, Typed
  <2> QED
    BY <2>1 DEF TakeHead, TakeBody, LoseUpload, Freed, Upload, core, screen, server, history
<1>2. UploadOK'
  BY <1>1 DEF UploadOK
<1>3. OwnMessages'
  BY <1>1, ServerFrame DEF IInv
<1> QED
  BY <1>1, <1>2, <1>3, UploadMoves DEF IInv, Typed
-----------------------------------------------------------------------------
(* Sending *)

LEMMA SubmitKeeps ==
  ASSUME IInv, Submit
  PROVE  IInv'
<1>1. /\ user # Null /\ selected # Null /\ draft # Null /\ sends < MaxSends
      /\ sends' = sends + 1
      /\ send' = [key |-> sends', gen |-> gen, by |-> cookie, room |-> selected,
                  text |-> draft, files |-> files, reply |-> Null, step |-> "asked"]
      /\ UNCHANGED <<gen, user, waiting, cookie, entering, action, selected, draft, files, upload,
                     messages, uploads, typed>>
  BY DEF Submit, core, screen, server, history
<1>2. sends' \in Nat /\ sends' \in Keys
  BY <1>1, ComposerAssumption DEF IInv, Typed, Keys
<1>3. send' \in Sent
  <2>1. PICK key \in Keys : key = sends'
    BY <1>2
  <2>2. [key |-> key, gen |-> gen, by |-> cookie, room |-> selected, text |-> draft,
         files |-> files, reply |-> Null, step |-> "asked"] \in Sent
    BY <1>1 DEF IInv, Typed, Sent, Replies
  <2> QED
    BY <1>1, <2>1, <2>2
<1>4. /\ send'.gen = gen /\ send'.by = cookie /\ send'.text = draft
  BY <1>1
<1>5. Typed'
  BY <1>1, <1>2, <1>3 DEF IInv, Typed
<1>6. EntryOK' /\ CookieOK' /\ DraftOK' /\ WaitingOK'
  BY <1>1 DEF IInv, EntryOK, CookieOK, DraftOK, WaitingOK
<1>7. SendOK'
  BY <1>1, <1>4 DEF IInv, SendOK, DraftOK, CookieOK, Typed
<1> QED
  BY <1>1, <1>5, <1>6, <1>7, OthersFrame DEF IInv

\* Storing a message of its author leaves every other message's files alone.
LEMMA StoredKeeps ==
  ASSUME Typed, OwnMessages, UNCHANGED typed,
         NEW m, m.key \in Keys, m.by \in Someone, m.room \in Rooms, m.text \in Texts,
         m.files \subseteq Files, typed[m.text] = m.by, Stores(m), Stored(m)
  PROVE  /\ OwnMessages'
         /\ messages' \in [Keys -> {Null} \cup Message] /\ uploads' \in [Files -> Stock]
         /\ \A f \in Files : uploads'[f].by = uploads[f].by
<1> DEFINE stored == [by |-> m.by, room |-> m.room, text |-> m.text, files |-> m.files]
<1>1. stored \in Message /\ m.by # Null
  BY DEF Stores, Message, Someone
<1>2. messages' = [messages EXCEPT ![m.key] = stored]
  BY DEF Stored
<1>3. /\ messages' \in [Keys -> {Null} \cup Message] /\ messages'[m.key] = stored
      /\ \A k \in Keys \ {m.key} : messages'[k] = messages[k]
  BY <1>1, <1>2 DEF Typed
<1>4. m.key \in Nat /\ \A k \in Keys : k \in Nat /\ k # 0
  BY ComposerAssumption DEF Keys
<1>5. ASSUME NEW f \in Files
      PROVE  /\ uploads'[f] \in Stock /\ uploads'[f].by = uploads[f].by
             /\ f \notin m.files => uploads'[f] = uploads[f]
             /\ f \in m.files => /\ uploads[f].in = 0
                                 /\ uploads'[f] = [by |-> m.by, room |-> m.room, in |-> m.key]
  <2>1. uploads[f] \in Stock
    BY DEF Typed
  <2>2. CASE f \notin m.files
    <3>1. uploads'[f] = uploads[f]
      BY <2>2 DEF Stored
    <3> QED
      BY <2>1, <2>2, <3>1
  <2>3. CASE f \in m.files
    <3>1. uploads'[f] = [uploads[f] EXCEPT !.in = m.key]
      BY <2>3 DEF Stored
    <3>2. uploads[f].by = m.by /\ uploads[f].room = m.room /\ uploads[f].in = 0
      BY <2>3 DEF Stores, Bindable
    <3>3. PICK key \in Nat : key = m.key
      BY <1>4
    <3>4. [uploads[f] EXCEPT !.in = key] = [by |-> uploads[f].by, room |-> uploads[f].room, in |-> key]
      BY <2>1 DEF Stock
    <3>5. [uploads[f] EXCEPT !.in = key] \in Stock
      BY <2>1 DEF Stock
    <3> QED
      BY <2>3, <3>1, <3>2, <3>3, <3>4, <3>5
  <2> QED
    BY <2>2, <2>3
<1>6. uploads' \in [Files -> Stock]
  BY <1>5 DEF Stored
<1>7. ASSUME NEW k \in Keys, messages'[k] # Null
      PROVE  /\ typed'[messages'[k].text] = messages'[k].by
             /\ \A f \in messages'[k].files :
                  uploads'[f] = [by |-> messages'[k].by, room |-> messages'[k].room, in |-> k]
  <2>1. CASE k = m.key
    BY <1>3, <1>5, <2>1
  <2>2. CASE k # m.key
    <3>1. messages'[k] = messages[k] /\ messages[k] # Null
      BY <1>3, <1>7, <2>2
    <3>2. messages[k].files \subseteq Files
      BY <3>1 DEF Typed, Message
    <3>3. /\ typed[messages[k].text] = messages[k].by
          /\ \A f \in messages[k].files :
               uploads[f] = [by |-> messages[k].by, room |-> messages[k].room, in |-> k]
      BY <3>1 DEF OwnMessages
    <3>4. \A f \in messages[k].files : f \notin m.files
      BY <1>4, <1>5, <3>2, <3>3
    <3> QED
      BY <1>5, <3>1, <3>2, <3>3, <3>4
  <2> QED
    BY <2>1, <2>2
<1>8. OwnMessages'
  BY <1>7 DEF OwnMessages
<1> QED
  BY <1>3, <1>5, <1>6, <1>8

LEMMA ServeSendKeeps ==
  ASSUME IInv, ServeSend
  PROVE  IInv'
<1>1. send # Null /\ send \in Sent
  BY DEF ServeSend, IInv, Typed
<1>2. PICK r \in Replies : send' = [send EXCEPT !.reply = r]
  BY DEF ServeSend, Replies
<1>3. /\ send' \in Sent /\ send'.gen = send.gen /\ send'.by = send.by /\ send'.text = send.text
  BY <1>1, <1>2 DEF Sent
<1>4. UNCHANGED <<gen, user, waiting, cookie, entering, action, selected, draft, files, upload,
                  sends, typed>>
  BY DEF ServeSend, core, screen
<1>5. /\ OwnMessages' /\ messages' \in [Keys -> {Null} \cup Message]
      /\ uploads' \in [Files -> Stock] /\ \A f \in Files : uploads'[f].by = uploads[f].by
  <2>1. CASE Stores(send) /\ Stored(send)
    <3>1. typed[send.text] = send.by
      BY <1>1, <2>1 DEF Stores, IInv, SendOK
    <3> QED
      BY <1>1, <1>4, <2>1, <3>1, StoredKeeps DEF IInv, Sent
  <2>2. CASE UNCHANGED server
    BY <1>4, <2>2, ServerFrame DEF server, IInv, Typed
  <2> QED
    BY <2>1, <2>2 DEF ServeSend
<1>6. Typed'
  BY <1>3, <1>4, <1>5 DEF IInv, Typed
<1>7. EntryOK' /\ CookieOK' /\ DraftOK' /\ WaitingOK'
  BY <1>1, <1>3, <1>4 DEF IInv, EntryOK, CookieOK, DraftOK, WaitingOK
<1>8. SendOK'
  BY <1>1, <1>3, <1>4 DEF IInv, SendOK
<1>9. UploadOK'
  BY <1>4, <1>5 DEF IInv, Typed, Upload, UploadOK
<1> QED
  BY <1>5, <1>6, <1>7, <1>8, <1>9 DEF IInv

LEMMA TakeSendKeeps ==
  ASSUME IInv, TakeSend \/ TakeOldSend
  PROVE  IInv'
<1>1. /\ send # Null /\ send' = Null /\ draft' \in {draft, Null} /\ files' \subseteq Files
      /\ UNCHANGED <<gen, user, cookie, entering, action, selected, upload, sends, messages,
                     uploads, typed>>
  BY DEF TakeSend, TakeOldSend, Freed, core, server, history, IInv, Typed
<1>2. waiting' = waiting \/ (send.gen = gen /\ user # Null /\ waiting' = waiting \cup {Waits})
  BY DEF TakeSend, TakeOldSend, core
<1>3. Waits \in Item /\ Waits.text = send.text
  BY <1>1 DEF IInv, Typed, Sent, Item, Waits
<1>4. Typed'
  BY <1>1, <1>2, <1>3 DEF IInv, Typed
<1>5. EntryOK' /\ CookieOK' /\ DraftOK' /\ SendOK'
  BY <1>1 DEF IInv, EntryOK, CookieOK, DraftOK, SendOK
<1>6. WaitingOK'
  BY <1>1, <1>2, <1>3 DEF IInv, WaitingOK, SendOK
<1> QED
  BY <1>1, <1>4, <1>5, <1>6, OthersFrame DEF IInv

LEMMA LoseSendKeeps ==
  ASSUME IInv, LoseSend
  PROVE  IInv'
<1>1. send \in Sent /\ send # Null /\ send' = [send EXCEPT !.reply = "lost"]
  BY DEF LoseSend, IInv, Typed
<1>2. /\ send' \in Sent /\ send'.gen = send.gen /\ send'.by = send.by /\ send'.text = send.text
  BY <1>1 DEF Sent, Replies
<1>3. UNCHANGED <<gen, user, waiting, cookie, entering, action, selected, draft, files, upload,
                  sends, messages, uploads, typed>>
  BY DEF LoseSend, core, screen, server, history
<1>4. Typed'
  BY <1>2, <1>3 DEF IInv, Typed
<1>5. EntryOK' /\ CookieOK' /\ DraftOK' /\ WaitingOK' /\ SendOK'
  BY <1>1, <1>2, <1>3 DEF IInv, EntryOK, CookieOK, DraftOK, WaitingOK, SendOK
<1> QED
  BY <1>3, <1>4, <1>5, OthersFrame DEF IInv

LEMMA UnauthorizedKeeps ==
  ASSUME IInv, TakeUnauthorized \/ RetryUnauthorized
  PROVE  IInv'
<1>1. ~(entering # Null /\ entering.step \in {"session", "me"})
  <2> SUFFICES ASSUME entering # Null, entering.step \in {"session", "me"}
               PROVE  FALSE
    OBVIOUS
  <2>1. user = Null /\ (send # Null => send.gen < gen)
    BY DEF IInv, EntryOK
  <2>2. CASE TakeUnauthorized
    <3>1. send # Null /\ send.gen = gen /\ gen \in Nat
      BY <2>2 DEF TakeUnauthorized, IInv, Typed
    <3> QED
      BY <2>1, <3>1
  <2>3. CASE RetryUnauthorized
    BY <2>1, <2>3 DEF RetryUnauthorized, IInv, WaitingOK
  <2> QED
    BY <2>2, <2>3
<1> QED
  BY <1>1, LeavingKeeps DEF TakeUnauthorized, RetryUnauthorized, Freed, server, history

LEMMA RetryKeeps ==
  ASSUME IInv, NEW w \in waiting, Retry(w)
  PROVE  IInv'
<1>1. w \in Item
  BY DEF IInv, Typed
<1>2. UNCHANGED <<gen, user, cookie, entering, action, selected, draft, files, send, upload, sends,
                  typed>> /\ waiting' = waiting \ {w}
  BY DEF Retry, screen, history
<1>3. typed[w.text] = cookie
  BY DEF Retry, IInv, WaitingOK, CookieOK
<1>4. /\ OwnMessages' /\ messages' \in [Keys -> {Null} \cup Message]
      /\ uploads' \in [Files -> Stock] /\ \A f \in Files : uploads'[f].by = uploads[f].by
  <2> DEFINE m == [by |-> cookie, key |-> w.key, room |-> w.room, text |-> w.text,
                   files |-> w.files]
  <2>1. CASE Stores(m) /\ Stored(m)
    <3>1. PICK n : n = m
      OBVIOUS
    <3>2. /\ n.key \in Keys /\ n.by \in Someone /\ n.room \in Rooms /\ n.text \in Texts
          /\ n.files \subseteq Files /\ typed[n.text] = n.by
      BY <1>1, <1>3, <3>1 DEF Item, IInv, Typed
    <3>3. Stores(n) /\ Stored(n)
      BY <2>1, <3>1
    <3> QED
      BY <1>2, <3>2, <3>3, StoredKeeps DEF IInv
  <2>2. CASE UNCHANGED server
    BY <1>2, <2>2, ServerFrame DEF server, IInv, Typed
  <2> QED
    BY <2>1, <2>2 DEF Retry
<1>5. Typed'
  BY <1>2, <1>4 DEF IInv, Typed
<1>6. EntryOK' /\ CookieOK' /\ DraftOK' /\ WaitingOK' /\ SendOK'
  BY <1>2 DEF IInv, EntryOK, CookieOK, DraftOK, WaitingOK, SendOK
<1>7. UploadOK'
  BY <1>2, <1>4 DEF IInv, Typed, Upload, UploadOK
<1> QED
  BY <1>4, <1>5, <1>6, <1>7 DEF IInv
-----------------------------------------------------------------------------
LEMMA Start ==
  ASSUME Init
  PROVE  IInv
<1>1. Nobody \in Stock
  BY DEF Nobody, Stock, Someone
<1>2. Typed
  BY <1>1, ComposerAssumption DEF Init, Typed, Someone
<1> QED
  BY <1>2 DEF Init, IInv, EntryOK, CookieOK, DraftOK, WaitingOK, SendOK, UploadOK, OwnMessages

LEMMA Steps ==
  ASSUME IInv, [Next]_vars
  PROVE  IInv'
<1>1. CASE UNCHANGED vars
  BY <1>1, ScreenKeeps DEF vars, core, screen, server, history, IInv, Typed
<1>2. CASE Uploading
  BY <1>2, ServeUploadKeeps, TakeUploadKeeps DEF Uploading
<1>3. CASE Sending
  BY <1>3, ServeSendKeeps, TakeSendKeeps, UnauthorizedKeeps DEF Sending
<1>4. ASSUME NEW f \in Files, Attach(f) \/ CancelFile(f)
      PROVE  IInv'
  BY <1>4, AttachKeeps, SmallKeeps
<1> QED
  BY <1>1, <1>2, <1>3, <1>4, LoginKeeps, EnteringKeeps, LoginFailsKeeps, LogoutKeeps, SmallKeeps,
     TypeKeeps, TakeUploadKeeps, SubmitKeeps, LoseSendKeeps, RetryKeeps, UnauthorizedKeeps DEF Next

\* The composer's types, and whose everything on the screen and under way is.
THEOREM Inductive == Spec => []IInv
<1>1. Init => IInv
  BY Start
<1>2. IInv /\ [Next]_vars => IInv'
  BY Steps
<1> QED
  BY <1>1, <1>2, PTL DEF Spec

\* What the server stores is its author's own, text and files.
THEOREM MessagesAreOwn == Spec => []OwnMessages
BY Inductive, PTL DEF IInv
-----------------------------------------------------------------------------
(* One key per text *)

\* An item with an attachment that its author can never bind again.
Spoilt(w) ==
  \E f \in w.files : uploads[f].by # Null /\ ~Bindable(f, [by |-> typed[w.text], room |-> w.room])

\* The key k holds the text t, or still may.
Carries(k, t) ==
  \/ messages[k] # Null /\ messages[k].text = t
  \/ \E w \in waiting : w.key = k /\ w.text = t /\ ~Spoilt(w)
  \/ send # Null /\ send.key = k /\ send.text = t

KeysOK ==
  /\ \A k \in Keys : messages[k] # Null => k <= sends
  /\ \A w \in waiting : w.key <= sends /\ (send # Null => w.key # send.key)
  /\ send # Null => /\ send.key <= sends
                    /\ send.reply \in {Null, "refused"} => messages[send.key] = Null

\* What is attached was uploaded.
FilesOK ==
  /\ \A f \in files : uploads[f].by # Null
  /\ upload # Null /\ upload.step \in {"stored", "body"} => uploads[upload.file].by # Null
  /\ send # Null => \A f \in send.files : uploads[f].by # Null

\* A refused send is refused for good, one put off is known to be.
AnsweredOK ==
  /\ send # Null /\ send.reply = "refused" => Spoilt(send)
  /\ send # Null /\ send.reply = "busy" => send.text \in spared

OneKey ==
  \A t \in Texts \ spared : \A j, k \in Keys : Carries(j, t) /\ Carries(k, t) => j = k

\* A draft that may be sent is under no key yet.
DraftNew ==
  \A t \in Texts \ spared : draft = t /\ user # Null /\ (send # Null => send.text # t) =>
    \A k \in Keys : ~Carries(k, t)

OInv == KeysOK /\ FilesOK /\ AnsweredOK /\ OneKey /\ DraftNew

\* What no step takes back: whose a text or an upload is, and that it is bound.
Lasting ==
  /\ \A f \in Files : uploads[f].by # Null =>
       /\ uploads'[f].by = uploads[f].by /\ uploads'[f].room = uploads[f].room
       /\ uploads[f].in # 0 => uploads'[f].in # 0
  /\ \A t \in Texts : typed[t] # Null => typed'[t] = typed[t]

LEMMA SpoiltStays ==
  ASSUME Lasting, NEW w, w.files \subseteq Files, w.text \in Texts, typed[w.text] # Null, Spoilt(w)
  PROVE  Spoilt(w)'
<1>1. PICK f \in w.files :
        uploads[f].by # Null /\ ~Bindable(f, [by |-> typed[w.text], room |-> w.room])
  BY DEF Spoilt
<1>2. /\ uploads'[f].by = uploads[f].by /\ uploads'[f].room = uploads[f].room
      /\ uploads[f].in # 0 => uploads'[f].in # 0
      /\ typed'[w.text] = typed[w.text]
  BY <1>1 DEF Lasting
<1>3. ~Bindable(f, [by |-> typed[w.text], room |-> w.room])'
  BY <1>1, <1>2 DEF Bindable
<1> QED
  BY <1>1, <1>2, <1>3 DEF Spoilt

\* Keys that hold a text stay the ones they were, or become fewer.
LEMMA Fewer ==
  ASSUME OneKey, spared \subseteq spared',
         \A t \in Texts \ spared', k \in Keys : Carries(k, t)' => Carries(k, t),
         \A t \in Texts \ spared' : draft' = t /\ user' # Null /\ (send' # Null => send'.text # t) =>
            \A k \in Keys : ~Carries(k, t)
  PROVE  OneKey' /\ DraftNew'
BY DEF OneKey, DraftNew

\* A step that stores nothing, sends nothing and lets no new message wait.
LEMMA QuietKeeps ==
  ASSUME IInv, OInv, Lasting, UNCHANGED <<messages, send, sends>>, spared \subseteq spared',
         waiting' \subseteq waiting, draft' \in {draft, Null},
         draft' # Null /\ user' # Null => user # Null, FilesOK'
  PROVE  OInv'
<1>1. \A w \in waiting : /\ w.files \subseteq Files /\ w.text \in Texts /\ w \in Item
                         /\ typed[w.text] # Null
  BY DEF IInv, Typed, Item, WaitingOK
<1>2. \A w \in waiting : Spoilt(w) => Spoilt(w)'
  BY <1>1, SpoiltStays
<1>3. \A t \in Texts \ spared', k \in Keys : Carries(k, t)' => Carries(k, t)
  BY <1>2 DEF Carries
<1>4. \A t \in Texts \ spared' : draft' = t /\ user' # Null /\ (send' # Null => send'.text # t) =>
         \A k \in Keys : ~Carries(k, t)
  BY ComposerAssumption DEF OInv, DraftNew
<1>5. OneKey' /\ DraftNew'
  BY <1>3, <1>4, Fewer DEF OInv
<1>6. KeysOK'
  BY DEF OInv, KeysOK
<1>7. AnsweredOK'
  <2> SUFFICES ASSUME send # Null, send.reply = "refused"
               PROVE  Spoilt(send)'
    BY DEF OInv, AnsweredOK
  <2>1. PICK q : q = send
    OBVIOUS
  <2>2. q.files \subseteq Files /\ q.text \in Texts /\ typed[q.text] # Null
    BY <2>1 DEF IInv, Typed, Sent, SendOK
  <2>3. Spoilt(q)
    BY <2>1 DEF OInv, AnsweredOK
  <2>4. Spoilt(q)'
    BY <2>2, <2>3, SpoiltStays
  <2> QED
    BY <2>1, <2>4 DEF Spoilt
<1> QED
  BY <1>5, <1>6, <1>7 DEF OInv

LEMMA Still ==
  ASSUME UNCHANGED <<uploads, typed>>
  PROVE  Lasting
BY DEF Lasting

LEMMA StoringLasts ==
  ASSUME IInv, NEW m, m.key \in Keys, Stored(m), UNCHANGED typed
  PROVE  /\ Lasting
         /\ messages'[m.key].text = m.text
         /\ \A k \in Keys \ {m.key} : messages'[k] = messages[k]
<1>1. m.key # 0
  BY DEF Keys
<1>2. /\ \A f \in Files : uploads'[f].by = uploads[f].by /\ uploads'[f].room = uploads[f].room
      /\ \A f \in Files : uploads'[f].in \in {uploads[f].in, m.key}
  BY DEF Stored, IInv, Typed, Stock
<1>3. Lasting
  BY <1>1, <1>2 DEF Lasting
<1>4. messages' = [messages EXCEPT ![m.key] = [by |-> m.by, room |-> m.room, text |-> m.text,
                                              files |-> m.files]]
  BY DEF Stored
<1>5. messages'[m.key] = [by |-> m.by, room |-> m.room, text |-> m.text, files |-> m.files]
  BY <1>4 DEF IInv, Typed
<1> QED
  BY <1>3, <1>4, <1>5 DEF IInv, Typed

\* Uploads and drafts apart, nothing moves.
LEMMA FilesStay ==
  ASSUME IInv, FilesOK, Lasting, UNCHANGED send, files' \subseteq files,
         upload' \in {upload, Null} \/ upload'.step \notin {"stored", "body"}
  PROVE  FilesOK'
<1>1. files \subseteq Files /\ (send # Null => send.files \subseteq Files)
  BY DEF IInv, Typed, Sent
<1>2. \A f \in Files : uploads[f].by # Null => uploads'[f].by # Null
  BY DEF Lasting
<1>3. upload # Null => upload.file \in Files
  BY DEF IInv, Typed, Upload
<1> QED
  BY <1>1, <1>2, <1>3 DEF FilesOK

LEMMA PeopleOnce ==
  ASSUME IInv, OInv,
         \/ \E u \in Users : Login(u)
         \/ ServeLogin \/ TakeMe \/ LoginEnds \/ LoginFails \/ Logout \/ LogoutEnds \/ Expire
         \/ RetryUnauthorized
  PROVE  OInv'
<1>1. /\ UNCHANGED <<messages, send, sends, spared, uploads, typed, upload>>
      /\ waiting' \subseteq waiting /\ draft' \in {draft, Null} /\ files' \subseteq files
  BY DEF Login, ServeLogin, TakeMe, LoginEnds, LoginFails, Logout, LogoutEnds, Expire,
     RetryUnauthorized, NewGeneration, Cleared, core, screen, server, history
<1>2. draft' # Null /\ user' # Null => user # Null
  BY DEF Login, ServeLogin, TakeMe, LoginEnds, LoginFails, Logout, LogoutEnds, Expire,
     RetryUnauthorized, NewGeneration, Cleared, core, screen, server, history, IInv, EntryOK
<1>3. Lasting
  BY <1>1, Still
<1>4. FilesOK'
  BY <1>1, <1>3, FilesStay DEF OInv
<1> QED
  BY <1>1, <1>2, <1>3, <1>4, QuietKeeps

LEMMA ScreenOnce ==
  ASSUME IInv, OInv,
         \/ \E c \in Rooms \cup {Null} : Select(c)
         \/ \E c \in Rooms : MakeRoom(c)
         \/ OpenRoom
         \/ \E f \in Files : CancelFile(f) \/ Attach(f)
  PROVE  OInv'
<1>1. /\ UNCHANGED <<messages, send, sends, spared, uploads, typed, user, waiting, draft>>
      /\ files' \subseteq files
      /\ upload' = upload \/ upload'.step = "asked"
  BY DEF Select, MakeRoom, OpenRoom, CancelFile, Attach, core, screen, server, history
<1>2. Lasting
  BY <1>1, Still
<1>3. FilesOK'
  BY <1>1, <1>2, FilesStay DEF OInv
<1> QED
  BY <1>1, <1>2, <1>3, QuietKeeps

LEMMA UploadOnce ==
  ASSUME IInv, OInv, Uploading \/ LoseUpload
  PROVE  OInv'
<1>1. /\ UNCHANGED <<messages, send, sends, spared, typed, user, waiting, draft>>
      /\ upload # Null /\ upload \in Upload
  BY DEF Uploading, ServeUpload, TakeHead, TakeBody, LoseUpload, core, screen, server, history,
     IInv, Typed
<1>2. CASE ServeUpload
  <2>1. PICK f \in Files : f = upload.file
    BY <1>1 DEF Upload
  <2>2. uploads[f].by = Null
    BY <1>2, <2>1 DEF ServeUpload, IInv, UploadOK
  <2>3. \A g \in Files \ {f} : uploads'[g] = uploads[g]
    BY <1>2, <2>1 DEF ServeUpload, IInv, Typed
  <2>4. Lasting
    BY <1>1, <2>2, <2>3 DEF Lasting
  <2>5. upload'.step = "stored" => uploads'[upload'.file].by # Null
    <3>1. CASE uploads' = [uploads EXCEPT ![f] = [by |-> upload.by, room |-> upload.room, in |-> 0]]
               /\ upload.by # Null /\ upload' = [upload EXCEPT !.step = "stored"]
      BY <1>1, <2>1, <3>1 DEF Upload, IInv, Typed
    <3>2. CASE upload' = [upload EXCEPT !.step = "refused"]
      BY <1>1, <3>2 DEF Upload
    <3> QED
      BY <1>2, <2>1, <3>1, <3>2 DEF ServeUpload
  <2>6. upload'.step # "body"
    BY <1>1, <1>2 DEF ServeUpload, Upload
  <2>7. /\ files \subseteq Files /\ files' = files /\ (send # Null => send.files \subseteq Files)
        /\ \A g \in Files : uploads[g].by # Null => uploads'[g].by # Null
    BY <1>2, <2>4 DEF IInv, Typed, Sent, Lasting, ServeUpload, screen
  <2>8. FilesOK'
    BY <1>1, <2>5, <2>6, <2>7 DEF OInv, FilesOK
  <2> QED
    BY <1>1, <2>4, <2>8, QuietKeeps
<1>3. CASE TakeHead \/ TakeBody \/ LoseUpload
  <2>1. UNCHANGED uploads
    BY <1>3 DEF TakeHead, TakeBody, LoseUpload, server
  <2>2. Lasting
    BY <1>1, <2>1, Still
  <2>3. upload' = Null \/ (upload' = [upload EXCEPT !.step = "body"] /\ upload.step = "stored")
    BY <1>1, <1>3 DEF TakeHead, TakeBody, LoseUpload, Freed, Upload
  <2>4. files' \subseteq files \cup (IF upload.step = "body" THEN {upload.file} ELSE {})
    BY <1>3 DEF TakeHead, TakeBody, LoseUpload, screen
  <2>5. FilesOK'
    BY <1>1, <2>1, <2>3, <2>4, ComposerAssumption DEF OInv, FilesOK, Upload
  <2> QED
    BY <1>1, <2>2, <2>5, QuietKeeps
<1> QED
  BY <1>2, <1>3 DEF Uploading

-----------------------------------------------------------------------------
LEMMA NoRecord == ASSUME IInv PROVE Null \notin Sent /\ Null \notin Texts /\ Null \notin Users
BY ComposerAssumption DEF Sent, Someone

LEMMA TypeOnce ==
  ASSUME IInv, OInv, NEW x \in Texts, Type(x)
  PROVE  OInv'
<1>1. /\ UNCHANGED <<messages, send, sends, spared, uploads, user, waiting, files, upload>>
      /\ send = Null /\ draft' = x /\ typed[x] = Null
      /\ typed' = [typed EXCEPT ![x] = user]
  BY DEF Type, core, server
<1>2. Lasting
  BY <1>1 DEF Lasting, IInv, Typed
<1>3. \A w \in waiting : /\ w.files \subseteq Files /\ w.text \in Texts
                         /\ typed[w.text] # Null
  BY DEF IInv, Typed, Item, WaitingOK
<1>4. \A w \in waiting : Spoilt(w) => Spoilt(w)'
  BY <1>2, <1>3, SpoiltStays
<1>5. \A t \in Texts \ spared', k \in Keys : Carries(k, t)' => Carries(k, t)
  BY <1>1, <1>4 DEF Carries
<1>6. ASSUME NEW k \in Keys, Carries(k, x)
      PROVE  FALSE
  <2>1. CASE messages[k] # Null /\ messages[k].text = x
    <3>1. typed[x] = messages[k].by /\ messages[k].by \in Users
      BY <2>1 DEF IInv, Typed, Message, OwnMessages
    <3> QED
      BY <1>1, <3>1, NoRecord
  <2> QED
    BY <1>1, <1>3, <1>6, <2>1 DEF Carries
<1>7. OneKey' /\ DraftNew'
  BY <1>1, <1>5, <1>6, Fewer DEF OInv
<1>8. FilesOK'
  BY <1>1, <1>2, FilesStay DEF OInv
<1>9. KeysOK' /\ AnsweredOK'
  BY <1>1 DEF OInv, KeysOK, AnsweredOK
<1> QED
  BY <1>7, <1>8, <1>9 DEF OInv

LEMMA SubmitOnce ==
  ASSUME IInv, OInv, Submit
  PROVE  OInv'
<1>1. /\ user # Null /\ draft # Null /\ send = Null /\ sends' = sends + 1 /\ sends < MaxSends
      /\ send' = [key |-> sends', gen |-> gen, by |-> cookie, room |-> selected, text |-> draft,
                  files |-> files, reply |-> Null, step |-> "asked"]
      /\ UNCHANGED <<messages, spared, uploads, typed, user, waiting, draft, files, upload>>
  BY DEF Submit, core, screen, server, history
<1>2. /\ sends \in Nat /\ sends' \in Nat /\ sends' > sends /\ sends' \in Keys
      /\ \A w \in waiting : w.key \in Nat
      /\ draft \in Texts
  BY <1>1, ComposerAssumption DEF IInv, Typed, Keys, Item
<1>3. /\ send'.key = sends' /\ send'.text = draft /\ send'.files = files /\ send'.reply = Null
  BY <1>1
<1>4. \A k \in Keys : k \in Nat
  BY DEF Keys
<1>5. messages[sends'] = Null
  BY <1>2 DEF OInv, KeysOK
<1>6. KeysOK'
  BY <1>1, <1>2, <1>3, <1>4, <1>5 DEF OInv, KeysOK
<1>7. FilesOK' /\ AnsweredOK'
  BY <1>1, <1>3, ComposerAssumption DEF OInv, FilesOK, AnsweredOK
<1>8. \A w \in waiting : Spoilt(w)' = Spoilt(w)
  BY <1>1 DEF Spoilt, Bindable
<1>9. \A t \in Texts, k \in Keys : Carries(k, t)' => Carries(k, t) \/ (k = sends' /\ t = draft)
  BY <1>1, <1>3, <1>8 DEF Carries
<1>10. draft \notin spared => \A k \in Keys : ~Carries(k, draft)
  BY <1>1, <1>2 DEF OInv, DraftNew
<1>11. OneKey'
  <2> SUFFICES ASSUME NEW t \in Texts \ spared', NEW j \in Keys, NEW k \in Keys,
                      Carries(j, t)', Carries(k, t)'
               PROVE  j = k
    BY DEF OneKey
  <2>1. t \in Texts \ spared
    BY <1>1
  <2>2. CASE t = draft
    BY <1>9, <1>10, <2>1, <2>2
  <2>3. CASE t # draft
    <3>1. Carries(j, t) /\ Carries(k, t)
      BY <1>9, <2>3
    <3> QED
      BY <2>1, <3>1 DEF OInv, OneKey
  <2> QED
    BY <2>2, <2>3
<1>12. send' # Null
  <2>1. PICK key \in Keys : key = sends'
    BY <1>2
  <2>2. [key |-> key, gen |-> gen, by |-> cookie, room |-> selected, text |-> draft,
         files |-> files, reply |-> Null, step |-> "asked"] \in Sent
    BY <1>1, <1>2 DEF IInv, Typed, Sent, Replies, Submit
  <2> QED
    BY <1>1, <2>1, <2>2, NoRecord
<1>13. DraftNew'
  BY <1>1, <1>3, <1>12 DEF DraftNew
<1> QED
  BY <1>6, <1>7, <1>11, <1>13 DEF OInv

LEMMA ServeSendOnce ==
  ASSUME IInv, OInv, ServeSend
  PROVE  OInv'
<1>1. /\ send # Null /\ send.reply = Null /\ send \in Sent /\ send' # Null
      /\ UNCHANGED <<sends, typed, user, waiting, draft, files, upload>>
  <2>1. send # Null /\ send \in Sent
    BY DEF ServeSend, IInv, Typed
  <2>2. send' \in Sent
    BY <2>1 DEF ServeSend, Sent, Replies
  <2> QED
    BY <2>1, <2>2, NoRecord DEF ServeSend, core, screen
<1>2. PICK q \in Sent : q = send
  BY <1>1
<1>3. PICK r : send' = [send EXCEPT !.reply = r]
  BY DEF ServeSend
<1>4. /\ send'.key = q.key /\ send'.text = q.text /\ send'.files = q.files /\ send'.reply = r
      /\ send'.room = q.room
  BY <1>2, <1>3 DEF Sent
<1>5. /\ q.key \in Keys /\ q.files \subseteq Files /\ q.text \in Texts /\ typed[q.text] # Null
      /\ q.by \in {typed[q.text], Null} /\ messages[q.key] = Null /\ q.key <= sends
      /\ \A f \in q.files : uploads[f].by # Null
  BY <1>1, <1>2 DEF Sent, IInv, SendOK, OInv, KeysOK, FilesOK
<1>6. \A w \in waiting : /\ w.files \subseteq Files /\ w.text \in Texts
                         /\ typed[w.text] # Null
  BY DEF IInv, Typed, Item, WaitingOK
<1>7. CASE Stores(send) /\ Stored(send) /\ r = "ok" /\ UNCHANGED spared
  <2>1. Stored(q)
    BY <1>2, <1>7
  <2>2. /\ Lasting /\ messages'[q.key].text = q.text
        /\ \A k \in Keys \ {q.key} : messages'[k] = messages[k]
    BY <1>1, <1>5, <2>1, StoringLasts
  <2>3. \A w \in waiting : Spoilt(w) => Spoilt(w)'
    BY <1>6, <2>2, SpoiltStays
  <2>4. \A t \in Texts, k \in Keys : Carries(k, t)' => Carries(k, t)
    BY <1>1, <1>2, <1>4, <2>2, <2>3 DEF Carries
  <2>5. OneKey' /\ DraftNew'
    BY <1>1, <1>2, <1>4, <1>7, <2>4, Fewer DEF OInv, DraftNew
  <2>6. KeysOK'
    BY <1>1, <1>2, <1>4, <1>5, <1>7, <2>2, ComposerAssumption DEF OInv, KeysOK
  <2>7. files \subseteq Files /\ (upload # Null => upload.file \in Files)
    BY DEF IInv, Typed, Upload
  <2>8. FilesOK'
    BY <1>1, <1>4, <1>5, <2>2, <2>7 DEF OInv, FilesOK, Lasting
  <2>9. AnsweredOK'
    BY <1>4, <1>7 DEF AnsweredOK
  <2> QED
    BY <2>5, <2>6, <2>8, <2>9 DEF OInv
<1>8. CASE UNCHANGED server /\ spared \subseteq spared'
           /\ (r = "unauthorized" \/ (r = "busy" /\ q.text \in spared')
               \/ (r = "refused" /\ q.by # Null /\ ~Stores(q)))
  <2>1. UNCHANGED <<messages, uploads>>
    BY <1>8 DEF server
  <2>2. \A w \in waiting : Spoilt(w)' = Spoilt(w)
    BY <1>1, <2>1 DEF Spoilt, Bindable
  <2>3. \A t \in Texts, k \in Keys : Carries(k, t)' => Carries(k, t)
    BY <1>1, <1>2, <1>4, <2>1, <2>2 DEF Carries
  <2>4. OneKey' /\ DraftNew'
    BY <1>1, <1>2, <1>4, <1>8, <2>3, Fewer DEF OInv, DraftNew
  <2>5. KeysOK'
    BY <1>1, <1>2, <1>4, <1>5, <2>1 DEF OInv, KeysOK
  <2>6. FilesOK'
    BY <1>1, <1>2, <1>4, <2>1 DEF OInv, FilesOK
  <2>7. r = "refused" => Spoilt(q)
    <3>1. ASSUME r = "refused"
          PROVE  Spoilt(q)
      <4>1. PICK f \in q.files : ~Bindable(f, q)
        BY <1>5, <1>8, <3>1 DEF Stores
      <4>2. ~Bindable(f, [by |-> typed[q.text], room |-> q.room])
        BY <1>5, <1>8, <3>1, <4>1 DEF Bindable
      <4> QED
        BY <1>5, <4>1, <4>2 DEF Spoilt
    <3> QED
      BY <3>1
  <2>8. r = "refused" => Spoilt(send)'
    BY <1>1, <1>4, <2>1, <2>7 DEF Spoilt, Bindable
  <2>9. AnsweredOK'
    BY <1>4, <1>8, <2>8 DEF AnsweredOK
  <2> QED
    BY <2>4, <2>5, <2>6, <2>9 DEF OInv
<1>9. send' = [send EXCEPT !.reply = "ok"] => send'.reply = "ok"
  BY <1>1 DEF Sent
<1> QED
  <2>1. r = send'.reply
    BY <1>4
  <2>2. \A a : send' = [send EXCEPT !.reply = a] => send'.reply = a
    BY <1>1 DEF Sent
  <2> QED
    BY <1>2, <1>7, <1>8, <2>1, <2>2 DEF ServeSend

\* The send that is over, whatever became of it, leaves no key it did not have.
LEMMA SendGone ==
  ASSUME IInv, OInv, send # Null, send' = Null,
         UNCHANGED <<messages, uploads, typed, sends, spared, upload>>,
         waiting' \subseteq waiting \cup {Waits}, files' \subseteq files
  PROVE  /\ KeysOK' /\ FilesOK' /\ AnsweredOK'
         /\ \A t \in Texts, k \in Keys : Carries(k, t)' => Carries(k, t)
<1>1. Waits.key = send.key /\ Waits.text = send.text
  BY DEF Waits
<1>2. \A w \in waiting' : Spoilt(w)' = Spoilt(w)
  BY DEF Spoilt, Bindable
<1>3. \A t \in Texts, k \in Keys : Carries(k, t)' => Carries(k, t)
  BY <1>1, <1>2 DEF Carries
<1>4. KeysOK'
  BY <1>1 DEF OInv, KeysOK
<1>5. FilesOK' /\ AnsweredOK'
  BY DEF OInv, FilesOK, AnsweredOK
<1> QED
  BY <1>3, <1>4, <1>5

LEMMA TakeSendOnce ==
  ASSUME IInv, OInv, TakeSend
  PROVE  OInv'
<1>1. /\ send # Null /\ send \in Sent /\ send' = Null /\ send.reply \notin {Null, "unauthorized"}
      /\ UNCHANGED <<messages, uploads, typed, sends, spared, upload, user>>
      /\ waiting' \subseteq waiting \cup {Waits} /\ files' \subseteq files
      /\ (send.reply \in {"ok", "lost"} => draft' = Null)
      /\ (send.reply \notin {"ok", "lost"} => draft' = draft)
  BY DEF TakeSend, Freed, Empties, server, history, IInv, Typed
<1>2. send.reply \in {"ok", "lost", "refused", "busy"}
  BY <1>1 DEF Sent, Replies
<1>3. /\ KeysOK' /\ FilesOK' /\ AnsweredOK'
      /\ \A t \in Texts, k \in Keys : Carries(k, t)' => Carries(k, t)
  BY <1>1, SendGone
<1>4. OneKey'
  BY <1>1, <1>3 DEF OInv, OneKey
<1>5. DraftNew'
  <2> SUFFICES ASSUME NEW t \in Texts \ spared, draft' = t, user # Null,
                      NEW k \in Keys, Carries(k, t)'
               PROVE  FALSE
    BY <1>1 DEF DraftNew
  <2>1. draft = t /\ send.reply \in {"refused", "busy"} /\ Carries(k, t)
    BY <1>1, <1>2, <1>3, NoRecord
  <2>2. send.text = t
    BY <2>1 DEF OInv, DraftNew
  <2>3. send.reply = "refused"
    BY <1>1, <2>1, <2>2 DEF OInv, AnsweredOK
  <2>4. send.key \in Keys /\ Carries(send.key, t)
    BY <1>1, <2>2 DEF Sent, Carries
  <2>5. k = send.key /\ messages[send.key] = Null
    BY <1>1, <2>1, <2>3, <2>4 DEF OInv, OneKey, KeysOK
  <2>6. Spoilt(send)
    BY <1>1, <2>3 DEF OInv, AnsweredOK
  <2>7. Spoilt(Waits)
    BY <2>6 DEF Spoilt, Bindable, Waits
  <2>8. \A w \in waiting : w.key # k
    BY <1>1, <2>5 DEF OInv, KeysOK
  <2>9. \A w \in waiting' : Spoilt(w)' = Spoilt(w)
    BY <1>1 DEF Spoilt, Bindable
  <2>10. PICK v : v = Waits
    OBVIOUS
  <2>11. Spoilt(v) /\ waiting' \subseteq waiting \cup {v}
    BY <1>1, <2>7, <2>10
  <2> QED
    BY <1>1, <2>5, <2>8, <2>9, <2>11 DEF Carries
<1> QED
  BY <1>3, <1>4, <1>5 DEF OInv

LEMMA TakeLateOnce ==
  ASSUME IInv, OInv, TakeOldSend \/ TakeUnauthorized
  PROVE  OInv'
<1>1. /\ send # Null /\ send' = Null /\ draft' = Null /\ files' = {}
      /\ UNCHANGED <<messages, uploads, typed, sends, spared, upload>>
      /\ waiting' \subseteq waiting
  BY DEF TakeOldSend, TakeUnauthorized, Freed, NewGeneration, Cleared, core, screen, server, history
<1>2. /\ KeysOK' /\ FilesOK' /\ AnsweredOK'
      /\ \A t \in Texts, k \in Keys : Carries(k, t)' => Carries(k, t)
  BY <1>1, SendGone
<1>3. OneKey' /\ DraftNew'
  BY <1>1, <1>2, NoRecord DEF OInv, OneKey, DraftNew
<1> QED
  BY <1>2, <1>3 DEF OInv

LEMMA LoseSendOnce ==
  ASSUME IInv, OInv, LoseSend
  PROVE  OInv'
<1>1. /\ send # Null /\ send \in Sent
      /\ UNCHANGED <<messages, uploads, typed, sends, spared, upload, user, waiting, draft, files>>
      /\ send' = [send EXCEPT !.reply = "lost"]
  BY DEF LoseSend, core, screen, server, history, IInv, Typed
<1>2. /\ send'.key = send.key /\ send'.text = send.text /\ send'.files = send.files
      /\ send'.reply = "lost" /\ send' \in Sent
  BY <1>1 DEF Sent, Replies
<1>3. send' # Null /\ "lost" # Null
  BY <1>2, NoRecord, ComposerAssumption
<1>4. \A w \in waiting : Spoilt(w)' = Spoilt(w)
  BY <1>1 DEF Spoilt, Bindable
<1>5. \A t \in Texts, k \in Keys : Carries(k, t)' => Carries(k, t)
  BY <1>1, <1>2, <1>4 DEF Carries
<1>6. OneKey' /\ DraftNew'
  BY <1>1, <1>2, <1>3, <1>5 DEF OInv, OneKey, DraftNew
<1>7. KeysOK' /\ FilesOK' /\ AnsweredOK'
  BY <1>1, <1>2, <1>3 DEF OInv, KeysOK, FilesOK, AnsweredOK
<1> QED
  BY <1>6, <1>7 DEF OInv

LEMMA RetryOnce ==
  ASSUME IInv, OInv, NEW w \in waiting, Retry(w)
  PROVE  OInv'
<1>1. /\ w \in Item /\ cookie # Null /\ typed[w.text] = cookie
      /\ UNCHANGED <<user, draft, files, send, upload, sends, typed, spared>>
      /\ waiting' = waiting \ {w}
  BY DEF Retry, screen, history, IInv, Typed, WaitingOK, CookieOK
<1>2. CASE UNCHANGED server
  <2>1. UNCHANGED <<messages, uploads>>
    BY <1>2 DEF server
  <2>2. Lasting
    BY <1>1, <2>1, Still
  <2>3. FilesOK'
    BY <1>1, <2>2, FilesStay DEF OInv
  <2> QED
    BY <1>1, <2>1, <2>2, <2>3, QuietKeeps
<1>3. ASSUME NEW m, m = [by |-> cookie, key |-> w.key, room |-> w.room, text |-> w.text,
                         files |-> w.files],
             Stores(m), Stored(m)
      PROVE  OInv'
  <2>1. m.key = w.key /\ m.text = w.text /\ m.by = cookie /\ m.room = w.room /\ m.files = w.files
    BY <1>3
  <2>2. w.key \in Keys /\ w.text \in Texts /\ w.files \subseteq Files
    BY <1>1 DEF Item
  <2>3. /\ Lasting /\ messages'[w.key].text = w.text
        /\ \A k \in Keys \ {w.key} : messages'[k] = messages[k]
    BY <1>1, <1>3, <2>1, <2>2, StoringLasts
  <2>4. ~Spoilt(w)
    BY <1>1, <1>3, <2>1 DEF Stores, Spoilt, Bindable
  <2>5. \A v \in waiting : Spoilt(v) => Spoilt(v)'
    <3>1. \A v \in waiting : v.files \subseteq Files /\ v.text \in Texts /\ typed[v.text] # Null
      BY DEF IInv, Typed, Item, WaitingOK
    <3> QED
      BY <2>3, <3>1, SpoiltStays
  <2>6. \A t \in Texts, k \in Keys : Carries(k, t)' => Carries(k, t)
    BY <1>1, <2>3, <2>4, <2>5 DEF Carries
  <2>7. OneKey' /\ DraftNew'
    BY <1>1, <2>6, Fewer DEF OInv, DraftNew
  <2>8. KeysOK'
    <3>1. send # Null => send.key \in Keys
      BY DEF IInv, Typed, Sent
    <3>2. w.key <= sends /\ (send # Null => w.key # send.key)
      BY DEF OInv, KeysOK
    <3> QED
      BY <1>1, <2>2, <2>3, <3>1, <3>2 DEF OInv, KeysOK
  <2>9. FilesOK'
    BY <1>1, <2>3, FilesStay DEF OInv
  <2>10. send # Null /\ send.reply = "refused" => Spoilt(send)'
    <3> SUFFICES ASSUME send # Null, send.reply = "refused"
                 PROVE  Spoilt(send)'
      OBVIOUS
    <3>1. PICK q : q = send
      OBVIOUS
    <3>2. q.files \subseteq Files /\ q.text \in Texts /\ typed[q.text] # Null /\ Spoilt(q)
      BY <3>1 DEF IInv, Typed, Sent, SendOK, OInv, AnsweredOK
    <3>3. Spoilt(q)'
      BY <2>3, <3>2, SpoiltStays
    <3> QED
      BY <1>1, <3>1, <3>3 DEF Spoilt
  <2>11. AnsweredOK'
    BY <1>1, <2>10 DEF OInv, AnsweredOK
  <2> QED
    BY <2>7, <2>8, <2>9, <2>11 DEF OInv
<1> QED
  BY <1>2, <1>3 DEF Retry

LEMMA StepsOnce ==
  ASSUME IInv, OInv, [Next]_vars
  PROVE  OInv'
<1>1. CASE UNCHANGED vars
  <2>1. UNCHANGED <<messages, send, sends, spared, uploads, typed, user, waiting, draft, files, upload>>
    BY <1>1 DEF vars, core, screen, server, history
  <2>2. Lasting
    BY <2>1, Still
  <2>3. FilesOK'
    BY <2>1, <2>2, FilesStay DEF OInv
  <2> QED
    BY <2>1, <2>2, <2>3, QuietKeeps
<1>2. CASE Entering
  BY <1>2, PeopleOnce DEF Entering
<1>3. CASE Sending
  BY <1>3, ServeSendOnce, TakeSendOnce, TakeLateOnce DEF Sending
<1> QED
  BY <1>1, <1>2, <1>3, PeopleOnce, ScreenOnce, UploadOnce, TypeOnce, SubmitOnce, LoseSendOnce,
     RetryOnce DEF Next

\* The keys that hold a text, or still may, and the draft that is not under one yet.
THEOREM OneKeyInductive == Spec => []OInv
<1>1. Init => OInv
  BY DEF Init, OInv, KeysOK, FilesOK, AnsweredOK, OneKey, DraftNew, Carries
<1>2. IInv /\ OInv /\ [Next]_vars => OInv'
  BY StepsOnce
<1> QED
  BY <1>1, <1>2, Inductive, PTL DEF Spec

\* A text is stored under one key, unless the server put one of its sends off.
THEOREM TextsOnce == Spec => []StoredOnce
<1>1. IInv /\ OInv => StoredOnce
  <2> SUFFICES ASSUME IInv, OInv, NEW j \in Keys, NEW k \in Keys,
                      messages[j] # Null, messages[k] # Null,
                      messages[j].text = messages[k].text, messages[j].text \notin spared
               PROVE  j = k
    BY DEF StoredOnce
  <2>1. messages[j].text \in Texts
    BY DEF IInv, Typed, Message
  <2>2. Carries(j, messages[j].text) /\ Carries(k, messages[j].text)
    BY DEF Carries
  <2> QED
    BY <2>1, <2>2 DEF OInv, OneKey
<1> QED
  BY <1>1, Inductive, OneKeyInductive, PTL
=============================================================================
