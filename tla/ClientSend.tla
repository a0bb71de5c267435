----------------------------- MODULE ClientSend -----------------------------
(***************************************************************************)
(* The sending half of packages/client-core, under the screen of           *)
(* packages/client-react: signing in and out by generations, messages that *)
(* wait for their answer, their retry timers, and the answers of requests  *)
(* of this and of earlier generations in any order. The server stores a    *)
(* message once per key (MessageStore); the recovery of the history is     *)
(* ClientSync's and appears here by what it does to waiting messages.      *)
(*                                                                         *)
(* One tab of one browser: the session cookie goes with every request. A   *)
(* user sees no messages but their own. Tombstones are left out.           *)
(***************************************************************************)
EXTENDS Integers, FiniteSets

CONSTANTS
  Keys,          \* messages a user may write, by their clientMessageId
  Users,
  Requests,      \* requests that may be under way at once
  FirstSession,  \* whose session the browser has when the page is opened, or Null
  RetryDays,     \* 7
  MaxTime, MaxGen,  \* bounds on the days, and on the generations that are begun and synchronised
  Null

ASSUME ClientSendAssumption ==
  /\ FirstSession \in Users \cup {Null}
  /\ RetryDays \in Nat \ {0} /\ MaxTime \in Nat /\ MaxGen \in Nat
  /\ Null \notin Users \cup {"ok"} \cup [user : Users, gen : Nat, at : Nat]

VARIABLES
  gen,           \* generation
  user,          \* snapshot.user
  pending,       \* snapshot.pending: "none", "pending" or "failed"
  shown,         \* the keys of snapshot.messages
  synced,        \* snapshot.syncCursor # null
  timers,        \* messageRetryTimers
  requests,      \* what is under way, with the answer once there is one
  stored,        \* the server's messages: [key, user]
  cookie,        \* whose session the browser has
  time,          \* in days
  written,       \* history: by whom, when and in which generation a message was written
  refused,       \* history: messages whose retry was refused
  crossed        \* history: the last generation a reset of an earlier one was carried out in

client == <<gen, user, pending, shown, synced, timers>>
history == <<written, refused, crossed>>
vars == <<client, requests, stored, cookie, time, history>>

Free == [op |-> "free", screen |-> FALSE]

\* The request asked now by a call of generation g. The screen waits for its answer if it
\* belongs to a handleLogin().
Call(op, g, key, who, screen) ==
  [op |-> op, gen |-> g, asked |-> gen', key |-> key, who |-> who, screen |-> screen,
   heard |-> FALSE, reply |-> Null, keys |-> {}]

Open(ops) == {r \in Requests : requests[r].op \in ops}

LoginBusy == \E r \in Requests : requests[r].screen
ActionBusy == Open({"logout"}) # {}

\* Seeded bugs: GET /me, or the snapshot, is used whose generation is over.
FreshOrMe(q) == q.gen = gen \/ q.op = "me"
FreshOrLoad(q) == q.gen = gen \/ q.op = "load"

\* current(g)
Fresh(q) == q.gen = gen

\* What request() gives its caller: it compares its own generation when the headers are
\* there, and not again once it has awaited the body.
Answer(q) == IF q.heard \/ q.asked = gen THEN q.reply ELSE "unauthorized"

\* Seeded bug: a message is retried for ever.
TooOldNever(k) == FALSE

\* The waiting of a message is over: seven days since it was written.
TooOld(k) == time - written[k].at >= RetryDays
-----------------------------------------------------------------------------
(* What the handlers do to the client's state *)

PendingEmpty == [k \in Keys |-> "none"]

\* clearMessageRetries()
TimersCleared == {}

\* The head of login, resumeSession and logout.
NewGeneration ==
  /\ gen' = gen + 1
  /\ user' = Null /\ pending' = PendingEmpty /\ shown' = {} /\ synced' = FALSE
  /\ timers' = TimersCleared

\* publish(emptySnapshot(g))
EmptySnapshot ==
  /\ user' = Null /\ pending' = PendingEmpty /\ shown' = {} /\ synced' = FALSE
  /\ UNCHANGED <<gen, timers>>

\* mergeMessage() of each of some messages
Merge(ks) ==
  /\ shown' = shown \cup ks
  /\ pending' = [k \in Keys |-> IF k \in ks THEN "none" ELSE pending[k]]
  /\ timers' = timers \ ks
  /\ UNCHANGED <<gen, user>>

\* An item that is still there is marked.
Fail(k) == pending' = [pending EXCEPT ![k] = IF @ = "none" THEN @ ELSE "failed"]

\* scheduleMessageRetry()
Schedule(k) ==
  /\ \/ /\ pending[k] = "none" \/ user = Null \/ k \in timers
        /\ UNCHANGED <<pending, timers>>
     \/ /\ pending[k] # "none" /\ user # Null /\ k \notin timers
        /\ IF TooOld(k) THEN Fail(k) /\ UNCHANGED timers
           ELSE timers' = timers \cup {k} /\ UNCHANGED pending
  /\ UNCHANGED <<gen, user, shown, synced>>

Ask(r, op, key, who) ==
  /\ requests[r] = Free
  /\ requests' = [requests EXCEPT ![r] = Call(op, gen', key, who, op = "login")]
-----------------------------------------------------------------------------
(* The user and the timers *)

\* The page asks whose session it has as soon as it is there, beside the login form.
Resume(r) ==
  /\ gen = 0
  /\ NewGeneration
  /\ Ask(r, "me", Null, cookie)
  /\ UNCHANGED <<stored, cookie, time, history>>

\* handleLogin() with login(): nothing in it waits for resumeSession().
Login(r, u) ==
  /\ user = Null /\ ~LoginBusy /\ ~ActionBusy /\ gen < MaxGen
  /\ NewGeneration
  /\ Ask(r, "login", Null, u)
  /\ UNCHANGED <<stored, cookie, time, history>>

\* handleLogout() with logout().
Logout(r) ==
  /\ user # Null /\ ~ActionBusy /\ gen < MaxGen
  /\ NewGeneration
  /\ Ask(r, "logout", Null, cookie)
  /\ UNCHANGED <<stored, cookie, time, history>>

\* handleSend() with sendMessage(). The bound leaves each message its seven days.
Send(r, k) ==
  /\ user # Null /\ Open({"send"}) = {}
  /\ written[k] = Null /\ time + RetryDays <= MaxTime
  /\ written' = [written EXCEPT ![k] = [user |-> user, gen |-> gen, at |-> time]]
  /\ pending' = [pending EXCEPT ![k] = "pending"]
  /\ UNCHANGED <<gen, user, shown, synced, timers>>
  /\ Ask(r, "send", k, cookie)
  /\ UNCHANGED <<stored, cookie, time, refused, crossed>>

\* handleRetry() with retryMessage(): the item is marked as failed and stays so.
Retry(r, k) ==
  /\ user # Null /\ pending[k] = "failed" /\ ~TooOld(k)
  /\ UNCHANGED client
  /\ Ask(r, "retry", k, cookie)
  /\ UNCHANGED <<stored, cookie, time, history>>

\* The timer's callback, and retryMessage() which it calls.
RetryFires(k) ==
  /\ k \in timers
  /\ timers' = timers \ {k}
  /\ UNCHANGED <<gen, user, shown, synced>>
  /\ \/ TooOld(k) /\ Fail(k) /\ UNCHANGED requests
     \/ /\ ~TooOld(k) /\ (pending[k] = "none" \/ user = Null)
        /\ UNCHANGED <<pending, requests>>
     \/ /\ ~TooOld(k) /\ pending[k] # "none" /\ user # Null
        /\ \E r \in Requests : Ask(r, "retry", k, cookie)
        /\ UNCHANGED pending
  /\ UNCHANGED <<stored, cookie, time, history>>

\* The timer, the window's activation or a ready frame: sync().
Sync(r) ==
  /\ synced /\ gen < MaxGen
  /\ UNCHANGED client
  /\ Ask(r, "sync", Null, cookie)
  /\ UNCHANGED <<stored, cookie, time, history>>

\* A ready frame without a cursor, on the socket that opens after the load: loadSnapshot().
Reload(r) ==
  /\ user # Null /\ ~synced /\ \A s \in Open({"load"}) : ~Fresh(requests[s])
  /\ UNCHANGED client
  /\ Ask(r, "reload", Null, cookie)
  /\ UNCHANGED <<stored, cookie, time, history>>

\* A message's event arrives live.
Event(k) ==
  /\ synced /\ [key |-> k, user |-> user] \in stored
  /\ Merge({k}) /\ UNCHANGED synced
  /\ UNCHANGED <<requests, stored, cookie, time, history>>
-----------------------------------------------------------------------------
(* The server *)

\* Requests whose answer has messages in it.
Lists == {"load", "reload", "sync", "reset"}
Own(q) == {k \in Keys : [key |-> k, user |-> q.who] \in stored}

\* A session may have expired; elsewhere an error is as good as no answer. A message is refused if
\* it is not stored yet (its attachment has gone); if it is, it may have expired, or its
\* attachment, which makes the retry a conflict.
Replies(q) ==
  (IF q.op \in {"send", "retry", "sync"} THEN {"unauthorized"} ELSE {})
    \cup (IF q.who = Null THEN {} ELSE {"ok"})
    \cup (IF q.op = "sync" /\ q.who # Null THEN {"reset"} ELSE {})
    \cup (IF q.op \in {"send", "retry"} /\ q.who # Null
          THEN IF q.key \in Own(q) THEN {"expired"} ELSE {"refused"} ELSE {})

Serve(r) ==
  LET q == requests[r]
  IN /\ q.op \notin {"free", "orphan"} /\ q.reply = Null
     /\ \E a \in Replies(q) :
          requests' = [requests EXCEPT ![r].reply = a,
                         ![r].keys = IF a = "ok" /\ q.op \in Lists THEN Own(q) ELSE {}]
     /\ stored' = IF q.op \in {"send", "retry"} /\ requests'[r].reply = "ok"
                  THEN stored \cup {[key |-> q.key, user |-> q.who]} ELSE stored
     /\ UNCHANGED <<client, cookie, time, history>>

\* A message the client gave up waiting for may still reach the server.
ServeOrphan(r) ==
  LET q == requests[r]
  IN /\ q.op = "orphan"
     /\ \/ q.who # Null /\ stored' = stored \cup {[key |-> q.key, user |-> q.who]}
        \/ UNCHANGED stored
     /\ requests' = [requests EXCEPT ![r] = Free]
     /\ UNCHANGED <<client, cookie, time, history>>
-----------------------------------------------------------------------------
(* An answer: what follows the await of each caller of request() *)

\* The browser takes the cookie of an answer's headers whoever waits for it.
CookieOf(q) ==
  IF q.heard \/ q.reply # "ok" THEN cookie
  ELSE IF q.op = "login" THEN q.who
  ELSE IF q.op = "logout" THEN Null
  ELSE cookie

\* The headers are there and the generation is the one that asked; the body is awaited.
\* What the other callers do is the same for a generation that ends before the headers and
\* one that ends before the body.
Head(r) ==
  LET q == requests[r]
  IN /\ q.op \in {"login", "me", "load", "reload", "sync", "reset"}
     /\ q.reply # Null /\ ~q.heard /\ q.asked = gen
     /\ requests' = [requests EXCEPT ![r].heard = TRUE]
     /\ cookie' = CookieOf(q)
     /\ UNCHANGED <<client, stored, time, history>>

Over(r) == requests' = [requests EXCEPT ![r] = Free]

\* The caller goes on with another request: of its generation, asked in the present one.
Then(r, op) ==
  LET q == requests[r]
  IN requests' = [requests EXCEPT ![r] =
                    Call(op, q.gen, Null, cookie', q.screen /\ op \in {"me", "load"})]

\* The errors a message is marked for.
Lasts(q) == q.reply = "expired" \/ (q.reply = "refused" /\ q.op = "send")

\* sendMessage() and retryMessage(); 401 signs out without asking the server.
TakeSend(r) ==
  LET q == requests[r]
      k == q.key
      refusal == q.reply = "refused" /\ q.op = "retry"
  IN /\ q.op \in {"send", "retry"} /\ q.reply # Null
     /\ \/ ~Fresh(q) /\ UNCHANGED client
        \/ Fresh(q) /\ q.reply = "ok" /\ Merge({k}) /\ UNCHANGED synced
        \/ Fresh(q) /\ Lasts(q) /\ Fail(k) /\ UNCHANGED <<gen, user, shown, synced, timers>>
        \/ Fresh(q) /\ refusal /\ UNCHANGED client
        \/ Fresh(q) /\ q.reply = "unauthorized" /\ NewGeneration
     /\ refused' = IF refusal THEN refused \cup {k} ELSE refused
     /\ Over(r)
     /\ UNCHANGED <<stored, cookie, time, written, crossed>>

\* login() asks for GET /me whether its generation is over or not.
TakeLogin(r) ==
  LET q == requests[r]
  IN /\ q.op = "login" /\ q.reply # Null
     /\ cookie' = CookieOf(q)
     /\ \/ Answer(q) = "ok" /\ UNCHANGED client /\ Then(r, "me")
        \/ Answer(q) # "ok" /\ ~Fresh(q) /\ UNCHANGED client /\ Over(r)
        \/ Answer(q) # "ok" /\ Fresh(q) /\ EmptySnapshot /\ Over(r)
     /\ UNCHANGED <<stored, time, history>>

\* GET /me names the user, whose snapshot is loaded next.
TakeMe(r) ==
  LET q == requests[r]
  IN /\ q.op = "me" /\ q.reply # Null
     /\ UNCHANGED <<stored, cookie, time, history>>
     /\ \/ ~Fresh(q) /\ UNCHANGED client /\ Over(r)
        \/ /\ Fresh(q) /\ Answer(q) = "ok"
           /\ user' = q.who /\ UNCHANGED <<gen, pending, shown, synced, timers>>
           /\ Then(r, "load")
        \/ Fresh(q) /\ Answer(q) # "ok" /\ EmptySnapshot /\ Over(r)

\* loadSnapshot() publishes its messages and leaves those that wait alone.
Loaded(q) ==
  /\ shown' = q.keys /\ synced' = TRUE
  /\ UNCHANGED <<gen, user, pending, timers>>

\* The load of login() and resumeSession(), whose failure undoes the login.
TakeLoad(r) ==
  LET q == requests[r]
  IN /\ q.op = "load" /\ q.reply # Null
     /\ \/ Fresh(q) /\ Answer(q) = "ok" /\ Loaded(q)
        \/ Fresh(q) /\ Answer(q) # "ok" /\ EmptySnapshot
        \/ ~Fresh(q) /\ UNCHANGED client
     /\ Over(r)
     /\ UNCHANGED <<stored, cookie, time, history>>

\* The load of a ready frame, which sync() follows whatever the generation.
TakeReload(r) ==
  LET q == requests[r]
  IN /\ q.op = "reload" /\ q.reply # Null
     /\ IF Fresh(q) /\ Answer(q) = "ok" THEN Loaded(q) ELSE UNCHANGED client
     /\ UNCHANGED <<stored, cookie, time, history>>
     /\ IF Answer(q) = "ok" THEN Then(r, "sync") ELSE Over(r)

\* sync(). Its pages stop at a generation that is over; a 401, which request() also answers
\* to such a generation, signs out whoever it is; and a reset empties the snapshot, its
\* waiting messages included, and keeps the user and the timers, whoever they are.
TakeSync(r) ==
  LET q == requests[r]
  IN /\ q.op = "sync" /\ q.reply # Null
     /\ UNCHANGED <<stored, cookie, time, written, refused>>
     /\ \/ /\ Answer(q) = "unauthorized"
           /\ NewGeneration /\ Over(r) /\ UNCHANGED crossed
        \/ /\ Answer(q) = "reset"
           /\ pending' = PendingEmpty /\ shown' = {} /\ synced' = FALSE
           /\ UNCHANGED <<gen, user, timers>>
           /\ crossed' = IF Fresh(q) THEN crossed ELSE gen
           /\ Then(r, "reset")
        \/ /\ Fresh(q) /\ Answer(q) = "ok"
           /\ \E ks \in SUBSET q.keys : Merge(ks)
           /\ synced' = TRUE
           /\ Over(r) /\ UNCHANGED crossed
        \/ /\ ~Fresh(q) /\ Answer(q) = "ok"
           /\ UNCHANGED client /\ Over(r) /\ UNCHANGED crossed

\* After the load of a reset, the sync of a ready frame goes on from the frame's cursor and
\* any other drops the cursor; the generation counts for what is shown only.
TakeReset(r) ==
  LET q == requests[r]
  IN /\ q.op = "reset" /\ q.reply # Null
     /\ UNCHANGED <<stored, cookie, time, written, refused>>
     /\ \/ /\ Answer(q) # "ok"
           /\ UNCHANGED client /\ Over(r) /\ UNCHANGED crossed
        \/ /\ Answer(q) = "ok"
           /\ shown' = IF Fresh(q) THEN q.keys ELSE shown
           /\ UNCHANGED <<gen, user, pending, timers>>
           /\ crossed' = IF Fresh(q) THEN crossed ELSE gen
           /\ \/ synced' = TRUE /\ Then(r, "sync")
              \/ synced' = FALSE /\ Over(r)

TakeLogout(r) ==
  LET q == requests[r]
  IN /\ q.op = "logout" /\ q.reply # Null
     /\ cookie' = CookieOf(q)
     /\ Over(r)
     /\ UNCHANGED <<client, stored, time, history>>

\* No answer, or one that says nothing: the network fails, the client stops waiting, or the
\* server is busy. A late answer to anything but a message changes nothing any more.
Lose(r) ==
  LET q == requests[r]
  IN /\ q.op \notin {"free", "orphan"}
     /\ \/ /\ ~Fresh(q) \/ q.op \in {"sync", "reload", "reset", "logout"}
           /\ UNCHANGED client
        \/ Fresh(q) /\ q.op \in {"send", "retry"} /\ Schedule(q.key)
        \/ Fresh(q) /\ q.op \in {"login", "me", "load"} /\ EmptySnapshot
     /\ requests' = [requests EXCEPT ![r] =
          IF q.op \in {"send", "retry"} /\ q.reply = Null THEN [q EXCEPT !.op = "orphan"] ELSE Free]
     /\ UNCHANGED <<stored, cookie, time, history>>

Take(r) ==
  \/ TakeSend(r) \/ TakeLogin(r) \/ TakeMe(r) \/ TakeLoad(r) \/ TakeReload(r)
  \/ TakeSync(r) \/ TakeReset(r) \/ TakeLogout(r) \/ Lose(r)
-----------------------------------------------------------------------------
Tick ==
  /\ time < MaxTime
  /\ time' = time + 1
  /\ UNCHANGED <<client, requests, stored, cookie, history>>

Init ==
  /\ gen = 0 /\ user = Null /\ pending = [k \in Keys |-> "none"] /\ shown = {} /\ synced = FALSE
  /\ timers = {}
  /\ requests = [r \in Requests |-> Free]
  /\ stored = {} /\ cookie = FirstSession /\ time = 0
  /\ written = [k \in Keys |-> Null] /\ refused = {} /\ crossed = 0

Next ==
  \/ \E r \in Requests :
       \/ Resume(r) \/ Logout(r) \/ Sync(r) \/ Reload(r)
       \/ Serve(r) \/ ServeOrphan(r) \/ Head(r) \/ Take(r)
       \/ \E u \in Users : Login(r, u)
       \/ \E k \in Keys : Send(r, k) \/ Retry(r, k)
  \/ \E k \in Keys : RetryFires(k) \/ Event(k)
  \/ Tick

Spec == Init /\ [][Next]_vars

\* Timers fire, a request is answered or given up, and days pass.
FairSpec ==
  /\ Spec
  /\ \A r \in Requests : WF_vars(Take(r))
  /\ \A k \in Keys : WF_vars(RetryFires(k))
  /\ WF_vars(Tick)
-----------------------------------------------------------------------------
(* Properties *)

Request ==
  [op : {"login", "me", "load", "logout", "send", "retry", "orphan", "sync", "reload", "reset"},
   gen : Nat, asked : Nat, key : Keys \cup {Null}, who : Users \cup {Null},
   screen : BOOLEAN, heard : BOOLEAN,
   reply : {Null, "ok", "unauthorized", "reset", "refused", "expired"},
   keys : SUBSET Keys]

TypeOK ==
  /\ gen \in Nat /\ user \in Users \cup {Null} /\ cookie \in Users \cup {Null}
  /\ pending \in [Keys -> {"none", "pending", "failed"}]
  /\ shown \subseteq Keys /\ synced \in BOOLEAN
  /\ requests \in [Requests -> {Free} \cup Request]
  /\ stored \subseteq [key : Keys, user : Users] /\ time \in 0..MaxTime
  /\ written \in [Keys -> {Null} \cup [user : Users, gen : Nat, at : 0..MaxTime]]
  /\ refused \subseteq Keys /\ crossed \in 0..gen
  /\ timers \subseteq {k \in Keys : written[k] # Null}
  /\ synced /\ crossed # gen => user # Null

\* Whatever is retried, answered late or signed out in between, a message is stored for
\* the user who wrote it, once (clientMessageId, credentials of the retry).
StoredForAuthor == \A m \in stored : written[m.key].user = m.user

\* Neither a waiting message nor its timer, its retries nor the messages on the screen
\* outlive the generation they belong to, and what is read for the screen is read for the
\* user who is signed in (login, logout, current(g)). A generation in which the reset of an
\* earlier one was carried out may show what that left.
Isolated ==
  /\ \A k \in Keys : pending[k] # "none" \/ k \in timers => written[k].gen = gen
  /\ \A k \in shown : user # Null /\ crossed # gen => written[k].user = user
  /\ \A r \in Requests : requests[r].op \in {"send", "retry"} =>
       requests[r].gen = written[requests[r].key].gen
  /\ \A r \in Requests : requests[r].op \in Lists /\ requests[r].gen = gen /\ crossed # gen =>
       user # Null /\ \A k \in requests[r].keys : written[k].user = user

\* A message that waits is confirmed or fails some time, unless a retry was refused.
Settles ==
  \A k \in Keys : pending[k] = "pending" ~> (pending[k] # "pending" \/ k \in refused)

\* An answer to a request of an earlier generation changes nothing of the client, for the
\* user who is signed in by then.
LateAnswersIgnored ==
  [][\A r \in Requests : user # Null /\ requests[r] # Free /\ requests'[r] # requests[r]
       /\ ~Fresh(requests[r]) => UNCHANGED client]_vars
=============================================================================
