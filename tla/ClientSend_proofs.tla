------------------------- MODULE ClientSend_proofs -------------------------
(***************************************************************************)
(* Theorems about ClientSend, for any messages, users, requests under way  *)
(* and generations.                                                        *)
(***************************************************************************)
EXTENDS ClientSend, TLAPS

Someone == Users \cup {Null}
Entering == {"login", "me", "load"}
Reading == {"load", "reload", "sync", "reset"}
History == {"reload", "sync", "reset"}

\* No reset of an earlier generation was carried out in this one.
Clean == crossed # gen

\* A fresh start: nothing on the screen, nothing written yet.
Blank ==
  /\ user = Null /\ (Clean => shown = {})
  /\ \A k \in Keys : written[k] # Null => written[k].gen < gen

\* What waits, and what it waits for, is of this generation, and of its user.
ClientOK ==
  /\ user # Null => gen # 0 /\ cookie \in {user, Null}
  /\ synced => gen # 0
  /\ \A k \in Keys : written[k] # Null => written[k].gen <= gen
  /\ \A k \in Keys : pending[k] # "none" \/ k \in timers =>
       written[k] # Null /\ written[k].gen = gen
  /\ \A k \in Keys : written[k] # Null /\ written[k].gen = gen /\ user # Null =>
       written[k].user = user
  /\ \A k \in shown : user # Null /\ Clean => written[k].user = user

RequestOK(r) ==
  LET q == requests[r]
  IN q \in Request =>
       /\ q.gen \in 1..gen
       /\ q.reply = "ok" => q.who # Null
       /\ \A k \in q.keys : [key |-> k, user |-> q.who] \in stored
       /\ q.op \in {"send", "retry", "orphan"} =>
            /\ q.key \in Keys /\ written[q.key] # Null
            /\ q.gen = written[q.key].gen /\ q.who \in {written[q.key].user, Null}
       /\ q.screen => q.op \in Entering
       /\ q.op \in Entering /\ ~q.screen => q.gen = 1
       /\ q.op = "login" => q.screen /\ user = Null
       /\ q.op = "me" /\ q.gen = gen => cookie \in {q.who, Null}
       /\ q.op \in {"login", "me"} /\ q.gen = gen => Blank
       /\ q.op \in Reading /\ q.gen = gen /\ Clean =>
            user # Null /\ q.who \in {user, Null}

\* A generation is entered once, and by one login at a time.
Alone ==
  \A r, s \in Requests :
    /\ requests[r].op \in Entering /\ requests[s].op \in Entering
    /\ requests[r].gen = requests[s].gen \/ (requests[r].screen /\ requests[s].screen)
    => r = s

\* Nothing else of the history is asked for while a generation's first snapshot loads.
LoadFirst ==
  \A r \in Requests : requests[r].op = "load" /\ requests[r].gen = gen /\ Clean =>
    ~synced /\ \A s \in Requests : requests[s].op \in History => requests[s].gen # gen

StoreOK == \A m \in stored : written[m.key] # Null /\ written[m.key].user = m.user

IInv ==
  TypeOK /\ ClientOK /\ (\A r \in Requests : RequestOK(r)) /\ Alone /\ LoadFirst /\ StoreOK
-----------------------------------------------------------------------------
LEMMA NotFree ==
  ASSUME TypeOK, NEW r \in Requests
  PROVE  /\ requests[r].op # "free" => requests[r] \in Request
         /\ requests[r] = Free \/ requests[r] \in Request
         /\ Free \notin Request /\ Free.op = "free"
BY DEF TypeOK, Request, Free

\* What an answer counts as is what the server said, or 401.
LEMMA AnswerOk ==
  ASSUME NEW q \in Request, Answer(q) = "ok"
  PROVE  q.reply = "ok"
BY DEF Answer

\* The state goes on in a way that leaves the request s as good as it was.
LEMMA RequestFrame ==
  ASSUME IInv, NEW s \in Requests, requests'[s] = requests[s], stored \subseteq stored',
         gen' \in Nat, gen' >= gen,
         \A k \in Keys : written[k] # Null => written'[k] = written[k],
         requests[s].op = "login" => user' = Null,
         requests[s].op = "me" /\ requests[s].gen = gen' => cookie' \in {cookie, Null},
         gen' = gen => crossed' \in {crossed, gen},
         requests[s].op \in {"login", "me"} /\ requests[s].gen = gen /\ gen' = gen => Blank',
         requests[s].op \in Reading /\ requests[s].gen = gen /\ gen' = gen /\ Clean' =>
           user' = user
  PROVE  RequestOK(s)'
<1>1. CASE requests[s] \notin Request
  BY <1>1 DEF RequestOK
<1>2. CASE requests[s] \in Request
  <2>1. RequestOK(s) /\ requests[s].gen \in Nat /\ gen \in Nat
    BY <1>2 DEF IInv, TypeOK, Request
  <2>2. requests[s].gen \in 1..gen' /\ (requests[s].gen = gen' => gen' = gen)
    BY <1>2, <2>1 DEF RequestOK
  <2>3. requests[s].gen = gen' /\ Clean' => Clean
    BY <2>2 DEF Clean
  <2> QED
    BY <1>2, <2>1, <2>2, <2>3 DEF RequestOK
<1> QED
  BY <1>1, <1>2
-----------------------------------------------------------------------------
(* Three kinds of steps: a new generation, an emptied snapshot, a calm one *)

LEMMA NewKeeps ==
  ASSUME IInv, NewGeneration, UNCHANGED <<stored, written, time, crossed>>, cookie' = cookie,
         refused' \subseteq Keys,
         NEW r \in Requests, \A s \in Requests \ {r} : requests'[s] = requests[s],
         requests' \in [Requests -> {Free} \cup Request], RequestOK(r)',
         requests'[r].op \in Entering =>
           requests'[r].gen = gen' /\ \A s \in Requests : ~requests[s].screen,
         requests'[r].op \notin Reading
  PROVE  IInv'
<1>1. /\ gen \in Nat /\ gen' = gen + 1 /\ gen' \in Nat /\ gen' > gen /\ gen' >= gen
      /\ user' = Null /\ pending' = [k \in Keys |-> "none"] /\ shown' = {} /\ synced' = FALSE
      /\ timers' = {}
  BY DEF NewGeneration, PendingEmpty, TimersCleared, IInv, TypeOK
<1>10. Clean' /\ crossed' \in 0..gen'
  BY <1>1 DEF Clean, IInv, TypeOK
<1>2. TypeOK'
  BY <1>1, <1>10 DEF IInv, TypeOK
<1>3. \A k \in Keys : written[k] # Null => written[k].gen \in Nat /\ written[k].gen <= gen
  BY DEF IInv, TypeOK, ClientOK
<1>4. ClientOK'
  <2>1. \A k \in Keys : written[k] # Null => written[k].gen <= gen' /\ written[k].gen # gen'
    BY <1>1, <1>3
  <2> QED
    BY <1>1, <2>1 DEF ClientOK
<1>5. Blank'
  <2>1. \A k \in Keys : written[k] # Null => written[k].gen < gen'
    BY <1>1, <1>3
  <2> QED
    BY <1>1, <2>1 DEF Blank
<1>6. \A s \in Requests : RequestOK(s)'
  <2> TAKE s \in Requests
  <2>1. CASE s = r
    BY <2>1
  <2>2. CASE s # r
    BY <1>1, <1>5, <2>2, RequestFrame
  <2> QED
    BY <2>1, <2>2
<1>11. \A s \in Requests : requests[s].op # "free" => requests[s].gen \in 1..gen
  BY NotFree DEF IInv, RequestOK
<1>7. Alone'
  <2> SUFFICES ASSUME NEW s \in Requests, NEW t \in Requests, s # t,
                      requests'[s].op \in Entering, requests'[t].op \in Entering,
                      \/ requests'[s].gen = requests'[t].gen
                      \/ requests'[s].screen /\ requests'[t].screen
               PROVE  FALSE
    BY DEF Alone
  <2>1. CASE s # r /\ t # r
    BY <2>1 DEF IInv, Alone
  <2>2. CASE s = r
    BY <1>1, <1>11, <2>2 DEF Entering
  <2>3. CASE t = r
    BY <1>1, <1>11, <2>3 DEF Entering
  <2> QED
    BY <2>1, <2>2, <2>3
<1>8. LoadFirst'
  <2>1. \A s \in Requests \ {r} : requests[s].op = "load" => requests[s].gen # gen'
    BY <1>1, <1>11
  <2> QED
    BY <2>1 DEF LoadFirst, Reading
<1>9. StoreOK'
  BY DEF IInv, StoreOK
<1> QED
  BY <1>2, <1>4, <1>6, <1>7, <1>8, <1>9 DEF IInv

LEMMA EmptyKeeps ==
  ASSUME IInv, EmptySnapshot, UNCHANGED <<stored, written, time, refused, crossed>>,
         cookie' \in Someone,
         NEW r \in Requests, requests' = [requests EXCEPT ![r] = Free],
         requests[r].op \in Entering, requests[r].gen = gen
  PROVE  IInv'
<1>1. /\ gen' = gen /\ gen \in Nat /\ user' = Null /\ pending' = [k \in Keys |-> "none"]
      /\ shown' = {} /\ synced' = FALSE /\ timers' = timers
  BY DEF EmptySnapshot, PendingEmpty, IInv, TypeOK
<1>2. /\ requests' \in [Requests -> {Free} \cup Request] /\ requests'[r] = Free
      /\ \A s \in Requests \ {r} : requests'[s] = requests[s]
  BY DEF IInv, TypeOK
<1>3. TypeOK'
  BY <1>1, <1>2 DEF IInv, TypeOK, Someone
<1>4. ClientOK'
  BY <1>1 DEF IInv, ClientOK
<1>5. ASSUME NEW s \in Requests \ {r}, requests[s].op \in Reading, Clean
      PROVE  requests[s].gen # gen
  <2>1. /\ requests[s] \in Request /\ RequestOK(s) /\ requests[r] \in Request /\ RequestOK(r)
    BY <1>5, NotFree DEF IInv, Entering, Reading
  <2>2. CASE requests[r].op = "load"
    BY <1>5, <2>2 DEF IInv, LoadFirst, Alone, Entering, Reading, History
  <2>3. CASE requests[r].op \in {"login", "me"}
    <3>1. user = Null
      BY <2>1, <2>3 DEF RequestOK, Blank
    <3> QED
      BY <1>5, <2>1, <3>1 DEF RequestOK
  <2> QED
    BY <2>2, <2>3 DEF Entering
<1>6. \A s \in Requests : RequestOK(s)'
  <2> TAKE s \in Requests
  <2>1. CASE s = r
    BY <1>2, <2>1, NotFree DEF IInv, RequestOK
  <2>2. CASE s # r
    <3>1. requests[s].op \in {"login", "me"} => requests[s].gen # gen
      BY <2>2 DEF IInv, Alone, Entering
    <3>2. Clean' => Clean
      BY <1>1 DEF Clean
    <3> QED
      BY <1>1, <1>2, <1>5, <2>2, <3>1, <3>2, RequestFrame
  <2> QED
    BY <2>1, <2>2
<1>7. Alone' /\ LoadFirst'
  <2>1. Free.op = "free" /\ (Clean' => Clean)
    BY <1>1 DEF Free, Clean
  <2> QED
    BY <1>1, <1>2, <2>1 DEF IInv, Alone, LoadFirst, Entering, History
<1>8. StoreOK'
  BY DEF IInv, StoreOK
<1> QED
  BY <1>3, <1>4, <1>6, <1>7, <1>8 DEF IInv

\* The client's state gets no worse for a message.
Calm ==
  /\ UNCHANGED <<gen, user, written>> /\ cookie' \in {cookie, Null}
  /\ pending' \in [Keys -> {"none", "pending", "failed"}]
  /\ timers' \subseteq Keys /\ shown' \subseteq Keys /\ synced' \in BOOLEAN
  /\ crossed' \in {crossed, gen} /\ (synced' => synced \/ gen # 0)
  /\ \A k \in Keys : pending'[k] # "none" \/ k \in timers' => pending[k] # "none" \/ k \in timers
  /\ Clean' =>
       /\ \A k \in shown' : user # Null => written[k].user = user
       /\ Blank => shown' = {}
       /\ synced' /\ ~synced =>
            /\ user # Null
            /\ \A s \in Requests : requests[s].op = "load" => requests[s].gen # gen

LEMMA CalmClient ==
  ASSUME IInv, Calm
  PROVE  /\ ClientOK'
         /\ timers' \subseteq {k \in Keys : written'[k] # Null}
         /\ synced' /\ Clean' => user' # Null
         /\ Blank => Blank'
         /\ crossed' \in 0..gen' /\ (Clean' => Clean)
<1>1. /\ UNCHANGED <<gen, user, written>> /\ cookie' \in {cookie, Null} /\ (Clean' => Clean)
      /\ crossed' \in 0..gen'
  BY DEF Calm, Clean, IInv, TypeOK
<1>2. \A k \in Keys : pending'[k] # "none" \/ k \in timers' =>
        written[k] # Null /\ written[k].gen = gen
  BY DEF Calm, IInv, ClientOK
<1>3. ClientOK'
  BY <1>1, <1>2 DEF Calm, IInv, ClientOK
<1>4. synced' /\ Clean' => user' # Null
  BY <1>1 DEF Calm, IInv, TypeOK, Clean
<1>5. timers' \subseteq {k \in Keys : written'[k] # Null}
  BY <1>1, <1>2 DEF Calm
<1>6. Blank => Blank'
  BY <1>1 DEF Calm, Blank
<1> QED
  BY <1>1, <1>3, <1>4, <1>5, <1>6

\* A calm step with what it does to the request r and to the server.
LEMMA CalmKeeps ==
  ASSUME IInv, Calm, time' \in 0..MaxTime, refused' \subseteq Keys,
         stored \subseteq stored', stored' \subseteq [key : Keys, user : Users], StoreOK',
         NEW r \in Requests, \A s \in Requests \ {r} : requests'[s] = requests[s],
         requests' \in [Requests -> {Free} \cup Request], RequestOK(r)',
         requests'[r].op \in Entering =>
           /\ requests[r].op = requests'[r].op /\ requests[r].gen = requests'[r].gen
           /\ requests[r].screen = requests'[r].screen,
         requests'[r].op \in History /\ requests'[r].gen = gen /\ Clean =>
           \/ requests[r].op \in History /\ requests[r].gen = gen
           \/ \A s \in Requests : requests[s].op = "load" => requests[s].gen # gen
  PROVE  IInv'
<1>1. /\ ClientOK' /\ timers' \subseteq {k \in Keys : written'[k] # Null}
      /\ synced' /\ Clean' => user' # Null
      /\ Blank => Blank'
      /\ crossed' \in 0..gen' /\ (Clean' => Clean)
  BY CalmClient
<1>2. /\ gen' = gen /\ user' = user /\ written' = written /\ gen' \in Nat /\ gen' >= gen
      /\ cookie' \in {cookie, Null} /\ synced' \in BOOLEAN /\ crossed' \in {crossed, gen}
      /\ pending' \in [Keys -> {"none", "pending", "failed"}] /\ shown' \subseteq Keys
  BY DEF Calm, IInv, TypeOK
<1>3. TypeOK'
  BY <1>1, <1>2 DEF IInv, TypeOK, Clean
<1>4. \A s \in Requests : RequestOK(s)'
  <2> TAKE s \in Requests
  <2>1. CASE s = r
    BY <2>1
  <2>2. CASE s # r
    <3>1. requests[s].op \in {"login", "me"} /\ requests[s].gen = gen => Blank
      BY NotFree DEF IInv, RequestOK
    <3>2. requests[s].op = "login" => user = Null
      BY NotFree DEF IInv, RequestOK
    <3> QED
      BY <1>1, <1>2, <2>2, <3>1, <3>2, RequestFrame
  <2> QED
    BY <2>1, <2>2
<1>5. Alone'
  BY DEF IInv, Alone
<1>6. LoadFirst'
  <2> SUFFICES ASSUME NEW s \in Requests, requests'[s].op = "load", requests'[s].gen = gen, Clean'
               PROVE  /\ ~synced'
                      /\ \A t \in Requests : requests'[t].op \in History => requests'[t].gen # gen
    BY <1>2 DEF LoadFirst
  <2>1. requests[s].op = "load" /\ requests[s].gen = gen
    BY DEF Entering
  <2>2. ~synced /\ \A t \in Requests : requests[t].op \in History => requests[t].gen # gen
    BY <1>1, <2>1 DEF IInv, LoadFirst
  <2>3. ~synced'
    BY <2>1, <2>2 DEF Calm
  <2> QED
    BY <1>1, <1>2, <2>1, <2>2, <2>3
<1> QED
  BY <1>1, <1>3, <1>4, <1>5, <1>6 DEF IInv

LEMMA StillCalm ==
  ASSUME IInv, UNCHANGED <<client, written, crossed>>, cookie' \in {cookie, Null}
  PROVE  Calm
BY DEF IInv, TypeOK, ClientOK, Calm, Blank, Clean, client

LEMMA FreeOK ==
  ASSUME TypeOK, NEW r \in Requests, requests'[r] = Free
  PROVE  RequestOK(r)' /\ requests'[r].op = "free"
BY NotFree DEF RequestOK

\* The request is done with.
LEMMA OverKeeps ==
  ASSUME IInv, Calm, UNCHANGED <<stored, time>>, refused' \subseteq Keys,
         NEW r \in Requests, requests' = [requests EXCEPT ![r] = Free]
  PROVE  IInv'
<1>1. /\ requests' \in [Requests -> {Free} \cup Request] /\ requests'[r] = Free
      /\ \A s \in Requests \ {r} : requests'[s] = requests[s]
  BY DEF IInv, TypeOK
<1>2. RequestOK(r)' /\ requests'[r].op = "free"
  BY <1>1, FreeOK DEF IInv
<1>3. StoreOK'
  BY DEF IInv, StoreOK, Calm
<1>4. stored \subseteq stored' /\ stored' \subseteq [key : Keys, user : Users] /\ time' \in 0..MaxTime
  BY DEF IInv, TypeOK
<1> QED
  BY <1>1, <1>2, <1>3, <1>4, CalmKeeps DEF Entering, History

LEMMA OverNew ==
  ASSUME IInv, NewGeneration, UNCHANGED <<stored, written, time, cookie, crossed>>, refused' \subseteq Keys,
         NEW r \in Requests, requests' = [requests EXCEPT ![r] = Free]
  PROVE  IInv'
<1>1. /\ requests' \in [Requests -> {Free} \cup Request] /\ requests'[r] = Free
      /\ \A s \in Requests \ {r} : requests'[s] = requests[s]
  BY DEF IInv, TypeOK
<1>2. RequestOK(r)' /\ requests'[r].op = "free"
  BY <1>1, FreeOK DEF IInv
<1> QED
  BY <1>1, <1>2, NewKeeps DEF Entering, Reading

\* A request that asks for something of the user's, for the browser's session.
LEMMA AskKeeps ==
  ASSUME IInv, Calm, UNCHANGED <<stored, time, refused, cookie>>,
         NEW r \in Requests, NEW op, NEW key \in Keys \cup {Null}, Ask(r, op, key, cookie),
         gen # 0,
         \/ op = "retry" /\ user # Null /\ key \in Keys /\ written[key] # Null
              /\ written[key].gen = gen
         \/ op \in {"sync", "reload"}
              /\ (Clean => /\ user # Null
                           /\ \A s \in Requests : requests[s].op = "load" => requests[s].gen # gen)
  PROVE  IInv'
<1>1. /\ gen' = gen /\ gen \in Nat /\ user' = user /\ written' = written
  BY DEF Calm, IInv, TypeOK
<1>2. gen \in 1..gen /\ (Clean' => Clean)
  BY <1>1, CalmClient
<1>3. user # Null => cookie \in {user, Null}
  BY DEF IInv, ClientOK
<1>4. PICK q : q = Call(op, gen, key, cookie, FALSE)
  OBVIOUS
<1>5. /\ q \in Request /\ q.op = op /\ q.gen = gen /\ q.key = key /\ q.who = cookie
      /\ q.reply = Null /\ q.keys = {} /\ ~q.screen
  <2>1. cookie \in Someone
    BY DEF IInv, TypeOK, Someone
  <2> QED
    BY <1>1, <1>4, <2>1 DEF Call, Request, Someone
<1>6. /\ requests'[r] = q /\ \A s \in Requests \ {r} : requests'[s] = requests[s]
      /\ requests' \in [Requests -> {Free} \cup Request]
  BY <1>1, <1>4, <1>5 DEF Ask, IInv, TypeOK
<1>7. RequestOK(r)'
  <2>1. CASE op = "retry"
    <3>1. written[key].user = user
      BY <2>1 DEF IInv, ClientOK
    <3> QED
      BY <1>1, <1>2, <1>3, <1>5, <1>6, <2>1, <3>1, ClientSendAssumption DEF RequestOK, Entering, Reading
  <2>2. CASE op \in {"sync", "reload"}
    BY <1>1, <1>2, <1>3, <1>5, <1>6, <2>2, ClientSendAssumption DEF RequestOK, Entering, Reading
  <2> QED
    BY <2>1, <2>2
<1>8. StoreOK'
  BY DEF IInv, StoreOK, Calm
<1>9. /\ stored \subseteq stored' /\ stored' \subseteq [key : Keys, user : Users]
      /\ time' \in 0..MaxTime /\ refused' \subseteq Keys
  BY DEF IInv, TypeOK
<1>10. requests'[r].op \notin Entering
  BY <1>5, <1>6 DEF Entering
<1> QED
  BY <1>1, <1>5, <1>6, <1>7, <1>8, <1>9, <1>10, CalmKeeps DEF History
-----------------------------------------------------------------------------
(* The user and the timers *)

LEMMA BeginKeeps ==
  ASSUME IInv, NEW r \in Requests,
         Resume(r) \/ Logout(r) \/ \E u \in Users : Login(r, u)
  PROVE  IInv'
<1>1. /\ NewGeneration /\ UNCHANGED <<stored, cookie, time, written, refused, crossed>>
      /\ gen \in Nat /\ gen' = gen + 1 /\ gen' \in Nat
  BY DEF Resume, Logout, Login, NewGeneration, history, IInv, TypeOK
<1>2. PICK op \in {"me", "login", "logout"}, who \in Someone :
        /\ Ask(r, op, Null, who)
        /\ op \in Entering => \A s \in Requests : ~requests[s].screen
        /\ op = "me" => cookie = who /\ gen = 0
  <2>1. CASE Resume(r)
    <3>1. gen = 0
      BY <2>1 DEF Resume
    <3>2. \A s \in Requests : requests[s] = Free
      <4> TAKE s \in Requests
      <4>1. requests[s] \in Request => requests[s].gen \in 1..gen
        BY DEF IInv, RequestOK
      <4> QED
        BY <3>1, <4>1, NotFree DEF IInv
    <3>3. Ask(r, "me", Null, cookie) /\ cookie \in Someone
      BY <2>1 DEF Resume, IInv, TypeOK, Someone
    <3> QED
      BY <3>1, <3>2, <3>3 DEF Free
  <2>2. CASE Logout(r)
    BY <2>2 DEF Logout, Entering, IInv, TypeOK, Someone
  <2>3. CASE \E u \in Users : Login(r, u)
    <3>1. PICK u \in Users : Ask(r, "login", Null, u)
      BY <2>3 DEF Login
    <3>2. \A s \in Requests : ~requests[s].screen
      BY <2>3 DEF Login, LoginBusy
    <3>3. u \in Someone
      BY DEF Someone
    <3> QED
      BY <3>1, <3>2, <3>3
  <2> QED
    BY <2>1, <2>2, <2>3
<1>3. PICK q : q = Call(op, gen', Null, who, op = "login")
  OBVIOUS
<1>4. /\ q \in Request /\ q.op = op /\ q.gen = gen' /\ q.who = who
      /\ q.screen = (op = "login") /\ q.reply = Null /\ q.keys = {}
  <2>1. /\ op \in {"login", "me", "load", "logout", "send", "retry", "sync", "reload", "reset"}
        /\ gen' \in Nat /\ Null \in Keys \cup {Null} /\ (op = "login") \in BOOLEAN
    BY <1>1, <1>2
  <2> QED
    BY <1>3, <2>1 DEF Call, Request, Someone
<1>5. /\ requests'[r] = q /\ \A s \in Requests \ {r} : requests'[s] = requests[s]
      /\ requests' \in [Requests -> {Free} \cup Request]
  <2>1. requests' = [requests EXCEPT ![r] = q]
    BY <1>2, <1>3 DEF Ask
  <2>2. requests \in [Requests -> {Free} \cup Request]
    BY DEF IInv, TypeOK
  <2> QED
    BY <1>4, <2>1, <2>2
<1>6. Blank'
  <2>1. \A k \in Keys : written[k] # Null => written[k].gen < gen'
    BY <1>1 DEF IInv, TypeOK, ClientOK
  <2> QED
    BY <1>1, <2>1 DEF Blank, NewGeneration
<1>7. RequestOK(r)'
  <2>1. gen' \in 1..gen' /\ user' = Null
    BY <1>1 DEF NewGeneration
  <2>2. op = "me" => gen' = 1
    BY <1>1, <1>2
  <2> QED
    BY <1>1, <1>2, <1>4, <1>5, <1>6, <2>1, <2>2, ClientSendAssumption DEF RequestOK, Entering, Reading
<1>8. refused' \subseteq Keys
  BY <1>1 DEF IInv, TypeOK
<1>9. requests'[r].op \notin Reading /\ requests'[r].gen = gen'
  BY <1>4, <1>5 DEF Reading
<1>10. requests'[r].op \in Entering => \A s \in Requests : ~requests[s].screen
  BY <1>2, <1>4, <1>5
<1> QED
  BY <1>1, <1>5, <1>7, <1>8, <1>9, <1>10, NewKeeps

LEMMA SendKeeps ==
  ASSUME IInv, NEW r \in Requests, NEW k \in Keys, Send(r, k)
  PROVE  IInv'
<1>1. /\ user # Null /\ written[k] = Null
      /\ written' = [written EXCEPT ![k] = [user |-> user, gen |-> gen, at |-> time]]
      /\ pending' = [pending EXCEPT ![k] = "pending"]
      /\ UNCHANGED <<gen, user, shown, synced, timers, stored, cookie, time, refused, crossed>>
      /\ Ask(r, "send", k, cookie)
  BY DEF Send
<1>2. [user |-> user, gen |-> gen, at |-> time] \in [user : Users, gen : Nat, at : 0..MaxTime]
  BY <1>1 DEF IInv, TypeOK
<1>3. PICK new \in [user : Users, gen : Nat, at : 0..MaxTime] :
        new = [user |-> user, gen |-> gen, at |-> time]
  BY <1>2
<1>4. new.user = user /\ new.gen = gen /\ new # Null
  <2>1. new.user = user /\ new.gen = gen
    BY <1>3
  <2>2. new \in [user : Users, gen : Nat, at : Nat]
    BY ClientSendAssumption
  <2> QED
    BY <2>1, <2>2, ClientSendAssumption
<1>5. /\ written' \in [Keys -> {Null} \cup [user : Users, gen : Nat, at : 0..MaxTime]]
      /\ written'[k] = new /\ \A x \in Keys \ {k} : written'[x] = written[x]
      /\ \A x \in Keys : written[x] # Null => written'[x] = written[x]
  BY <1>1, <1>3 DEF IInv, TypeOK
<1>6. PICK q : q = Call("send", gen', k, cookie, FALSE)
  OBVIOUS
<1>7. gen' = gen /\ gen \in Nat /\ gen \in 1..gen /\ cookie \in {user, Null} /\ cookie \in Someone
  BY <1>1 DEF IInv, TypeOK, ClientOK, Someone
<1>8. /\ q \in Request /\ q.op = "send" /\ q.gen = gen /\ q.key = k /\ q.who = cookie
      /\ q.reply = Null /\ q.keys = {} /\ ~q.screen
  BY <1>6, <1>7 DEF Call, Request, Someone
<1>9. /\ requests'[r] = q /\ \A s \in Requests \ {r} : requests'[s] = requests[s]
      /\ requests' \in [Requests -> {Free} \cup Request]
  BY <1>1, <1>6, <1>8 DEF Ask, IInv, TypeOK
<1>10. TypeOK'
  BY <1>1, <1>4, <1>5, <1>9 DEF IInv, TypeOK
<1>11. ClientOK'
  <2>1. \A x \in Keys : pending'[x] # "none" \/ x \in timers' =>
          written'[x] # Null /\ written'[x].gen = gen
    BY <1>1, <1>4, <1>5 DEF IInv, TypeOK, ClientOK
  <2>2. \A x \in Keys : written'[x] # Null =>
          written'[x].gen <= gen /\ (written'[x].gen = gen => written'[x].user = user)
    BY <1>1, <1>4, <1>5, <1>7 DEF IInv, ClientOK
  <2>3. ASSUME NEW x \in shown, Clean
        PROVE  written'[x].user = user
    <3>1. x \in Keys /\ written[x].user = user
      BY <1>1, <2>3 DEF IInv, TypeOK, ClientOK
    <3> QED
      BY <1>4, <1>5, <3>1
  <2>4. Clean' = Clean
    BY <1>1 DEF Clean
  <2> QED
    BY <1>1, <1>7, <2>1, <2>2, <2>3, <2>4 DEF IInv, ClientOK
<1>12. \A s \in Requests : RequestOK(s)'
  <2> TAKE s \in Requests
  <2>1. CASE s = r
    BY <1>1, <1>4, <1>5, <1>7, <1>8, <1>9, <2>1, ClientSendAssumption DEF RequestOK, Entering, Reading
  <2>2. CASE s # r
    <3>1. requests[s].op # "login" /\ ~(requests[s].op = "me" /\ requests[s].gen = gen)
      BY <1>1, NotFree DEF IInv, RequestOK, Blank
    <3> QED
      BY <1>1, <1>5, <1>7, <1>9, <2>2, <3>1, RequestFrame
  <2> QED
    BY <2>1, <2>2
<1>13. Alone' /\ LoadFirst'
  <2>1. Clean' = Clean
    BY <1>1 DEF Clean
  <2> QED
    BY <1>1, <1>8, <1>9, <2>1 DEF IInv, Alone, LoadFirst, Entering, History
<1>14. StoreOK'
  <2>1. \A m \in stored : m.key \in Keys
    BY DEF IInv, TypeOK
  <2> QED
    BY <1>1, <1>5, <2>1 DEF IInv, StoreOK
<1> QED
  BY <1>10, <1>11, <1>12, <1>13, <1>14 DEF IInv

LEMMA RetryKeeps ==
  ASSUME IInv, NEW r \in Requests, NEW k \in Keys, Retry(r, k)
  PROVE  IInv'
<1>1. Calm /\ UNCHANGED <<stored, time, refused, cookie>>
  BY StillCalm DEF Retry, history
<1>2. written[k] # Null /\ written[k].gen = gen /\ user # Null /\ gen # 0
  BY DEF Retry, IInv, ClientOK
<1> QED
  BY <1>1, <1>2, AskKeeps DEF Retry

LEMMA FiresKeeps ==
  ASSUME IInv, NEW k \in Keys, RetryFires(k)
  PROVE  IInv'
<1>1. /\ k \in timers /\ timers' = timers \ {k}
      /\ UNCHANGED <<gen, user, shown, synced, stored, cookie, time, written, refused, crossed>>
  BY DEF RetryFires, history
<1>2. written[k] # Null /\ written[k].gen = gen
  BY <1>1 DEF IInv, ClientOK
<1>3. pending' = pending \/ pending' = [pending EXCEPT ![k] = IF @ = "none" THEN @ ELSE "failed"]
  BY DEF RetryFires, Fail
<1>4. /\ pending' \in [Keys -> {"none", "pending", "failed"}]
      /\ \A x \in Keys : pending'[x] # "none" => pending[x] # "none"
  BY <1>3 DEF IInv, TypeOK
<1>5. Calm
  BY <1>1, <1>4 DEF Calm, IInv, TypeOK, ClientOK, Blank, Clean
<1>6. CASE requests' = requests
  <2>1. \A r \in Requests : RequestOK(r)'
    <3> TAKE r \in Requests
    <3>1. /\ requests[r].op = "login" => user = Null
          /\ requests[r].op \in {"login", "me"} /\ requests[r].gen = gen => Blank
      BY NotFree DEF IInv, RequestOK
    <3>2. Blank => Blank'
      BY <1>5, CalmClient
    <3> QED
      BY <1>1, <1>6, <3>1, <3>2, RequestFrame DEF IInv, TypeOK
  <2>2. /\ ClientOK' /\ timers' \subseteq {x \in Keys : written'[x] # Null} /\ Clean' = Clean
    BY <1>1, <1>5, CalmClient DEF Clean
  <2>3. TypeOK'
    BY <1>1, <1>4, <1>6, <2>2 DEF IInv, TypeOK, Clean
  <2> QED
    BY <1>1, <1>6, <2>1, <2>2, <2>3 DEF IInv, Alone, LoadFirst, StoreOK
<1>7. CASE requests' # requests
  <2>1. PICK r \in Requests : Ask(r, "retry", k, cookie) /\ user # Null
    BY <1>7 DEF RetryFires
  <2>2. gen # 0
    BY <2>1 DEF IInv, ClientOK
  <2> QED
    BY <1>1, <1>2, <1>5, <2>1, <2>2, AskKeeps
<1> QED
  BY <1>6, <1>7

LEMMA SyncKeeps ==
  ASSUME IInv, NEW r \in Requests, Sync(r) \/ Reload(r)
  PROVE  IInv'
<1>1. Calm /\ UNCHANGED <<stored, time, refused, cookie>>
  BY StillCalm DEF Sync, Reload, history
<1>2. /\ gen # 0
      /\ Clean => /\ user # Null
                  /\ \A s \in Requests : requests[s].op = "load" => requests[s].gen # gen
  BY DEF Sync, Reload, Open, Fresh, Clean, IInv, TypeOK, ClientOK, LoadFirst
<1>3. PICK op \in {"sync", "reload"} : Ask(r, op, Null, cookie)
  BY DEF Sync, Reload
<1> QED
  BY <1>1, <1>2, <1>3, AskKeeps

\* Nothing happens to the requests.
LEMMA IdleKeeps ==
  ASSUME IInv, Calm, UNCHANGED <<requests, stored, refused>>, time' \in 0..MaxTime
  PROVE  IInv'
<1>1. /\ ClientOK' /\ timers' \subseteq {k \in Keys : written'[k] # Null}
      /\ synced' /\ Clean' => user' # Null
      /\ Blank => Blank'
      /\ crossed' \in 0..gen' /\ (Clean' => Clean)
  BY CalmClient
<1>2. ASSUME NEW r \in Requests
      PROVE  RequestOK(r)'
  <2>1. /\ requests[r].op = "login" => user = Null
        /\ requests[r].op \in {"login", "me"} /\ requests[r].gen = gen => Blank
    BY NotFree DEF IInv, RequestOK
  <2> QED
    BY <1>1, <2>1, RequestFrame DEF Calm, IInv, TypeOK
<1>3. TypeOK'
  BY <1>1 DEF Calm, IInv, TypeOK, Clean
<1>4. Alone' /\ StoreOK'
  BY DEF Calm, IInv, Alone, StoreOK
<1>5. LoadFirst'
  BY <1>1 DEF Calm, IInv, LoadFirst
<1> QED
  BY <1>1, <1>2, <1>3, <1>4, <1>5 DEF IInv

LEMMA MergeCalm ==
  ASSUME IInv, NEW ks \in SUBSET Keys, Merge(ks), UNCHANGED <<written, cookie, crossed>>, gen # 0,
         Clean => \A k \in ks : ~Blank /\ (user # Null => written[k].user = user),
         \/ UNCHANGED synced
         \/ synced' = TRUE
              /\ (Clean => /\ user # Null
                           /\ \A s \in Requests : requests[s].op = "load" => requests[s].gen # gen)
  PROVE  Calm
<1>1. /\ shown' = shown \cup ks /\ pending' = [k \in Keys |-> IF k \in ks THEN "none" ELSE pending[k]]
      /\ timers' = timers \ ks /\ UNCHANGED <<gen, user>>
  BY DEF Merge
<1>2. /\ pending' \in [Keys -> {"none", "pending", "failed"}]
      /\ \A x \in Keys : pending'[x] # "none" => pending[x] # "none"
  BY <1>1 DEF IInv, TypeOK
<1>3. /\ synced' \in BOOLEAN /\ timers' \subseteq Keys /\ shown' \subseteq Keys
      /\ \A x \in Keys : x \in timers' => x \in timers
  BY <1>1 DEF IInv, TypeOK
<1>4. Clean' = Clean
  BY <1>1 DEF Clean
<1>5. Clean => \A k \in shown' : user # Null => written[k].user = user
  BY <1>1 DEF IInv, ClientOK
<1>6. Clean /\ Blank => shown' = {}
  BY <1>1 DEF Blank
<1> QED
  BY <1>1, <1>2, <1>3, <1>4, <1>5, <1>6 DEF Calm

LEMMA EventKeeps ==
  ASSUME IInv, NEW k \in Keys, Event(k)
  PROVE  IInv'
<1>1. Clean => user # Null /\ written[k].user = user
  BY DEF Event, Clean, IInv, TypeOK, StoreOK
<1>2. gen # 0 /\ {k} \in SUBSET Keys
  BY DEF Event, IInv, ClientOK
<1>3. Calm
  BY <1>1, <1>2, MergeCalm DEF Event, Blank, history
<1> QED
  BY <1>3, IdleKeeps DEF Event, history, IInv, TypeOK

LEMMA TickKeeps ==
  ASSUME IInv, Tick
  PROVE  IInv'
<1>1. time' \in 0..MaxTime
  BY ClientSendAssumption DEF Tick, IInv, TypeOK
<1>2. Calm
  BY StillCalm DEF Tick, history
<1> QED
  BY <1>1, <1>2, IdleKeeps DEF Tick, history
-----------------------------------------------------------------------------
(* The server *)

LEMMA ServeKeeps ==
  ASSUME IInv, NEW r \in Requests, Serve(r)
  PROVE  IInv'
<1>1. PICK q \in Request : q = requests[r]
  BY NotFree DEF Serve, IInv
<1>2. PICK a \in Replies(q), keys \in {Own(q), {}} :
        requests' = [requests EXCEPT ![r] = [q EXCEPT !.reply = a, !.keys = keys]]
  BY <1>1 DEF Serve
<1>3. a \in {"ok", "unauthorized", "reset", "refused", "expired"}
      /\ (a = "ok" => q.who # Null)
  BY <1>2 DEF Replies
<1>4. PICK p : p = [q EXCEPT !.reply = a, !.keys = keys]
  OBVIOUS
<1>5. /\ p \in Request /\ p.op = q.op /\ p.gen = q.gen /\ p.key = q.key /\ p.who = q.who
      /\ p.screen = q.screen /\ p.reply = a /\ p.keys = keys /\ keys \subseteq Own(q)
  <2>1. keys \in SUBSET Keys /\ keys \subseteq Own(q)
    BY DEF Own
  <2> QED
    BY <1>3, <1>4, <2>1 DEF Request
<1>6. /\ requests'[r] = p /\ \A s \in Requests \ {r} : requests'[s] = requests[s]
      /\ requests' \in [Requests -> {Free} \cup Request]
  BY <1>1, <1>2, <1>4, <1>5 DEF IInv, TypeOK
<1>7. /\ UNCHANGED <<client, cookie, time, written, refused, crossed>>
      /\ stored' = IF q.op \in {"send", "retry"} /\ a = "ok"
                   THEN stored \cup {[key |-> q.key, user |-> q.who]} ELSE stored
  BY <1>1, <1>5, <1>6 DEF Serve, history
<1>8. RequestOK(r)
  BY DEF IInv
<1>9. /\ stored \subseteq stored' /\ stored' \subseteq [key : Keys, user : Users] /\ StoreOK'
  <2>1. CASE stored' = stored
    BY <1>7, <2>1 DEF IInv, TypeOK, StoreOK
  <2>2. CASE stored' # stored
    <3>1. /\ q.op \in {"send", "retry"} /\ q.who # Null
          /\ stored' = stored \cup {[key |-> q.key, user |-> q.who]}
      BY <1>3, <1>7, <2>2
    <3>2. /\ q.key \in Keys /\ written[q.key] # Null /\ q.who = written[q.key].user
          /\ q.who \in Users
      BY <1>1, <1>8, <3>1 DEF RequestOK, Request
    <3>3. PICK m : m = [key |-> q.key, user |-> q.who]
      OBVIOUS
    <3>4. m.key = q.key /\ m.user = q.who /\ m \in [key : Keys, user : Users]
      BY <3>2, <3>3
    <3> QED
      BY <1>7, <3>1, <3>2, <3>3, <3>4 DEF IInv, TypeOK, StoreOK
  <2> QED
    BY <2>1, <2>2
<1>10. RequestOK(r)'
  <2>1. \A k \in keys : [key |-> k, user |-> q.who] \in stored'
    BY <1>5, <1>9 DEF Own
  <2>2. UNCHANGED <<gen, user, shown, written, cookie, crossed>>
    BY <1>7 DEF client
  <2> QED
    BY <1>1, <1>3, <1>5, <1>6, <1>8, <2>1, <2>2 DEF RequestOK, Blank, Clean
<1>11. Calm
  BY <1>7, StillCalm
<1>12. time' \in 0..MaxTime /\ refused' \subseteq Keys
  BY <1>7 DEF IInv, TypeOK
<1> QED
  BY <1>1, <1>5, <1>6, <1>9, <1>10, <1>11, <1>12, CalmKeeps DEF History

LEMMA OrphanKeeps ==
  ASSUME IInv, NEW r \in Requests, ServeOrphan(r)
  PROVE  IInv'
<1>1. PICK q \in Request : q = requests[r] /\ q.op = "orphan"
  BY NotFree DEF ServeOrphan, IInv
<1>2. /\ UNCHANGED <<client, cookie, time, written, refused, crossed>>
      /\ requests' = [requests EXCEPT ![r] = Free]
      /\ \/ q.who # Null /\ stored' = stored \cup {[key |-> q.key, user |-> q.who]}
         \/ UNCHANGED stored
  BY <1>1 DEF ServeOrphan, history
<1>3. /\ requests' \in [Requests -> {Free} \cup Request] /\ requests'[r] = Free
      /\ \A s \in Requests \ {r} : requests'[s] = requests[s]
  BY <1>2 DEF IInv, TypeOK
<1>4. RequestOK(r)' /\ requests'[r].op = "free"
  BY <1>3, FreeOK DEF IInv
<1>5. /\ stored \subseteq stored' /\ stored' \subseteq [key : Keys, user : Users] /\ StoreOK'
  <2>1. CASE UNCHANGED stored
    BY <1>2, <2>1 DEF IInv, TypeOK, StoreOK
  <2>2. CASE q.who # Null /\ stored' = stored \cup {[key |-> q.key, user |-> q.who]}
    <3>1. /\ q.key \in Keys /\ written[q.key] # Null /\ q.who = written[q.key].user
          /\ q.who \in Users
      BY <1>1, <2>2 DEF IInv, RequestOK, Request
    <3>2. PICK m : m = [key |-> q.key, user |-> q.who]
      OBVIOUS
    <3>3. m.key = q.key /\ m.user = q.who /\ m \in [key : Keys, user : Users]
      BY <3>1, <3>2
    <3> QED
      BY <1>2, <2>2, <3>1, <3>2, <3>3 DEF IInv, TypeOK, StoreOK
  <2> QED
    BY <1>2, <2>1, <2>2
<1>6. Calm
  BY <1>2, StillCalm
<1>7. time' \in 0..MaxTime /\ refused' \subseteq Keys
  BY <1>2 DEF IInv, TypeOK
<1> QED
  BY <1>3, <1>4, <1>5, <1>6, <1>7, CalmKeeps DEF Entering, History
-----------------------------------------------------------------------------
(* The answers *)

LEMMA ScheduleCalm ==
  ASSUME IInv, NEW k \in Keys, Schedule(k), UNCHANGED <<written, cookie, crossed>>
  PROVE  Calm
<1>1. /\ UNCHANGED <<gen, user, shown, synced>>
      /\ \/ UNCHANGED <<pending, timers>>
         \/ pending[k] # "none" /\ pending' = [pending EXCEPT ![k] = IF @ = "none" THEN @ ELSE "failed"]
              /\ timers' = timers
         \/ pending[k] # "none" /\ timers' = timers \cup {k} /\ pending' = pending
  BY DEF Schedule, Fail
<1>2. /\ pending' \in [Keys -> {"none", "pending", "failed"}] /\ timers' \subseteq Keys
      /\ \A x \in Keys : pending'[x] # "none" => pending[x] # "none"
      /\ \A x \in Keys : x \in timers' => pending[x] # "none" \/ x \in timers
  BY <1>1 DEF IInv, TypeOK
<1> QED
  BY <1>1, <1>2 DEF Calm, IInv, TypeOK, ClientOK, Blank, Clean

LEMMA FailCalm ==
  ASSUME IInv, NEW k \in Keys, Fail(k),
         UNCHANGED <<gen, user, shown, synced, timers, written, cookie, crossed>>
  PROVE  Calm
<1>1. /\ pending' \in [Keys -> {"none", "pending", "failed"}]
      /\ \A x \in Keys : pending'[x] # "none" => pending[x] # "none"
  BY DEF Fail, IInv, TypeOK
<1> QED
  BY <1>1 DEF Calm, IInv, TypeOK, ClientOK, Blank, Clean

\* A send or a retry of this generation is the user's, if there is one.
LEMMA SendOfUser ==
  ASSUME IInv, NEW r \in Requests, requests[r].op \in {"send", "retry", "orphan"}
  PROVE  /\ requests[r].key \in Keys
         /\ requests[r].gen = gen =>
              ~Blank /\ (user # Null => written[requests[r].key].user = user)
<1>1. requests[r] \in Request /\ RequestOK(r) /\ gen \in Nat
  BY NotFree DEF IInv, TypeOK
<1> QED
  BY <1>1 DEF RequestOK, Blank, IInv, ClientOK

LEMMA TakeSendKeeps ==
  ASSUME IInv, NEW r \in Requests, TakeSend(r)
  PROVE  IInv'
<1>1. PICK k \in Keys : k = requests[r].key
  BY SendOfUser DEF TakeSend
<1>2. /\ requests' = [requests EXCEPT ![r] = Free]
      /\ UNCHANGED <<stored, cookie, time, written, crossed>> /\ refused' \subseteq Keys
  BY <1>1 DEF TakeSend, Over, IInv, TypeOK
<1>3. CASE NewGeneration
  BY <1>2, <1>3, OverNew
<1>4. CASE UNCHANGED client
  BY <1>2, <1>4, StillCalm, OverKeeps
<1>5. CASE requests[r].gen = gen /\ Merge({k}) /\ UNCHANGED synced
  <2>1. ~Blank /\ (user # Null => written[k].user = user)
    BY <1>1, <1>5, SendOfUser DEF TakeSend
  <2>2. gen # 0 /\ {k} \in SUBSET Keys
    BY <1>5, NotFree DEF TakeSend, IInv, TypeOK, RequestOK
  <2> QED
    BY <1>2, <1>5, <2>1, <2>2, MergeCalm, OverKeeps
<1>6. CASE Fail(k) /\ UNCHANGED <<gen, user, shown, synced, timers>>
  BY <1>2, <1>6, FailCalm, OverKeeps
<1> QED
  BY <1>1, <1>3, <1>4, <1>5, <1>6 DEF TakeSend, Fresh

\* What a call goes on with, of its own generation.
LEMMA ThenCall ==
  ASSUME TypeOK, NEW r \in Requests, requests[r] \in Request, gen' \in Nat, cookie' \in Someone,
         NEW op, op \in {"me", "load", "sync", "reload", "reset"}, Then(r, op)
  PROVE  /\ requests'[r] \in Request /\ requests'[r].op = op /\ requests'[r].gen = requests[r].gen
         /\ requests'[r].who = cookie' /\ requests'[r].reply = Null /\ requests'[r].keys = {}
         /\ requests'[r].screen = (requests[r].screen /\ op \in {"me", "load"})
         /\ \A s \in Requests \ {r} : requests'[s] = requests[s]
         /\ requests' \in [Requests -> {Free} \cup Request]
<1>1. PICK screen \in BOOLEAN : screen = (requests[r].screen /\ op \in {"me", "load"})
  OBVIOUS
<1>2. PICK q : q = Call(op, requests[r].gen, Null, cookie', screen)
  OBVIOUS
<1>3. requests[r].gen \in Nat
  BY DEF Request
<1>4. /\ q \in Request /\ q.op = op /\ q.gen = requests[r].gen /\ q.who = cookie'
      /\ q.reply = Null /\ q.keys = {} /\ q.screen = screen
  BY <1>1, <1>2, <1>3 DEF Call, Request, Someone
<1>5. requests' = [requests EXCEPT ![r] = q]
  BY <1>1, <1>2 DEF Then
<1> QED
  BY <1>1, <1>4, <1>5 DEF TypeOK

\* The answer to a call of this generation holds messages of its user.
LEMMA ReadMine ==
  ASSUME IInv, NEW r \in Requests, requests[r].op \in Reading, requests[r].gen = gen,
         requests[r].reply = "ok"
  PROVE  /\ gen # 0 /\ requests[r].keys \subseteq Keys
         /\ Clean => user # Null /\ \A k \in requests[r].keys : written[k].user = user
<1>1. requests[r] \in Request /\ RequestOK(r)
  BY NotFree DEF IInv, Reading
<1>2. gen # 0 /\ requests[r].keys \subseteq Keys
  BY <1>1 DEF RequestOK, Request, IInv, TypeOK
<1>3. ASSUME Clean
      PROVE  user # Null /\ \A k \in requests[r].keys : written[k].user = user
  <2>1. user # Null /\ \A k \in requests[r].keys : [key |-> k, user |-> user] \in stored
    BY <1>1, <1>3 DEF RequestOK
  <2> SUFFICES ASSUME NEW k \in requests[r].keys
               PROVE  written[k].user = user
    BY <2>1
  <2>2. PICK m \in stored : m = [key |-> k, user |-> user]
    BY <2>1
  <2>3. m.key = k /\ m.user = user /\ written[m.key].user = m.user
    BY <2>2 DEF IInv, StoreOK
  <2> QED
    BY <2>3
<1> QED
  BY <1>2, <1>3

\* The snapshot is replaced by what a reload brought.
LEMMA ReadCalm ==
  ASSUME IInv, NEW r \in Requests, requests[r].op \in History, requests[r].gen = gen,
         requests[r].reply = "ok", shown' = requests[r].keys, synced' \in BOOLEAN,
         UNCHANGED <<gen, user, pending, timers, written, cookie, crossed>>
  PROVE  Calm
<1>1. /\ gen # 0 /\ requests[r].keys \subseteq Keys
      /\ Clean => user # Null /\ \A k \in requests[r].keys : written[k].user = user
  BY ReadMine DEF History, Reading
<1>2. Clean => \A s \in Requests : requests[s].op = "load" => requests[s].gen # gen
  BY DEF IInv, LoadFirst
<1>3. Clean' = Clean
  BY DEF Clean
<1> QED
  BY <1>1, <1>2, <1>3 DEF Calm, Blank, IInv, TypeOK

\* A recovery goes on with its next request.
LEMMA GoesOn ==
  ASSUME IInv, Calm, UNCHANGED <<stored, time, refused, cookie>>,
         NEW r \in Requests, requests[r].op \in History, NEW op \in History, Then(r, op)
  PROVE  IInv'
<1>1. requests[r] \in Request /\ RequestOK(r)
  BY NotFree DEF IInv, History
<1>2. /\ gen' = gen /\ gen \in Nat /\ user' = user /\ cookie \in Someone /\ (Clean' => Clean)
  BY CalmClient DEF Calm, IInv, TypeOK, Someone
<1>3. /\ requests'[r] \in Request /\ requests'[r].op = op /\ requests'[r].gen = requests[r].gen
      /\ requests'[r].who = cookie /\ requests'[r].reply = Null /\ requests'[r].keys = {}
      /\ ~requests'[r].screen
      /\ \A s \in Requests \ {r} : requests'[s] = requests[s]
      /\ requests' \in [Requests -> {Free} \cup Request]
  <2>1. op \in {"me", "load", "sync", "reload", "reset"} /\ op \notin {"me", "load"}
    BY DEF History
  <2> QED
    BY <1>1, <1>2, <2>1, ThenCall DEF IInv
<1>4. RequestOK(r)'
  <2>1. requests[r].gen = gen /\ Clean => user # Null /\ cookie \in {user, Null}
    BY <1>1 DEF RequestOK, History, Reading, IInv, ClientOK
  <2>2. op \notin Entering /\ op \notin {"send", "retry", "orphan", "login", "me"}
    BY DEF History, Entering
  <2>3. requests'[r].gen \in 1..gen'
    BY <1>1, <1>2, <1>3 DEF RequestOK
  <2> QED
    BY <1>2, <1>3, <2>1, <2>2, <2>3, ClientSendAssumption DEF RequestOK
<1>5. /\ StoreOK' /\ stored \subseteq stored' /\ stored' \subseteq [key : Keys, user : Users]
      /\ time' \in 0..MaxTime /\ refused' \subseteq Keys
  BY DEF Calm, IInv, TypeOK, StoreOK
<1> QED
  BY <1>3, <1>4, <1>5, CalmKeeps DEF History, Entering

LEMMA TakeSyncKeeps ==
  ASSUME IInv, NEW r \in Requests, TakeSync(r)
  PROVE  IInv'
<1>1. PICK q \in Request : q = requests[r] /\ q.op = "sync"
  BY NotFree DEF TakeSync, IInv
<1>2. UNCHANGED <<stored, cookie, time, written, refused>> /\ refused' \subseteq Keys
  BY DEF TakeSync, IInv, TypeOK
<1>3. CASE NewGeneration /\ Over(r) /\ UNCHANGED crossed
  BY <1>2, <1>3, OverNew DEF Over
<1>4. CASE UNCHANGED client /\ Over(r) /\ UNCHANGED crossed
  BY <1>2, <1>4, StillCalm, OverKeeps DEF Over
<1>5. CASE /\ pending' = PendingEmpty /\ shown' = {} /\ synced' = FALSE
           /\ UNCHANGED <<gen, user, timers>>
           /\ crossed' = IF Fresh(q) THEN crossed ELSE gen
           /\ Then(r, "reset")
  <2>1. Calm
    BY <1>2, <1>5 DEF Calm, PendingEmpty, IInv, TypeOK
  <2> QED
    BY <1>1, <1>2, <1>5, <2>1, GoesOn DEF History
<1>6. ASSUME q.gen = gen, Answer(q) = "ok", NEW ks \in SUBSET q.keys, Merge(ks),
             synced' = TRUE, Over(r), UNCHANGED crossed
      PROVE  IInv'
  <2>1. /\ gen # 0 /\ q.keys \subseteq Keys
        /\ Clean => user # Null /\ \A k \in q.keys : written[k].user = user
    BY <1>1, <1>6, AnswerOk, ReadMine DEF Reading
  <2>2. Clean => \A s \in Requests : requests[s].op = "load" => requests[s].gen # gen
    BY <1>1, <1>6 DEF IInv, LoadFirst, History
  <2>3. ks \in SUBSET Keys /\ (Clean => \A k \in ks : ~Blank /\ written[k].user = user)
    BY <2>1 DEF Blank
  <2>4. Calm
    BY <1>2, <1>6, <2>1, <2>2, <2>3, MergeCalm
  <2> QED
    BY <1>2, <1>6, <2>4, OverKeeps DEF Over
<1> QED
  BY <1>1, <1>3, <1>4, <1>5, <1>6 DEF TakeSync, Fresh

LEMMA TakeResetKeeps ==
  ASSUME IInv, NEW r \in Requests, TakeReset(r)
  PROVE  IInv'
<1>1. PICK q \in Request : q = requests[r] /\ q.op = "reset"
  BY NotFree DEF TakeReset, IInv
<1>2. UNCHANGED <<stored, cookie, time, written, refused>> /\ refused' \subseteq Keys
  BY DEF TakeReset, IInv, TypeOK
<1>3. CASE UNCHANGED client /\ Over(r) /\ UNCHANGED crossed
  BY <1>2, <1>3, StillCalm, OverKeeps DEF Over
<1>4. CASE /\ Answer(q) = "ok" /\ shown' = IF Fresh(q) THEN q.keys ELSE shown
           /\ UNCHANGED <<gen, user, pending, timers>>
           /\ crossed' = IF Fresh(q) THEN crossed ELSE gen
           /\ \/ synced' = TRUE /\ Then(r, "sync")
              \/ synced' = FALSE /\ Over(r)
  <2>1. Calm
    <3>1. CASE Fresh(q)
      BY <1>1, <1>2, <1>4, <3>1, AnswerOk, ReadCalm DEF Fresh, History
    <3>2. CASE ~Fresh(q)
      <4>1. gen # 0
        BY <1>1 DEF IInv, TypeOK, RequestOK
      <4> QED
        BY <1>2, <1>4, <3>2, <4>1 DEF Calm, Clean, IInv, TypeOK
    <3> QED
      BY <3>1, <3>2
  <2>2. CASE Then(r, "sync")
    BY <1>1, <1>2, <2>1, <2>2, GoesOn DEF History
  <2>3. CASE Over(r)
    BY <1>2, <2>1, <2>3, OverKeeps DEF Over
  <2> QED
    BY <1>4, <2>2, <2>3
<1> QED
  BY <1>1, <1>3, <1>4 DEF TakeReset

LEMMA TakeReloadKeeps ==
  ASSUME IInv, NEW r \in Requests, TakeReload(r)
  PROVE  IInv'
<1>1. PICK q \in Request : q = requests[r] /\ q.op = "reload"
  BY NotFree DEF TakeReload, IInv
<1>2. UNCHANGED <<stored, cookie, time, written, refused, crossed>> /\ refused' \subseteq Keys
  BY DEF TakeReload, history, IInv, TypeOK
<1>3. Calm
  <2>1. CASE UNCHANGED client
    BY <1>2, <2>1, StillCalm
  <2>2. CASE Fresh(q) /\ Answer(q) = "ok" /\ Loaded(q)
    BY <1>1, <1>2, <2>2, AnswerOk, ReadCalm DEF Fresh, Loaded, History
  <2> QED
    BY <1>1, <2>1, <2>2 DEF TakeReload
<1>4. CASE Then(r, "sync")
  BY <1>1, <1>2, <1>3, <1>4, GoesOn DEF History
<1>5. CASE Over(r)
  BY <1>2, <1>3, <1>5, OverKeeps DEF Over
<1> QED
  BY <1>1, <1>4, <1>5 DEF TakeReload

LEMMA TakeLogoutKeeps ==
  ASSUME IInv, NEW r \in Requests, TakeLogout(r)
  PROVE  IInv'
<1>1. cookie' \in {cookie, Null} /\ UNCHANGED <<client, stored, time, written, refused, crossed>>
      /\ refused' \subseteq Keys
  BY DEF TakeLogout, CookieOf, history, IInv, TypeOK
<1> QED
  BY <1>1, StillCalm, OverKeeps DEF TakeLogout, Over

\* A login under way is the only way into its generation: no other call names a user.
LEMMA OneEnters ==
  ASSUME IInv, NEW r \in Requests, NEW s \in Requests, requests[r].op = "login",
         requests[s].op = "me", requests[s].gen = gen
  PROVE  FALSE
<1>1. /\ requests[r] \in Request /\ RequestOK(r) /\ requests[s] \in Request /\ RequestOK(s)
      /\ r # s
  BY NotFree DEF IInv
<1>2. requests[r].screen /\ requests[r].gen \in 1..gen
  BY <1>1 DEF RequestOK
<1>3. ~requests[s].screen
  BY <1>1, <1>2 DEF IInv, Alone, Entering
<1>4. gen = 1
  BY <1>1, <1>3 DEF RequestOK, Entering
<1> QED
  BY <1>1, <1>2, <1>4 DEF IInv, Alone, Entering

\* The browser gets another session while nobody is signed in.
LEMMA BrowserKeeps ==
  ASSUME IInv, UNCHANGED <<client, stored, time, written, refused, crossed>>,
         cookie' \in Someone, NEW r \in Requests, requests[r].op = "login",
         \A s \in Requests \ {r} : requests'[s] = requests[s],
         requests' \in [Requests -> {Free} \cup Request], RequestOK(r)',
         \/ requests'[r].op = "free"
         \/ /\ requests'[r].op \in {"login", "me"}
            /\ requests'[r].gen = requests[r].gen /\ requests'[r].screen = requests[r].screen
  PROVE  IInv'
<1>1. UNCHANGED <<gen, user, pending, shown, synced, timers>> /\ gen' \in Nat /\ gen' >= gen
      /\ Clean' = Clean
  BY DEF client, Clean, IInv, TypeOK
<1>2. TypeOK'
  BY <1>1 DEF IInv, TypeOK, Someone, Clean
<1>3. requests[r] \in Request /\ RequestOK(r)
  BY NotFree DEF IInv
<1>4. user = Null /\ requests[r].screen
  BY <1>3 DEF RequestOK
<1>5. ClientOK'
  BY <1>1, <1>4 DEF IInv, ClientOK
<1>6. ASSUME NEW s \in Requests, s # r, requests[s].op = "me"
      PROVE  requests[s].gen # gen
  BY <1>3, <1>4, <1>6, OneEnters
<1>7. ASSUME NEW s \in Requests
      PROVE  RequestOK(s)'
  <2>1. CASE s = r
    BY <2>1
  <2>2. CASE s # r
    <3>1. requests[s].op \in {"login", "me"} /\ requests[s].gen = gen => Blank /\ Blank'
      BY <1>1, NotFree DEF IInv, RequestOK, Blank
    <3> QED
      BY <1>1, <1>4, <1>6, <2>2, <3>1, RequestFrame
  <2> QED
    BY <2>1, <2>2
<1>8. Alone'
  BY DEF IInv, Alone, Entering
<1>9. LoadFirst' /\ StoreOK'
  BY <1>1 DEF IInv, LoadFirst, StoreOK, History
<1> QED
  BY <1>2, <1>5, <1>7, <1>8, <1>9 DEF IInv

LEMMA HeadKeeps ==
  ASSUME IInv, NEW r \in Requests, Head(r)
  PROVE  IInv'
<1>1. PICK q \in Request : q = requests[r] /\ q.op \in {"login", "me", "load", "reload", "sync", "reset"}
  BY NotFree DEF Head, IInv
<1>2. /\ UNCHANGED <<client, stored, time, written, refused, crossed>> /\ cookie' = CookieOf(q)
      /\ requests' = [requests EXCEPT ![r] = [q EXCEPT !.heard = TRUE]]
  BY <1>1 DEF Head, history
<1>3. PICK p : p = [q EXCEPT !.heard = TRUE]
  OBVIOUS
<1>4. /\ p \in Request /\ p.op = q.op /\ p.gen = q.gen /\ p.key = q.key /\ p.who = q.who
      /\ p.screen = q.screen /\ p.reply = q.reply /\ p.keys = q.keys
  BY <1>3 DEF Request
<1>5. /\ requests'[r] = p /\ \A s \in Requests \ {r} : requests'[s] = requests[s]
      /\ requests' \in [Requests -> {Free} \cup Request]
  BY <1>2, <1>3, <1>4 DEF IInv, TypeOK
<1>6. RequestOK(r) /\ UNCHANGED <<gen, user, shown, written, stored, crossed>>
  BY <1>2 DEF IInv, client
<1>7. CASE q.op = "login"
  <2>1. RequestOK(r)'
    BY <1>1, <1>4, <1>5, <1>6, <1>7 DEF RequestOK, Blank, Clean, Entering, Reading
  <2>2. cookie' \in Someone
    BY <1>2 DEF CookieOf, Request, IInv, TypeOK, Someone
  <2> QED
    BY <1>1, <1>2, <1>4, <1>5, <1>7, <2>1, <2>2, BrowserKeeps
<1>8. CASE q.op # "login"
  <2>1. cookie' = cookie
    BY <1>1, <1>2, <1>8 DEF CookieOf
  <2>2. RequestOK(r)'
    BY <1>1, <1>4, <1>5, <1>6, <2>1 DEF RequestOK, Blank, Clean, Entering, Reading
  <2>3. Calm
    BY <1>2, <2>1, StillCalm
  <2>4. /\ StoreOK' /\ stored \subseteq stored' /\ stored' \subseteq [key : Keys, user : Users]
        /\ time' \in 0..MaxTime /\ refused' \subseteq Keys
    BY <1>2 DEF IInv, TypeOK, StoreOK
  <2> QED
    BY <1>1, <1>4, <1>5, <2>2, <2>3, <2>4, CalmKeeps DEF History
<1> QED
  BY <1>7, <1>8

LEMMA TakeLoginKeeps ==
  ASSUME IInv, NEW r \in Requests, TakeLogin(r)
  PROVE  IInv'
<1>1. PICK q \in Request : q = requests[r] /\ q.op = "login"
  BY NotFree DEF TakeLogin, IInv
<1>2. /\ RequestOK(r) /\ user = Null /\ q.screen
  BY <1>1 DEF IInv, RequestOK
<1>3. UNCHANGED <<stored, time, written, refused, crossed>> /\ cookie' \in Someone
  BY <1>1 DEF TakeLogin, CookieOf, history, Request, IInv, TypeOK, Someone
<1>4. CASE UNCHANGED client /\ Over(r)
  <2>1. /\ requests' \in [Requests -> {Free} \cup Request] /\ requests'[r] = Free
        /\ \A s \in Requests \ {r} : requests'[s] = requests[s]
    BY <1>4 DEF Over, IInv, TypeOK
  <2>2. RequestOK(r)' /\ requests'[r].op = "free"
    BY <2>1, FreeOK DEF IInv
  <2> QED
    BY <1>1, <1>3, <1>4, <2>1, <2>2, BrowserKeeps
<1>5. CASE UNCHANGED client /\ Then(r, "me")
  <2>1. gen' = gen /\ gen \in Nat
    BY <1>5 DEF client, IInv, TypeOK
  <2>2. /\ requests'[r] \in Request /\ requests'[r].op = "me" /\ requests'[r].gen = q.gen
        /\ requests'[r].who = cookie' /\ requests'[r].reply = Null /\ requests'[r].keys = {}
        /\ requests'[r].screen
        /\ \A s \in Requests \ {r} : requests'[s] = requests[s]
        /\ requests' \in [Requests -> {Free} \cup Request]
    BY <1>1, <1>2, <1>3, <1>5, <2>1, ThenCall DEF IInv
  <2>3. q.gen = gen => Blank'
    BY <1>1, <1>2, <1>3, <1>5 DEF RequestOK, Blank, Clean, client
  <2>4. RequestOK(r)'
    BY <1>1, <1>2, <2>1, <2>2, <2>3, ClientSendAssumption DEF RequestOK, Entering, Reading
  <2> QED
    BY <1>1, <1>2, <1>3, <1>5, <2>2, <2>4, BrowserKeeps
<1>6. CASE q.gen = gen /\ EmptySnapshot /\ Over(r)
  BY <1>1, <1>3, <1>6, EmptyKeeps DEF Over, Entering
<1> QED
  BY <1>1, <1>4, <1>5, <1>6 DEF TakeLogin, Fresh

LEMMA TakeMeKeeps ==
  ASSUME IInv, NEW r \in Requests, TakeMe(r)
  PROVE  IInv'
<1>1. PICK q \in Request : q = requests[r] /\ q.op = "me"
  BY NotFree DEF TakeMe, IInv
<1>2. /\ UNCHANGED <<stored, cookie, time, written, refused, crossed>> /\ refused' \subseteq Keys
      /\ RequestOK(r) /\ cookie \in Someone
  BY DEF TakeMe, history, IInv, TypeOK, Someone
<1>3. CASE UNCHANGED client /\ Over(r)
  BY <1>2, <1>3, StillCalm, OverKeeps DEF Over
<1>4. CASE q.gen = gen /\ EmptySnapshot /\ Over(r)
  BY <1>1, <1>2, <1>4, EmptyKeeps DEF Over, Entering
<1>5. CASE /\ q.gen = gen /\ Answer(q) = "ok" /\ user' = q.who
           /\ UNCHANGED <<gen, pending, shown, synced, timers>> /\ Then(r, "load")
  <2>1. /\ Blank /\ gen \in Nat /\ gen # 0 /\ q.who \in Users /\ cookie \in {q.who, Null}
        /\ q.who # Null
    BY <1>1, <1>2, <1>5, AnswerOk DEF RequestOK, Request, IInv, TypeOK
  <2>2. user = Null /\ (Clean => ~synced /\ shown = {}) /\ Clean' = Clean
    BY <1>2, <1>5, <2>1 DEF Blank, Clean, IInv, TypeOK
  <2>3. /\ requests'[r] \in Request /\ requests'[r].op = "load" /\ requests'[r].gen = gen
        /\ requests'[r].who = cookie /\ requests'[r].reply = Null /\ requests'[r].keys = {}
        /\ requests'[r].screen = q.screen
        /\ \A s \in Requests \ {r} : requests'[s] = requests[s]
        /\ requests' \in [Requests -> {Free} \cup Request]
    <3>1. /\ TypeOK /\ requests[r] \in Request /\ cookie' = cookie /\ cookie' \in Someone
          /\ gen' = gen /\ gen' \in Nat /\ q.gen = gen /\ Then(r, "load")
      BY <1>1, <1>2, <1>5, <2>1 DEF IInv
    <3>2. "load" \in {"me", "load"} /\ q.screen \in BOOLEAN
      BY DEF Request
    <3> QED
      BY <1>1, <3>1, <3>2, ThenCall
  <2>4. TypeOK'
    BY <1>2, <1>5, <2>1, <2>2, <2>3 DEF IInv, TypeOK, Clean
  <2>5. \A k \in Keys : written[k] # Null => written[k].gen # gen
    BY <2>1 DEF Blank, IInv, TypeOK
  <2>6. ClientOK'
    BY <1>2, <1>5, <2>1, <2>2, <2>5 DEF IInv, ClientOK
  <2>7. ASSUME NEW s \in Requests \ {r}
        PROVE  /\ requests[s].op # "login"
               /\ requests[s].op = "me" => requests[s].gen # gen
               /\ requests[s].op \in Reading /\ Clean => requests[s].gen # gen
    <3>1. requests[s].op # "login"
      BY <1>1, <1>5, OneEnters
    <3>2. requests[s].op = "me" => requests[s].gen # gen
      BY <1>1, <1>5 DEF IInv, Alone, Entering
    <3>3. requests[s].op \in Reading /\ Clean => requests[s].gen # gen
      BY <2>2, NotFree DEF IInv, Reading, RequestOK
    <3> QED
      BY <3>1, <3>2, <3>3
  <2>8. \A s \in Requests : RequestOK(s)'
    <3> TAKE s \in Requests
    <3>1. CASE s = r
      <4>1. q.gen \in 1..gen' /\ (q.screen \/ q.gen = 1)
        BY <1>1, <1>2, <1>5 DEF RequestOK, Entering
      <4> QED
        BY <1>1, <1>2, <1>5, <2>1, <2>3, <3>1, <4>1, ClientSendAssumption DEF RequestOK, Entering, Reading
    <3>2. CASE s # r
      BY <1>2, <1>5, <2>1, <2>2, <2>3, <2>7, <3>2, RequestFrame
    <3> QED
      BY <3>1, <3>2
  <2>9. Alone'
    BY <1>1, <1>5, <2>3 DEF IInv, Alone, Entering
  <2>10. LoadFirst'
    BY <1>5, <2>2, <2>3, <2>7 DEF LoadFirst, History, Reading
  <2>11. StoreOK'
    BY <1>2 DEF IInv, StoreOK
  <2> QED
    BY <2>4, <2>6, <2>8, <2>9, <2>10, <2>11 DEF IInv
<1> QED
  BY <1>1, <1>3, <1>4, <1>5 DEF TakeMe, Fresh

LEMMA TakeLoadKeeps ==
  ASSUME IInv, NEW r \in Requests, TakeLoad(r)
  PROVE  IInv'
<1>1. PICK q \in Request : q = requests[r] /\ q.op = "load"
  BY NotFree DEF TakeLoad, IInv
<1>2. /\ UNCHANGED <<stored, cookie, time, written, refused, crossed>> /\ refused' \subseteq Keys
      /\ RequestOK(r) /\ requests' = [requests EXCEPT ![r] = Free] /\ cookie \in Someone
  BY DEF TakeLoad, Over, history, IInv, TypeOK, Someone
<1>3. CASE UNCHANGED client
  BY <1>2, <1>3, StillCalm, OverKeeps
<1>4. CASE q.gen = gen /\ EmptySnapshot
  BY <1>1, <1>2, <1>4, EmptyKeeps DEF Entering
<1>5. CASE q.gen = gen /\ Answer(q) = "ok" /\ Loaded(q)
  <2>1. /\ gen # 0 /\ q.keys \subseteq Keys
        /\ Clean => user # Null /\ \A k \in q.keys : written[k].user = user
    BY <1>1, <1>5, AnswerOk, ReadMine DEF Reading
  <2>2. /\ shown' = q.keys /\ synced' = TRUE /\ UNCHANGED <<gen, user, pending, timers>>
        /\ Clean' = Clean
    BY <1>2, <1>5 DEF Loaded, Clean
  <2>3. /\ requests' \in [Requests -> {Free} \cup Request] /\ requests'[r] = Free
        /\ \A s \in Requests \ {r} : requests'[s] = requests[s]
    BY <1>2 DEF IInv, TypeOK
  <2>4. TypeOK'
    BY <1>2, <2>1, <2>2, <2>3 DEF IInv, TypeOK, Clean
  <2>5. ClientOK'
    BY <1>2, <2>1, <2>2 DEF IInv, ClientOK
  <2>6. ASSUME NEW s \in Requests \ {r}, requests[s].op \in Entering
        PROVE  requests[s].gen # gen
    BY <1>1, <1>5, <2>6 DEF IInv, Alone, Entering
  <2>7. \A s \in Requests : RequestOK(s)'
    <3> TAKE s \in Requests
    <3>1. CASE s = r
      BY <2>3, <3>1, FreeOK DEF IInv
    <3>2. CASE s # r
      <4>1. requests[s].op = "login" => user = Null
        BY NotFree DEF IInv, RequestOK
      <4> QED
        BY <1>2, <2>2, <2>3, <2>6, <3>2, <4>1, RequestFrame DEF IInv, TypeOK, Entering
    <3> QED
      BY <3>1, <3>2
  <2>8. Alone'
    BY <2>3, NotFree DEF IInv, Alone, Entering
  <2>9. LoadFirst'
    <3>1. Free.op # "load"
      BY DEF Free
    <3> QED
      BY <2>2, <2>3, <2>6, <3>1 DEF LoadFirst, Entering
  <2>10. StoreOK'
    BY <1>2 DEF IInv, StoreOK
  <2> QED
    BY <2>4, <2>5, <2>7, <2>8, <2>9, <2>10 DEF IInv
<1> QED
  BY <1>1, <1>3, <1>4, <1>5 DEF TakeLoad, Fresh

LEMMA LoseKeeps ==
  ASSUME IInv, NEW r \in Requests, Lose(r)
  PROVE  IInv'
<1>1. PICK q \in Request : q = requests[r] /\ q.op \notin {"free", "orphan"}
  BY NotFree DEF Lose, IInv
<1>2. /\ UNCHANGED <<stored, cookie, time, written, refused, crossed>> /\ refused' \subseteq Keys
      /\ RequestOK(r) /\ cookie \in Someone
  BY DEF Lose, history, IInv, TypeOK, Someone
<1>3. \/ q.gen = gen /\ q.op \in Entering /\ EmptySnapshot
      \/ Calm
  <2>1. CASE UNCHANGED client
    BY <1>2, <2>1, StillCalm
  <2>2. CASE q.op \in {"send", "retry"} /\ Schedule(q.key)
    <3>1. q.key \in Keys
      BY <1>1, <2>2, SendOfUser
    <3> QED
      BY <1>2, <2>2, <3>1, ScheduleCalm
  <2> QED
    BY <1>1, <2>1, <2>2 DEF Lose, Fresh, Entering
<1>4. CASE requests' = [requests EXCEPT ![r] = Free]
  BY <1>1, <1>2, <1>3, <1>4, EmptyKeeps, OverKeeps
<1>5. CASE q.op \in {"send", "retry"} /\ requests' = [requests EXCEPT ![r] = [q EXCEPT !.op = "orphan"]]
  <2>1. PICK p : p = [q EXCEPT !.op = "orphan"]
    OBVIOUS
  <2>2. /\ p \in Request /\ p.op = "orphan" /\ p.gen = q.gen /\ p.key = q.key /\ p.who = q.who
        /\ p.reply = q.reply /\ p.keys = q.keys /\ p.screen = q.screen
    BY <2>1 DEF Request
  <2>3. /\ requests'[r] = p /\ \A s \in Requests \ {r} : requests'[s] = requests[s]
        /\ requests' \in [Requests -> {Free} \cup Request]
    BY <1>5, <2>1, <2>2 DEF IInv, TypeOK
  <2>4. Calm
    BY <1>3, <1>5 DEF Entering
  <2>5. RequestOK(r)'
    BY <1>1, <1>2, <1>5, <2>2, <2>3, <2>4 DEF RequestOK, Calm, Entering, Reading
  <2>6. /\ StoreOK' /\ stored \subseteq stored' /\ stored' \subseteq [key : Keys, user : Users]
        /\ time' \in 0..MaxTime
    BY <1>2 DEF IInv, TypeOK, StoreOK
  <2> QED
    BY <1>2, <2>2, <2>3, <2>4, <2>5, <2>6, CalmKeeps DEF Entering, History
<1> QED
  BY <1>1, <1>4, <1>5 DEF Lose
-----------------------------------------------------------------------------
LEMMA Start ==
  ASSUME Init
  PROVE  IInv
<1>1. TypeOK
  <2>1. pending \in [Keys -> {"none", "pending", "failed"}]
    BY DEF Init
  <2>2. requests \in [Requests -> {Free} \cup Request]
    BY DEF Init
  <2>3. written \in [Keys -> {Null} \cup [user : Users, gen : Nat, at : 0..MaxTime]]
    BY DEF Init
  <2>4. time \in 0..MaxTime
    BY ClientSendAssumption DEF Init
  <2>5. /\ gen \in Nat /\ user \in Someone /\ cookie \in Someone /\ shown \subseteq Keys
        /\ synced \in BOOLEAN /\ ~synced /\ stored = {} /\ refused \subseteq Keys /\ timers = {}
        /\ crossed = 0 /\ gen = 0
    BY ClientSendAssumption DEF Init, Someone
  <2> QED
    BY <2>1, <2>2, <2>3, <2>4, <2>5 DEF TypeOK, Someone
<1>2. \A r \in Requests : requests[r] = Free /\ requests[r].op = "free"
  BY DEF Init, Free
<1>3. \A r \in Requests : RequestOK(r)
  BY <1>1, <1>2, NotFree DEF RequestOK
<1>4. ClientOK
  BY DEF Init, ClientOK
<1>5. Alone /\ LoadFirst
  BY <1>2 DEF Alone, LoadFirst, Entering
<1>6. StoreOK
  BY DEF Init, StoreOK
<1> QED
  BY <1>1, <1>3, <1>4, <1>5, <1>6 DEF IInv

LEMMA Steps ==
  ASSUME IInv, [Next]_vars
  PROVE  IInv'
<1>1. CASE UNCHANGED vars
  <2>1. Calm
    BY <1>1, StillCalm DEF vars, history
  <2> QED
    BY <1>1, <2>1, IdleKeeps DEF vars, history, IInv, TypeOK
<1>2. ASSUME NEW r \in Requests,
             Resume(r) \/ Logout(r) \/ Sync(r) \/ Reload(r) \/ \E u \in Users : Login(r, u)
      PROVE  IInv'
  BY <1>2, BeginKeeps, SyncKeeps
<1>3. ASSUME NEW r \in Requests, Serve(r) \/ ServeOrphan(r) \/ Head(r)
      PROVE  IInv'
  BY <1>3, ServeKeeps, OrphanKeeps, HeadKeeps
<1>4. ASSUME NEW r \in Requests, Take(r)
      PROVE  IInv'
  BY <1>4, TakeSendKeeps, TakeLoginKeeps, TakeMeKeeps, TakeLoadKeeps, TakeReloadKeeps,
     TakeSyncKeeps, TakeResetKeeps, TakeLogoutKeeps, LoseKeeps DEF Take
<1>5. ASSUME NEW r \in Requests, NEW k \in Keys, Send(r, k) \/ Retry(r, k)
      PROVE  IInv'
  BY <1>5, SendKeeps, RetryKeeps
<1>6. ASSUME NEW k \in Keys, RetryFires(k) \/ Event(k)
      PROVE  IInv'
  BY <1>6, FiresKeeps, EventKeeps
<1> QED
  BY <1>1, <1>2, <1>3, <1>4, <1>5, <1>6, TickKeeps DEF Next

\* The types, and to whom and to which generation everything belongs (login, logout,
\* current(g)).
THEOREM Inductive == Spec => []IInv
<1>1. Init => IInv
  BY Start
<1>2. IInv /\ [Next]_vars => IInv'
  BY Steps
<1> QED
  BY <1>1, <1>2, PTL DEF Spec

\* The state keeps its types.
THEOREM Types == Spec => []TypeOK
BY Inductive, PTL DEF IInv

\* A message is stored for its author, whatever is retried or answered late.
THEOREM AuthorsKept == Spec => []StoredForAuthor
<1>1. IInv => StoredForAuthor
  BY DEF IInv, StoreOK, StoredForAuthor
<1> QED
  BY <1>1, Inductive, PTL

\* Nothing that waits, is shown or is retried outlives its generation.
THEOREM GenerationsApart == Spec => []Isolated
<1>1. ASSUME IInv
      PROVE  Isolated
  <2>1. \A k \in Keys : pending[k] # "none" \/ k \in timers => written[k].gen = gen
    BY <1>1 DEF IInv, ClientOK
  <2>2. \A k \in shown : user # Null /\ crossed # gen => written[k].user = user
    BY <1>1 DEF IInv, ClientOK, Clean
  <2>3. \A r \in Requests : requests[r].op \in {"send", "retry"} =>
          requests[r].gen = written[requests[r].key].gen
    BY <1>1, NotFree DEF IInv, RequestOK
  <2>4. ASSUME NEW r \in Requests, requests[r].op \in Lists, requests[r].gen = gen, crossed # gen
        PROVE  user # Null /\ \A k \in requests[r].keys : written[k].user = user
    <3>1. requests[r] \in Request /\ RequestOK(r) /\ requests[r].op \in Reading /\ StoreOK
      BY <1>1, <2>4, NotFree DEF IInv, Lists, Reading
    <3>2. user # Null /\ requests[r].who \in {user, Null}
      BY <2>4, <3>1 DEF RequestOK, Clean
    <3>3. ASSUME NEW k \in requests[r].keys
          PROVE  written[k].user = user
      <4>1. PICK m \in stored : m = [key |-> k, user |-> requests[r].who]
        BY <3>1 DEF RequestOK
      <4>2. m.key = k /\ m.user = requests[r].who /\ m.user \in Users
        BY <1>1, <4>1 DEF IInv, TypeOK
      <4>3. written[k].user = m.user
        BY <3>1, <4>2 DEF StoreOK
      <4> QED
        BY <3>2, <4>2, <4>3, ClientSendAssumption
    <3> QED
      BY <3>2, <3>3
  <2> QED
    BY <2>1, <2>2, <2>3, <2>4 DEF Isolated
<1> QED
  BY <1>1, Inductive, PTL
=============================================================================
