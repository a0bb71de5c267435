-------------------------- MODULE ClientSync_proofs --------------------------
(***************************************************************************)
(* ClientSync: the recovery cursor covers no gap and never retreats, for   *)
(* any number of messages, sizes of a page, connections lost, requests     *)
(* that fail and lists, where a client that starts over does so alone.     *)
(***************************************************************************)
EXTENDS ClientSync, SequenceTheorems, TLAPS

\* Cursors stay good, or whatever starts over is the only thing under way: no
\* connection is lost, no timer syncs and no list is asked for beside it. Outside
\* of this the cursor may cover a gap (overlapping resets, a list that was asked
\* for before one).
ResetsAlone ==
  \A r \in Regimes : r.weeks = 0 \/ (r.drops = 0 /\ ~r.timers /\ ~r.lists)
-----------------------------------------------------------------------------
(* The inductive invariant *)

Types == {"created", "deleted"}
Contents == {"none", "text", "expired"}
Records == [type : Types, msg : Messages]
Events == [id : Nat, type : Types, msg : Messages, content : {"text", "expired"}]

Stores == [rows : [Messages -> Contents], tombs : SUBSET Messages,
           cursor : Cursors \cup {Null}, at : Nat, floor : Nat]

Pages == [status : {"reset", "bad"}]
         \cup [status : {"ok"}, events : SUBSET Events, next : Cursors,
               through : Cursors, more : BOOLEAN]

Listings == [rows : [Messages -> Contents], at : Nat]

Tasks == [step : {"idle", "sync", "list", "page"}, after : Cursors \cup {Null},
          through : Cursors \cup {Null}, given : BOOLEAN, boot : BOOLEAN,
          answer : Pages \cup Listings \cup {Null}, at : Cursors \cup {Null}]

\* A message is created once and deleted once, in this order.
LogOK ==
  /\ log \in Seq(Records)
  /\ \A i, j \in 1..Len(log) :
       i < j /\ log[i].msg = log[j].msg =>
         log[i].type = "created" /\ log[j].type = "deleted"

BoundsOK ==
  /\ regime \in Regimes
  /\ week \in Nat /\ week <= regime.weeks
  /\ drops \in Nat /\ drops <= regime.drops

\* The event e tells of a row of the log l; the cursor c was issued for one.
Tells(l, e) ==
  /\ e \in Events /\ e.id \in 1..Len(l)
  /\ e.type = l[e.id].type /\ e.msg = l[e.id].msg

Issue(l, w, c) == c \in Cursors /\ c.at <= Len(l) /\ c.week <= w

\* What was deleted shows no text, and the cursor is not ahead of the position.
StoreOK(l, w, z, s) ==
  /\ s \in Stores
  /\ s.at <= Len(l) /\ s.floor <= Len(l)
  /\ \A m \in s.tombs : s.rows[m] # "text"
  /\ s.cursor # Null => Issue(l, w, s.cursor) /\ s.cursor.at <= s.at
  /\ z = 0 => s.cursor # Null /\ s.floor = 0

HeldOK == \A i \in DOMAIN buffered : Tells(log, buffered[i]) /\ buffered[i].id = i

\* What a connection carries comes after the position of its ready frame.
FrameOK(k) ==
  IF frames[k].type = "ready"
  THEN /\ Issue(log, week, frames[k].cursor) /\ frames[k].cursor.week = week
       /\ frames[k].cursor.at <= sent
       /\ \A j \in 1..Len(frames) :
            j > k => frames[j].type # "ready" /\ frames[j].id > frames[k].cursor.at
  ELSE Tells(log, frames[k]) /\ frames[k].id <= sent

WireOK ==
  /\ sent \in Nat /\ sent <= Len(log)
  /\ socket \in {"open", "closed"} /\ (socket = "closed" => frames = <<>>)
  /\ frames \in Seq(Events \cup [type : {"ready"}, cursor : Cursors])
  /\ \A k \in 1..Len(frames) : FrameOK(k)

\* An answer to sync: every event from where it was asked to where it ends.
PageOK(l, w, z, k, a) ==
  /\ a \in Pages
  /\ a.status = "reset" => z # 0 /\ k.given
  /\ a.status = "ok" =>
       /\ Issue(l, w, a.next) /\ a.next.week = w
       /\ Issue(l, w, a.through) /\ (~k.given => a.through.week = w)
       /\ \A e \in a.events : Tells(l, e)
       /\ \A i \in (k.after.at + 1)..a.next.at : \E e \in a.events : e.id = i

\* A sync asks with good cursors, its own or the connection's.
SyncOK(l, w, z, k) ==
  /\ k.step = "sync" /\ ~k.boot
  /\ Issue(l, w, k.after)
  /\ k.through # Null => Issue(l, w, k.through)
  /\ IF k.given THEN k.through # Null
     ELSE k.after.week = w /\ (k.through # Null => k.through.week = w)
  /\ k.answer # Null => PageOK(l, w, z, k, k.answer)

Listed(l, a) ==
  /\ a \in Listings /\ a.at <= Len(l)
  /\ \A i \in 1..a.at :
       IF l[i].type = "created" THEN a.rows[l[i].msg] # "none"
       ELSE a.rows[l[i].msg] = "expired"

\* A snapshot is read after the position its caller goes on from.
LoadOK(l, w, z, k) ==
  /\ z # 0
  /\ k.step \in {"list", "page"}
  /\ k.given \/ k.boot
  /\ Issue(l, w, k.through) /\ k.through.week = w
  /\ k.answer # Null => Listed(l, k.answer) /\ k.answer.at >= k.through.at
  /\ k.step = "page" => Issue(l, w, k.at) /\ k.at.at >= k.through.at

TaskOK(l, w, z, k) == k = Idle \/ SyncOK(l, w, z, k) \/ LoadOK(l, w, z, k)

\* No sync was asked for from beyond the cursor, and there is none while a snapshot
\* is loaded.
Behind(k, s) ==
  /\ k.step = "sync" => s.cursor # Null /\ k.after.at <= s.cursor.at
  /\ k.step \in {"list", "page"} => s.cursor = Null

TasksOK ==
  /\ tasks \in [Slots -> Tasks]
  /\ \A t \in Slots : TaskOK(log, week, regime.weeks, tasks[t]) /\ Behind(tasks[t], store)

\* Who may start over is alone, and what its connection carries comes after the
\* position it goes on from.
AloneOK ==
  regime.weeks # 0 =>
    /\ tasks["stale"] = Idle /\ tasks["timer"] = Idle
    /\ tasks["link"] # Idle => socket = "open"
    /\ tasks["link"].given \/ tasks["link"].boot =>
         /\ tasks["link"].through.week = week
         /\ tasks["link"].through.at <= sent
         /\ \A k \in 1..Len(frames) :
              frames[k].type # "ready" => frames[k].id > tasks["link"].through.at

OlderOK ==
  older # Null =>
    /\ regime.lists
    /\ older.rows # Null => older.rows \in [Messages -> Contents]

\* The messages of whose text nothing under way tells.
Answered(k) ==
  IF k.step = "sync" /\ k.answer # Null /\ k.answer.status = "ok" THEN k.answer.events
  ELSE {}

InFlight ==
  {frames[k] : k \in 1..Len(frames)} \cup UNION {Answered(tasks[t]) : t \in Slots}

Silent ==
  {m \in Messages : \A e \in InFlight :
     e.type = "created" /\ e.msg = m => e.content # "text"}

\* The store shows the log up to n. A deletion it has no tombstone for lies within
\* its snapshot, and nothing under way brings the text back.
Told(l, silent, s, n) ==
  \A i \in 1..n :
    IF l[i].type = "created" THEN s.rows[l[i].msg] # "none" \/ l[i].msg \in s.tombs
    ELSE \/ l[i].msg \in s.tombs
         \/ i <= s.floor /\ s.rows[l[i].msg] # "text" /\ l[i].msg \in silent

ToldOK == store.cursor # Null => Told(log, Silent, store, store.cursor.at)

IInv ==
  /\ LogOK /\ BoundsOK /\ StoreOK(log, week, regime.weeks, store)
  /\ HeldOK /\ WireOK /\ TasksOK /\ AloneOK /\ OlderOK /\ ToldOK
-----------------------------------------------------------------------------
(* The operators *)

\* Types of the constants, and what is no cursor.
LEMMA ConstantsTyped ==
  /\ MaxMessages \in Nat /\ Null \notin Cursors
  /\ \A r \in Regimes :
       r.page \in Nat /\ r.page > 0 /\ r.weeks \in Nat /\ r.drops \in Nat
       /\ r.timers \in BOOLEAN /\ r.lists \in BOOLEAN
  BY StreamAssumption

\* mergeMessage() of one row.
LEMMA MergedRow ==
  ASSUME NEW s \in Stores, NEW m \in Messages, NEW c
  PROVE  Merged(s, m, c).rows[m] = IF m \in s.tombs THEN s.rows[m] ELSE c
  BY DEF Merged, Stores

\* What applyEvent() of events makes of one row: it never empties it, a creation
\* fills it, a deletion takes its text, and the text comes from a creation.
LEMMA AppliedRow ==
  ASSUME NEW s \in Stores, NEW events \in SUBSET Events, NEW m \in Messages
  PROVE  LET r == Applied(s, events).rows[m]
         IN /\ r \in Contents
            /\ r = "none" => /\ s.rows[m] = "none"
                             /\ m \in s.tombs
                                \/ \A e \in events : ~(e.type = "created" /\ e.msg = m)
            /\ r = "text" => /\ \A e \in events : ~(e.type = "deleted" /\ e.msg = m)
                             /\ \/ s.rows[m] = "text"
                                \/ m \notin s.tombs /\ \E e \in events :
                                     e.type = "created" /\ e.msg = m /\ e.content = "text"
<1> DEFINE made == {e \in events : e.type = "created" /\ e.msg = m}
           first == CHOOSE e \in made : TRUE
           base == IF made = {} THEN s.rows[m] ELSE Merged(s, m, first.content).rows[m]
           deleted == {e.msg : e \in {x \in events : x.type = "deleted"}}
           row == IF m \in deleted /\ base # "none" THEN "expired" ELSE base
<1>1. Applied(s, events).rows[m] = row
  BY DEF Applied, Stores
<1>2. made # {} => first \in made
  OBVIOUS
<1>3. base = IF made = {} \/ m \in s.tombs THEN s.rows[m] ELSE first.content
  BY MergedRow
<1>4. s.rows[m] \in Contents /\ (first \in made => first.content \in {"text", "expired"})
  BY DEF Stores, Events
<1>5. m \in deleted <=> \E e \in events : e.type = "deleted" /\ e.msg = m
  OBVIOUS
<1>6. row \in Contents
  BY <1>2, <1>3, <1>4 DEF Contents
<1>7. ASSUME row = "none"
      PROVE  s.rows[m] = "none"
             /\ (m \in s.tombs \/ \A e \in events : ~(e.type = "created" /\ e.msg = m))
  <2>1. base = "none"
    BY <1>7
  <2>2. made = {} \/ m \in s.tombs
    BY <2>1, <1>2, <1>3, <1>4
  <2>3. s.rows[m] = "none"
    BY <2>1, <2>2, <1>3
  <2>4. CASE made = {}
    BY <2>3, <2>4
  <2>5. CASE m \in s.tombs
    BY <2>3, <2>5
  <2> QED BY <2>2, <2>4, <2>5
<1>8. ASSUME row = "text"
      PROVE  /\ \A e \in events : ~(e.type = "deleted" /\ e.msg = m)
             /\ \/ s.rows[m] = "text"
                \/ m \notin s.tombs /\ \E e \in events :
                     e.type = "created" /\ e.msg = m /\ e.content = "text"
  <2>1. base = "text" /\ m \notin deleted
    BY <1>8
  <2>2. CASE made = {} \/ m \in s.tombs
    BY <2>1, <2>2, <1>3, <1>5
  <2>3. CASE ~(made = {} \/ m \in s.tombs)
    <3>1. first \in made /\ first.content = "text" /\ m \notin s.tombs
      BY <2>1, <2>3, <1>2, <1>3
    <3> QED BY <3>1, <2>1, <1>5
  <2> QED BY <2>2, <2>3
<1> HIDE DEF row, base, first, made, deleted
<1> QED BY <1>1, <1>6, <1>7, <1>8

\* And of the rest of the store: only deletions add to the tombstones.
LEMMA AppliedRest ==
  ASSUME NEW s \in Stores, NEW events \in SUBSET Events
  PROVE  /\ Applied(s, events) \in Stores
         /\ Applied(s, events).cursor = s.cursor
         /\ Applied(s, events).at = s.at /\ Applied(s, events).floor = s.floor
         /\ s.tombs \subseteq Applied(s, events).tombs
         /\ \A e \in events : e.type = "deleted" => e.msg \in Applied(s, events).tombs
         /\ \A m \in Applied(s, events).tombs :
              m \in s.tombs \/ \E e \in events : e.type = "deleted" /\ e.msg = m
<1> DEFINE a == Applied(s, events)
           dead == {e.msg : e \in {x \in events : x.type = "deleted"}}
<1>1. /\ a.cursor = s.cursor /\ a.at = s.at /\ a.floor = s.floor
      /\ a.tombs = s.tombs \cup dead
  BY DEF Applied, Stores
<1>2. DOMAIN a.rows = Messages /\ a.rows = [m \in Messages |-> a.rows[m]]
  BY DEF Applied, Stores
<1>3. a.rows \in [Messages -> Contents]
  <2>1. \A m \in Messages : a.rows[m] \in Contents
    BY AppliedRow
  <2> HIDE DEF a
  <2> QED BY <2>1, <1>2
<1>4. dead \subseteq Messages
  BY DEF Events
<1>5. DOMAIN a = DOMAIN s /\ a = [f \in DOMAIN s |-> a[f]]
  BY DEF Applied
<1>6. a \in Stores
  <2> HIDE DEF a, dead
  <2>1. DOMAIN s = {"rows", "tombs", "cursor", "at", "floor"}
    BY DEF Stores
  <2>2. a.tombs \in SUBSET Messages /\ a.cursor \in Cursors \cup {Null}
        /\ a.at \in Nat /\ a.floor \in Nat
    BY <1>1, <1>4 DEF Stores
  <2> QED BY <1>3, <1>5, <2>1, <2>2 DEF Stores
<1>7. \A m : m \in dead <=> \E e \in events : e.type = "deleted" /\ e.msg = m
  OBVIOUS
<1> HIDE DEF a, dead
<1>8. /\ s.tombs \subseteq a.tombs
      /\ \A e \in events : e.type = "deleted" => e.msg \in a.tombs
      /\ \A m \in a.tombs :
              m \in s.tombs \/ \E e \in events : e.type = "deleted" /\ e.msg = m
  BY <1>1, <1>7
<1> QED BY <1>1, <1>6, <1>8 DEF a

\* A store stays good when events are applied to it.
LEMMA AppliedOK ==
  ASSUME NEW l, NEW w, NEW z, NEW s, StoreOK(l, w, z, s), NEW events \in SUBSET Events
  PROVE  StoreOK(l, w, z, Applied(s, events))
<1> DEFINE a == Applied(s, events)
<1>0. s \in Stores
  BY DEF StoreOK
<1>1. /\ a \in Stores /\ a.cursor = s.cursor /\ a.at = s.at /\ a.floor = s.floor
      /\ \A m \in a.tombs : m \in s.tombs \/ \E e \in events : e.type = "deleted" /\ e.msg = m
  BY <1>0, AppliedRest
<1>2. \A m \in a.tombs : a.rows[m] # "text"
  <2> SUFFICES ASSUME NEW m \in a.tombs, a.rows[m] = "text" PROVE FALSE
    OBVIOUS
  <2>1. m \in Messages
    BY <1>1 DEF Stores
  <2>2. /\ \A e \in events : ~(e.type = "deleted" /\ e.msg = m)
        /\ s.rows[m] = "text" \/ m \notin s.tombs
    BY <1>0, <2>1, AppliedRow
  <2> HIDE DEF a
  <2>3. m \in s.tombs
    BY <1>1, <2>2
  <2> QED BY <2>2, <2>3 DEF StoreOK
<1> HIDE DEF a
<1>3. StoreOK(l, w, z, a)
  BY <1>1, <1>2 DEF StoreOK
<1> QED BY <1>3 DEF a

\* What a store showed it goes on showing, if none of the events brings back a text
\* that was deleted within its snapshot.
LEMMA AppliedTold ==
  ASSUME NEW s \in Stores, NEW events \in SUBSET Events, LogOK,
         NEW silent, NEW n \in Nat, n <= Len(log), Told(log, silent, s, n),
         \A e \in events : Tells(log, e),
         \A e \in events :
           e.type = "created" /\ e.content = "text" /\ e.msg \in silent => e.id > s.floor
  PROVE  Told(log, silent, Applied(s, events), n)
<1> DEFINE a == Applied(s, events)
<1>1. /\ a \in Stores /\ a.floor = s.floor /\ s.tombs \subseteq a.tombs
  BY AppliedRest
<1> SUFFICES ASSUME NEW i \in 1..n
             PROVE  IF log[i].type = "created"
                    THEN a.rows[log[i].msg] # "none" \/ log[i].msg \in a.tombs
                    ELSE \/ log[i].msg \in a.tombs
                         \/ i <= a.floor /\ a.rows[log[i].msg] # "text" /\ log[i].msg \in silent
  BY DEF Told
<1> DEFINE m == log[i].msg
<1>2. i \in 1..Len(log) /\ log[i] \in Records /\ m \in Messages /\ Len(log) \in Nat
  <2>1. log \in Seq(Records)
    BY DEF LogOK
  <2>2. Len(log) \in Nat /\ i \in 1..Len(log)
    BY <2>1
  <2>3. log[i] \in Records
    BY <2>1, <2>2
  <2> QED BY <2>2, <2>3 DEF Records
<1>3. IF log[i].type = "created" THEN s.rows[m] # "none" \/ m \in s.tombs
      ELSE m \in s.tombs \/ (i <= s.floor /\ s.rows[m] # "text" /\ m \in silent)
  BY DEF Told
<1>4. CASE log[i].type = "created"
  <2>1. a.rows[m] = "none" => s.rows[m] = "none"
    BY <1>2, AppliedRow
  <2> HIDE DEF a, m
  <2> QED BY <1>1, <1>3, <1>4, <2>1 DEF m
<1>5. CASE log[i].type # "created"
  <2>1. CASE m \in s.tombs
    BY <1>1, <1>5, <2>1
  <2>2. CASE i <= s.floor /\ s.rows[m] # "text" /\ m \in silent
    <3>1. ASSUME a.rows[m] = "text" PROVE FALSE
      <4>1. \E e \in events : e.type = "created" /\ e.msg = m /\ e.content = "text"
        BY <1>2, <2>2, <3>1, AppliedRow
      <4>2. PICK e \in events : e.type = "created" /\ e.msg = m /\ e.content = "text"
        BY <4>1
      <4>3. e.id > s.floor /\ e.id \in 1..Len(log) /\ log[e.id].msg = m
            /\ log[e.id].type = "created"
        BY <2>2, <4>2 DEF Tells
      <4>4. i < e.id
        BY <2>2, <4>3, <1>2 DEF Stores
      <4>5. log[i].type = "created"
        BY <1>2, <4>3, <4>4 DEF LogOK
      <4> QED BY <1>5, <4>5
    <3> HIDE DEF a, m
    <3> QED BY <1>1, <1>5, <2>2, <3>1 DEF m
  <2> QED BY <1>3, <1>5, <2>1, <2>2
<1> QED BY <1>4, <1>5

\* The events of a page tell what follows the position it was asked from.
LEMMA PageTold ==
  ASSUME NEW s \in Stores, NEW events \in SUBSET Events, LogOK,
         NEW silent, NEW n \in Nat, NEW k \in Nat, NEW h \in Nat,
         k <= n, n <= h, h <= Len(log), Told(log, silent, Applied(s, events), n),
         \A e \in events : Tells(log, e),
         \A i \in (k + 1)..h : \E e \in events : e.id = i
  PROVE  Told(log, silent, Applied(s, events), h)
<1> DEFINE a == Applied(s, events)
<1>1. /\ a \in Stores
      /\ \A e \in events : e.type = "deleted" => e.msg \in a.tombs
      /\ s.tombs \subseteq a.tombs
  BY AppliedRest
<1> SUFFICES ASSUME NEW i \in 1..h
             PROVE  IF log[i].type = "created"
                    THEN a.rows[log[i].msg] # "none" \/ log[i].msg \in a.tombs
                    ELSE \/ log[i].msg \in a.tombs
                         \/ i <= a.floor /\ a.rows[log[i].msg] # "text" /\ log[i].msg \in silent
  BY DEF Told
<1>2. CASE i \in 1..n
  BY <1>2 DEF Told
<1>3. CASE i \in (n + 1)..h
  <2>1. PICK e \in events : e.id = i
    BY <1>3
  <2>2. log[i].type = e.type /\ log[i].msg = e.msg /\ e.msg \in Messages
        /\ e.type \in {"created", "deleted"}
    BY <2>1 DEF Tells, Events, Types
  <2>3. CASE e.type = "created"
    <3>1. a.rows[e.msg] = "none" => e.msg \in s.tombs
      BY <2>2, <2>3, AppliedRow
    <3> HIDE DEF a
    <3> QED BY <1>1, <2>2, <2>3, <3>1
  <2>4. CASE e.type = "deleted"
    BY <1>1, <2>2, <2>4
  <2> QED BY <2>2, <2>3, <2>4
<1> QED BY <1>2, <1>3

\* Nothing is lost of it when more messages fall silent.
LEMMA ToldSilent ==
  ASSUME NEW l, NEW s, NEW n, NEW silent, NEW quiet, Told(l, silent, s, n),
         \A m \in silent : (\E i \in 1..n : l[i].type # "created" /\ l[i].msg = m) => m \in quiet
  PROVE  Told(l, quiet, s, n)
  BY DEF Told
-----------------------------------------------------------------------------
(* What the server answers *)

LEMMA LogTyped ==
  ASSUME LogOK
  PROVE  /\ Len(log) \in Nat /\ DOMAIN log = 1..Len(log)
         /\ \A i \in 1..Len(log) :
              log[i] \in Records /\ log[i].type \in Types /\ log[i].msg \in Messages
<1>1. log \in Seq(Records)
  BY DEF LogOK
<1>2. Len(log) \in Nat /\ DOMAIN log = 1..Len(log)
  BY <1>1
<1>3. \A i \in 1..Len(log) : log[i] \in Records
  BY <1>1
<1> QED BY <1>2, <1>3 DEF Records

\* hydrateEvent(): the row as it is now, so no text of what is deleted.
LEMMA HydratedTells ==
  ASSUME LogOK, NEW i \in 1..Len(log)
  PROVE  /\ Tells(log, Hydrated(i)) /\ Hydrated(i).id = i
         /\ Hydrated(i).type = "created" /\ Hydrated(i).content = "text" =>
              Hydrated(i).msg \notin Expired
<1>1. DOMAIN log = 1..Len(log) /\ Len(log) \in Nat /\ i \in Nat
      /\ log[i].type \in Types /\ log[i].msg \in Messages
  BY LogTyped
<1>2. /\ Hydrated(i).id = i /\ Hydrated(i).type = log[i].type /\ Hydrated(i).msg = log[i].msg
      /\ Hydrated(i).content = IF log[i].type = "created" THEN Content(log[i].msg) ELSE "expired"
  BY DEF Hydrated
<1>3. log[i].msg \in Created
  BY <1>1 DEF Created
<1>4. Content(log[i].msg) = IF log[i].msg \in Expired THEN "expired" ELSE "text"
  BY <1>3 DEF Content
<1>5. Hydrated(i) \in Events
  BY <1>1, <1>4 DEF Hydrated, Events
<1> QED BY <1>1, <1>2, <1>4, <1>5 DEF Tells

\* Upto() stays between its arguments.
LEMMA UptoBetween ==
  ASSUME BoundsOK, NEW a \in Nat, NEW b \in Nat, a <= b
  PROVE  Upto(a, b) \in Nat /\ a <= Upto(a, b) /\ Upto(a, b) <= b
  BY ConstantsTyped DEF BoundsOK, Upto

LEMMA IssuedIs ==
  ASSUME LogOK, BoundsOK, NEW n \in Nat, n <= Len(log)
  PROVE  Issue(log, week, Issued(n)) /\ Issued(n).at = n /\ Issued(n).week = week
         /\ Issued(n) # Null
  BY ConstantsTyped DEF Issue, Issued, Cursors, BoundsOK

\* GET /sync: a page is whole, and only a cursor that may have expired is refused
\* for it.
LEMMA AnswerOK ==
  ASSUME LogOK, BoundsOK, NEW k, SyncOK(log, week, regime.weeks, k)
  PROVE  LET a == SyncAnswer(k.after, k.through)
         IN /\ PageOK(log, week, regime.weeks, k, a)
            /\ a.status = "ok" =>
                 \A e \in a.events : e.type = "created" /\ e.content = "text" => e.msg \notin Expired
<1> DEFINE a == SyncAnswer(k.after, k.through)
           top == IF k.through = Null THEN Issued(Len(log)) ELSE k.through
           end == Upto(k.after.at, top.at)
           events == {Hydrated(i) : i \in (k.after.at + 1)..end}
           good == [status |-> "ok", events |-> events, next |-> Issued(end),
                    through |-> top, more |-> end < top.at]
<1>1. a = IF ~Valid(k.after) \/ ~Valid(top) THEN [status |-> "reset"]
          ELSE IF k.after.at > top.at THEN [status |-> "bad"] ELSE good
  BY DEF SyncAnswer
<1>2. Len(log) \in Nat /\ week \in Nat /\ regime.weeks \in Nat /\ week <= regime.weeks
  BY LogTyped, ConstantsTyped DEF BoundsOK
<1>3. Issue(log, week, top) /\ Issue(log, week, k.after)
  BY <1>2, IssuedIs DEF SyncOK
<1>4. top.at \in Nat /\ top.at <= Len(log) /\ k.after.at \in Nat /\ top.week \in Nat
      /\ k.after.week \in Nat /\ top.week <= week /\ k.after.week <= week
  BY <1>3 DEF Issue, Cursors
<1>5. ~k.given => k.after.week = week /\ top.week = week
  BY <1>2, IssuedIs DEF SyncOK
<1>6. CASE ~Valid(k.after) \/ ~Valid(top)
  <2>1. a = [status |-> "reset"]
    BY <1>1, <1>6
  <2>2. k.given
    BY <1>5, <1>6 DEF Valid
  <2>3. regime.weeks # 0
    BY <1>2, <1>4, <1>6 DEF Valid
  <2>4. a \in Pages /\ a.status = "reset"
    BY <2>1 DEF Pages
  <2> HIDE DEF a
  <2> QED BY <2>2, <2>3, <2>4 DEF PageOK, a
<1>7. CASE ~(~Valid(k.after) \/ ~Valid(top)) /\ k.after.at > top.at
  <2>1. a = [status |-> "bad"]
    BY <1>1, <1>7
  <2>2. a \in Pages /\ a.status = "bad"
    BY <2>1 DEF Pages
  <2> HIDE DEF a
  <2> QED BY <2>2 DEF PageOK, a
<1>8. CASE ~(~Valid(k.after) \/ ~Valid(top)) /\ k.after.at <= top.at
  <2>1. a = good
    BY <1>1, <1>4, <1>8
  <2>2. end \in Nat /\ k.after.at <= end /\ end <= top.at /\ end <= Len(log)
    <3>1. end \in Nat /\ k.after.at <= end /\ end <= top.at
      BY <1>4, <1>8, UptoBetween
    <3> HIDE DEF end, top
    <3> QED BY <3>1, <1>4, <1>2
  <2>3. Issue(log, week, Issued(end)) /\ Issued(end).at = end /\ Issued(end).week = week
    <3> HIDE DEF end
    <3> QED BY <2>2, IssuedIs
  <2>4. \A i \in (k.after.at + 1)..end : i \in 1..Len(log)
    <3> HIDE DEF end
    <3> QED BY <2>2, <1>4, <1>2
  <2>5. \A e \in events : Tells(log, e) /\ (e.type = "created" /\ e.content = "text" => e.msg \notin Expired)
    <3> HIDE DEF end
    <3> QED BY <2>4, HydratedTells
  <2>6. \A i \in (k.after.at + 1)..end : \E e \in events : e.id = i
    <3> HIDE DEF end
    <3> QED BY <2>4, HydratedTells
  <2>7. events \in SUBSET Events
    BY <2>5 DEF Tells
  <2>8. (end < top.at) \in BOOLEAN /\ Issued(end) \in Cursors /\ top \in Cursors
    BY <2>3, <1>3 DEF Issue
  <2>9. good \in Pages
    <3> HIDE DEF end, top, events
    <3> QED BY <2>7, <2>8 DEF Pages
  <2>10. /\ good.status = "ok" /\ good.events = events /\ good.next = Issued(end)
         /\ good.through = top
    OBVIOUS
  <2> HIDE DEF a, good, events, end, top
  <2>11. PageOK(log, week, regime.weeks, k, good)
    BY <2>3, <2>5, <2>6, <2>9, <2>10, <1>3, <1>5 DEF PageOK
  <2> QED BY <2>1, <2>5, <2>10, <2>11 DEF a
<1>9. k.after.at > top.at \/ k.after.at <= top.at
  <2> HIDE DEF top
  <2> QED BY <1>4
<1> QED BY <1>6, <1>7, <1>8, <1>9

\* The list routes: the rows as the log up to their position has left them.
LEMMA ListingOK ==
  ASSUME LogOK
  PROVE  Listed(log, Listing) /\ Listing.at = Len(log)
<1>1. Len(log) \in Nat /\ DOMAIN log = 1..Len(log)
      /\ \A i \in 1..Len(log) : log[i].type \in Types /\ log[i].msg \in Messages
  BY LogTyped
<1>2. Listing.at = Len(log) /\ \A m \in Messages : Listing.rows[m] = Content(m)
  BY DEF Listing
<1>3. \A m \in Messages : Content(m) \in Contents
  BY DEF Content, Contents
<1>4. Listing \in Listings
  BY <1>1, <1>3 DEF Listing, Listings
<1>5. ASSUME NEW i \in 1..Len(log)
      PROVE  IF log[i].type = "created" THEN Content(log[i].msg) # "none"
             ELSE Content(log[i].msg) = "expired"
  <2>1. log[i].msg \in Created
    BY <1>1 DEF Created
  <2>2. log[i].type # "created" => log[i].msg \in Expired
    BY <1>1 DEF Expired, Types
  <2> QED BY <2>1, <2>2 DEF Content
<1> QED BY <1>1, <1>2, <1>4, <1>5 DEF Listed

\* What the store showed stays shown when what is newly under way was read from
\* the tables just now.
LEMMA ToldStays ==
  ASSUME LogOK, NEW s, NEW n \in Nat, n <= Len(log), Told(log, Silent, s, n),
         NEW fresh, InFlight' \subseteq InFlight \cup fresh,
         \A e \in fresh : e.type = "created" /\ e.content = "text" => e.msg \notin Expired
  PROVE  Told(log, Silent', s, n)
<1>1. SUFFICES ASSUME NEW m \in Silent, NEW i \in 1..n, log[i].type # "created", log[i].msg = m
               PROVE  m \in Silent'
  BY ToldSilent
<1>2. i \in 1..Len(log) /\ log[i].type \in Types /\ DOMAIN log = 1..Len(log)
  BY LogTyped
<1>3. m \in Messages
  BY DEF Silent
<1>4. m \in Expired
  BY <1>1, <1>2, <1>3 DEF Expired, Types
<1>5. \A e \in InFlight' : e.type = "created" /\ e.msg = m => e.content # "text"
  BY <1>4 DEF Silent
<1> QED BY <1>3, <1>5 DEF Silent
-----------------------------------------------------------------------------
(* The server commits *)

\* What a log says, a longer one says too.
LEMMA Grown ==
  ASSUME NEW l, NEW h, Len(l) \in Nat, Len(h) \in Nat, Len(l) <= Len(h),
         \A i \in 1..Len(l) : h[i] = l[i], NEW w, NEW z
  PROVE  /\ \A e : Tells(l, e) => Tells(h, e)
         /\ \A c : Issue(l, w, c) => Issue(h, w, c)
         /\ \A s : StoreOK(l, w, z, s) => StoreOK(h, w, z, s)
         /\ \A k : TaskOK(l, w, z, k) => TaskOK(h, w, z, k)
         /\ \A silent, s, n : n \in Nat /\ n <= Len(l) /\ Told(l, silent, s, n) => Told(h, silent, s, n)
<1>1. \A e : Tells(l, e) => Tells(h, e)
  BY DEF Tells
<1>2. \A c : Issue(l, w, c) => Issue(h, w, c)
  BY DEF Issue, Cursors
<1>3. \A s : StoreOK(l, w, z, s) => StoreOK(h, w, z, s)
  BY <1>2 DEF StoreOK, Stores
<1>4. ASSUME NEW k, TaskOK(l, w, z, k) PROVE TaskOK(h, w, z, k)
  <2>1. CASE SyncOK(l, w, z, k)
    <3>1. k.answer # Null => PageOK(h, w, z, k, k.answer)
      BY <2>1, <1>1, <1>2 DEF SyncOK, PageOK
    <3> QED BY <2>1, <3>1, <1>2 DEF SyncOK, TaskOK
  <2>2. CASE LoadOK(l, w, z, k)
    <3>1. ASSUME NEW a, Listed(l, a) PROVE Listed(h, a)
      <4>1. a.at \in Nat /\ a.at <= Len(l) /\ a.at <= Len(h)
        BY <3>1 DEF Listed, Listings
      <4>2. \A i \in 1..a.at : h[i] = l[i]
        BY <4>1
      <4> QED BY <3>1, <4>1, <4>2 DEF Listed
    <3> QED BY <2>2, <3>1, <1>2 DEF LoadOK, TaskOK
  <2> QED BY <1>4, <2>1, <2>2 DEF TaskOK
<1>5. ASSUME NEW silent, NEW s, NEW n, n \in Nat, n <= Len(l), Told(l, silent, s, n)
      PROVE  Told(h, silent, s, n)
  <2>1. \A i \in 1..n : h[i] = l[i]
    BY <1>5
  <2> QED BY <1>5, <2>1 DEF Told
<1> QED BY <1>1, <1>2, <1>3, <1>4, <1>5

\* A message is created once, and deleted once after that.
LEMMA LogKeeps ==
  ASSUME LogOK, Create \/ Expire
  PROVE  /\ LogOK' /\ Len(log') = Len(log) + 1 /\ \A i \in 1..Len(log) : log'[i] = log[i]
         /\ UNCHANGED <<week, regime>>
<1>1. \E m \in Messages, t \in Types :
        /\ log' = Append(log, [type |-> t, msg |-> m])
        /\ \/ t = "created" /\ m \notin Created
           \/ t = "deleted" /\ m \notin Expired
  BY DEF Create, Expire, Created, Types
<1>2. PICK m \in Messages, t \in Types :
        /\ log' = Append(log, [type |-> t, msg |-> m])
        /\ \/ t = "created" /\ m \notin Created
           \/ t = "deleted" /\ m \notin Expired
  BY <1>1
<1> DEFINE r == [type |-> t, msg |-> m]
<1>3. r \in Records /\ r.type = t /\ r.msg = m
  BY DEF Records
<1>4. log \in Seq(Records) /\ DOMAIN log = 1..Len(log) /\ Len(log) \in Nat
  BY LogTyped DEF LogOK
<1> HIDE DEF r
<1>5. /\ log' \in Seq(Records) /\ Len(log') = Len(log) + 1 /\ log'[Len(log) + 1] = r
      /\ \A i \in 1..Len(log) : log'[i] = log[i]
  BY <1>2, <1>3, <1>4 DEF r
<1>6. ASSUME NEW i \in 1..Len(log'), NEW j \in 1..Len(log'), i < j, log'[i].msg = log'[j].msg
      PROVE  log'[i].type = "created" /\ log'[j].type = "deleted"
  <2>1. i \in 1..Len(log) /\ log'[i] = log[i]
    BY <1>4, <1>5, <1>6
  <2>2. CASE j \in 1..Len(log)
    BY <1>5, <1>6, <2>1, <2>2 DEF LogOK
  <2>3. CASE j = Len(log) + 1
    <3>1. log[i].msg = m /\ log'[j].type = t
      BY <1>3, <1>5, <1>6, <2>1, <2>3
    <3>2. m \in Created
      BY <1>4, <2>1, <3>1 DEF Created
    <3>3. t = "deleted" /\ m \notin Expired
      BY <1>2, <3>2
    <3>4. log[i].type # "deleted"
      BY <1>4, <2>1, <3>1, <3>3 DEF Expired
    <3>5. log[i].type \in Types
      BY <2>1, LogTyped
    <3> QED BY <2>1, <3>1, <3>3, <3>4, <3>5 DEF Types
  <2> QED BY <1>4, <1>5, <2>2, <2>3
<1>7. LogOK'
  BY <1>5, <1>6 DEF LogOK
<1> QED BY <1>5, <1>7 DEF Create, Expire

\* Silent is a matter of what is under way.
LEMMA SameSilent ==
  ASSUME UNCHANGED <<frames, tasks>>
  PROVE  InFlight' = InFlight /\ Silent' = Silent
  BY DEF InFlight, Silent, Answered

\* A commit lengthens the log.
LEMMA CommitKeeps ==
  ASSUME IInv, Commit
  PROVE  IInv'
<1> USE DEF IInv
<1>1. /\ Create \/ Expire
      /\ UNCHANGED <<store, buffered, booting, socket, frames, sent, syncing, tasks, older, drops, fails>>
  BY DEF Commit, connection, bounds
<1>2. /\ LogOK' /\ Len(log') = Len(log) + 1 /\ \A i \in 1..Len(log) : log'[i] = log[i]
      /\ UNCHANGED <<week, regime>>
  BY <1>1, LogKeeps
<1>3. Len(log) \in Nat /\ Len(log') \in Nat /\ Len(log) <= Len(log')
  BY <1>2, LogTyped
<1>4. /\ \A e : Tells(log, e) => Tells(log', e)
      /\ \A c : Issue(log, week, c) => Issue(log', week, c)
      /\ \A s : StoreOK(log, week, regime.weeks, s) => StoreOK(log', week, regime.weeks, s)
      /\ \A k : TaskOK(log, week, regime.weeks, k) => TaskOK(log', week, regime.weeks, k)
      /\ \A silent, s, n : n \in Nat /\ n <= Len(log) /\ Told(log, silent, s, n) =>
           Told(log', silent, s, n)
  BY <1>2, <1>3, Grown
<1>5. BoundsOK' /\ StoreOK(log, week, regime.weeks, store)' /\ HeldOK' /\ OlderOK'
  BY <1>1, <1>2, <1>4 DEF BoundsOK, HeldOK, OlderOK
<1>6. WireOK'
  BY <1>1, <1>2, <1>3, <1>4 DEF WireOK, FrameOK
<1>7. TasksOK' /\ AloneOK'
  BY <1>1, <1>2, <1>4 DEF TasksOK, AloneOK
<1>8. ToldOK'
  <2>1. store.cursor # Null => store.cursor.at \in Nat /\ store.cursor.at <= Len(log)
    BY DEF StoreOK, Issue, Cursors
  <2> QED BY <1>1, <1>4, <2>1, SameSilent DEF ToldOK
<1> QED BY <1>2, <1>5, <1>6, <1>7, <1>8

\* Cursors expire while nothing is under way.
LEMMA SleepKeeps ==
  ASSUME IInv, Sleep
  PROVE  IInv'
<1> USE DEF IInv
<1>1. /\ socket = "closed" /\ older = Null /\ \A t \in Slots : tasks[t] = Idle
      /\ week < regime.weeks /\ week' = week + 1
      /\ UNCHANGED <<log, regime, store, buffered, booting, socket, frames, sent, syncing,
                     tasks, older, drops, fails>>
  BY DEF Sleep, Pass, connection, bounds
<1>2. week \in Nat /\ regime.weeks \in Nat /\ week' \in Nat /\ week' <= regime.weeks
  BY <1>1, ConstantsTyped DEF BoundsOK
<1>3. \A c : Issue(log, week, c) => Issue(log, week', c)
  BY <1>1, <1>2 DEF Issue, Cursors
<1>4. LogOK' /\ BoundsOK' /\ HeldOK' /\ OlderOK' /\ ToldOK'
  BY <1>1, <1>2, SameSilent DEF LogOK, BoundsOK, HeldOK, OlderOK, ToldOK
<1>5. StoreOK(log, week, regime.weeks, store)'
  BY <1>1, <1>3 DEF StoreOK
<1>6. WireOK'
  <2>1. frames = <<>>
    BY <1>1 DEF WireOK
  <2> QED BY <1>1, <2>1 DEF WireOK
<1>7. TasksOK'
  BY <1>1 DEF TasksOK, TaskOK, Behind, Idle
<1>8. AloneOK'
  BY <1>1 DEF AloneOK, Idle, Slots
<1> QED BY <1>4, <1>5, <1>6, <1>7, <1>8
-----------------------------------------------------------------------------
(* The connection *)

\* What is newly under way was read from the tables just now: the store, unchanged,
\* goes on telling what it told.
LEMMA NewsTold ==
  ASSUME LogOK, StoreOK(log, week, regime.weeks, store), ToldOK, UNCHANGED <<log, store>>,
         NEW fresh, InFlight' \subseteq InFlight \cup fresh,
         \A e \in fresh : e.type = "created" /\ e.content = "text" => e.msg \notin Expired
  PROVE  ToldOK'
<1>1. store.cursor # Null => store.cursor.at \in Nat /\ store.cursor.at <= Len(log)
  BY DEF StoreOK, Issue, Cursors
<1>2. store.cursor # Null => Told(log, Silent', store, store.cursor.at)
  BY <1>1, ToldStays DEF ToldOK
<1> QED BY <1>2 DEF ToldOK

\* What is under way comes from the frames and the answers.
LEMMA FromWhere ==
  ASSUME NEW fresh,
         \A k \in 1..Len(frames') :
           frames'[k] \in fresh \/ \E j \in 1..Len(frames) : frames'[k] = frames[j],
         \A t \in Slots :
           Answered(tasks'[t]) \subseteq fresh \cup UNION {Answered(tasks[u]) : u \in Slots}
  PROVE  InFlight' \subseteq InFlight \cup fresh
<1> DEFINE before == UNION {Answered(tasks[u]) : u \in Slots}
<1>1. InFlight' = {frames'[k] : k \in 1..Len(frames')} \cup UNION {Answered(tasks'[t]) : t \in Slots}
  BY DEF InFlight, Answered
<1>2. InFlight = {frames[k] : k \in 1..Len(frames)} \cup before
  BY DEF InFlight
<1>3. UNION {Answered(tasks'[t]) : t \in Slots} \subseteq fresh \cup before
  <2> HIDE DEF before
  <2> SUFFICES ASSUME NEW t \in Slots, NEW e \in Answered(tasks'[t])
               PROVE  e \in fresh \cup before
    OBVIOUS
  <2> QED BY DEF before
<1>4. {frames'[k] : k \in 1..Len(frames')} \subseteq fresh \cup {frames[k] : k \in 1..Len(frames)}
  <2> SUFFICES ASSUME NEW k \in 1..Len(frames')
               PROVE  frames'[k] \in fresh \cup {frames[j] : j \in 1..Len(frames)}
    OBVIOUS
  <2> QED OBVIOUS
<1> HIDE DEF before
<1> QED BY <1>1, <1>2, <1>3, <1>4

LEMMA IdleAnswers == Answered(Idle) = {}
  BY DEF Answered, Idle

LEMMA IdleTyped == Idle \in Tasks /\ Idle.step = "idle" /\ Idle.given = FALSE /\ Idle.boot = FALSE
  BY DEF Idle, Tasks

\* A sync that is about to be asked.
LEMMA SyncFields ==
  ASSUME NEW a, NEW h
  PROVE  /\ Sync(a, h).step = "sync" /\ Sync(a, h).after = a /\ Sync(a, h).through = h
         /\ ~Sync(a, h).boot /\ (h = Null <=> ~Sync(a, h).given) /\ Sync(a, h).answer = Null
  BY DEF Sync, Idle

LEMMA SyncNew ==
  ASSUME NEW l, NEW w, NEW z, NEW a, NEW h, Issue(l, w, a),
         h = Null \/ Issue(l, w, h), h # Null \/ a.week = w
  PROVE  /\ Sync(a, h) \in Tasks /\ SyncOK(l, w, z, Sync(a, h))
         /\ TaskOK(l, w, z, Sync(a, h)) /\ Answered(Sync(a, h)) = {}
<1>1. a \in Cursors /\ h \in Cursors \cup {Null} /\ (h # Null) \in BOOLEAN
  BY DEF Issue
<1>2. "sync" \in {"idle", "sync", "list", "page"}
  OBVIOUS
<1>3. Sync(a, h) \in Tasks
  BY <1>1, <1>2, IdleTyped DEF Sync, Tasks
<1>4. SyncOK(l, w, z, Sync(a, h)) /\ Answered(Sync(a, h)) = {}
  BY SyncFields DEF SyncOK, Answered
<1> QED BY <1>3, <1>4 DEF TaskOK

\* connect(): a ready frame with the position the peer is polled from.
LEMMA ConnectKeeps ==
  ASSUME IInv, Connect
  PROVE  IInv'
<1> USE DEF IInv
<1> DEFINE ready == [type |-> "ready", cursor |-> Issued(Len(log))]
<1>1. /\ socket = "closed" /\ socket' = "open" /\ sent' = Len(log) /\ frames' = <<ready>>
      /\ UNCHANGED <<log, week, regime, store, buffered, older, drops, fails>>
  BY DEF Connect, stream, bounds
<1>2. tasks' = IF tasks["link"] = Idle THEN tasks
               ELSE [tasks EXCEPT !["stale"] = tasks["link"], !["link"] = Idle]
  BY DEF Connect
<1>3. Len(log) \in Nat /\ week \in Nat
  BY LogTyped DEF BoundsOK
<1>4. Issue(log, week, Issued(Len(log))) /\ Issued(Len(log)).at = Len(log)
      /\ Issued(Len(log)).week = week
  BY <1>3, IssuedIs
<1>5. LogOK' /\ BoundsOK' /\ StoreOK(log, week, regime.weeks, store)' /\ HeldOK' /\ OlderOK'
  BY <1>1 DEF LogOK, BoundsOK, StoreOK, HeldOK, OlderOK
<1>6. ready.type = "ready" /\ ready.cursor = Issued(Len(log))
      /\ ready \in [type : {"ready"}, cursor : Cursors]
  BY <1>4 DEF Issue
<1> HIDE DEF ready
<1>7. Len(frames') = 1 /\ frames'[1] = ready
      /\ frames' \in Seq(Events \cup [type : {"ready"}, cursor : Cursors])
  BY <1>1, <1>6
<1>8. WireOK'
  <2>1. FrameOK(1)'
    BY <1>1, <1>3, <1>4, <1>6, <1>7 DEF FrameOK
  <2>2. (\A k \in 1..Len(frames) : FrameOK(k))'
    BY <1>7, <2>1
  <2> QED BY <1>1, <1>3, <1>7, <2>2 DEF WireOK
<1>9. /\ tasks' \in [Slots -> Tasks]
      /\ \A t \in Slots : tasks'[t] = Idle \/ \E u \in Slots : tasks'[t] = tasks[u]
  BY <1>2, IdleTyped DEF TasksOK, Slots
<1>10. TasksOK'
  <2>1. \A t \in Slots : TaskOK(log, week, regime.weeks, tasks'[t]) /\ Behind(tasks'[t], store)
    BY <1>9, IdleTyped DEF TasksOK, TaskOK, Behind
  <2> QED BY <1>1, <1>9, <2>1 DEF TasksOK
<1>11. AloneOK'
  <2>1. SUFFICES ASSUME regime.weeks # 0
                 PROVE  tasks'["stale"] = Idle /\ tasks'["timer"] = Idle /\ tasks'["link"] = Idle
    BY <1>1, IdleTyped DEF AloneOK
  <2>2. tasks["link"] = Idle /\ tasks["stale"] = Idle /\ tasks["timer"] = Idle
    BY <1>1, <2>1 DEF AloneOK
  <2> QED BY <1>2, <2>2
<1>12. ToldOK'
  <2>1. \A t \in Slots : Answered(tasks'[t]) \subseteq {ready} \cup UNION {Answered(tasks[u]) : u \in Slots}
    BY <1>9, IdleAnswers
  <2>2. \A k \in 1..Len(frames') : frames'[k] \in {ready}
    BY <1>7
  <2> DEFINE fresh == {ready}
  <2>3. \A e \in fresh : e.type # "created"
    BY <1>6
  <2> HIDE DEF fresh
  <2>4. InFlight' \subseteq InFlight \cup fresh
    BY <2>1, <2>2, FromWhere DEF fresh
  <2> QED BY <1>1, <2>3, <2>4, NewsTold
<1> QED BY <1>5, <1>8, <1>10, <1>11, <1>12

\* The frames may be lost, never those of a client that may start over.
LEMMA DropKeeps ==
  ASSUME IInv, ResetsAlone, Drop
  PROVE  IInv'
<1> USE DEF IInv
<1>1. /\ drops < regime.drops /\ drops' = drops + 1
      /\ socket' = "closed" /\ frames' = <<>> /\ sent' = 0
      /\ UNCHANGED <<log, week, regime, store, buffered, tasks, older, fails>>
  BY DEF Drop, Closed, stream
<1>2. regime.drops \in Nat /\ drops \in Nat
  BY ConstantsTyped DEF BoundsOK
<1>3. regime.weeks = 0
  BY <1>1, <1>2 DEF BoundsOK, ResetsAlone
<1>4. LogOK' /\ BoundsOK' /\ StoreOK(log, week, regime.weeks, store)' /\ HeldOK' /\ OlderOK'
  BY <1>1, <1>2 DEF LogOK, BoundsOK, StoreOK, HeldOK, OlderOK
<1>5. WireOK'
  BY <1>1, LogTyped DEF WireOK
<1>6. TasksOK' /\ AloneOK'
  BY <1>1, <1>3 DEF TasksOK, AloneOK
<1>7. ToldOK'
  <2>1. Len(frames') = 0
    BY <1>1
  <2>2. InFlight' \subseteq InFlight \cup {}
    BY <1>1, <2>1, FromWhere
  <2> QED BY <1>1, <2>2, NewsTold
<1> QED BY <1>4, <1>5, <1>6, <1>7

\* pollPeer(): what follows what was sent.
LEMMA PollKeeps ==
  ASSUME IInv, Poll
  PROVE  IInv'
<1> USE DEF IInv
<1> DEFINE end == Upto(sent, Len(log))
           new == [i \in 1..(end - sent) |-> Hydrated(sent + i)]
           Frames == Events \cup [type : {"ready"}, cursor : Cursors]
<1>1. /\ socket = "open" /\ sent < Len(log) /\ frames' = frames \o new /\ sent' = end
      /\ UNCHANGED <<log, week, regime, store, buffered, socket, tasks, older, drops, fails>>
  BY DEF Poll, stream, bounds
<1>2. Len(log) \in Nat /\ sent \in Nat /\ end \in Nat /\ sent <= end /\ end <= Len(log)
  BY <1>1, LogTyped, UptoBetween DEF WireOK
<1>3. /\ \A i \in 1..(end - sent) :
           /\ Tells(log, new[i]) /\ new[i].id = sent + i /\ new[i] \in Events
           /\ new[i].type # "ready"
           /\ new[i].type = "created" /\ new[i].content = "text" => new[i].msg \notin Expired
  <2> HIDE DEF end
  <2> SUFFICES ASSUME NEW i \in 1..(end - sent)
               PROVE  /\ Tells(log, new[i]) /\ new[i].id = sent + i /\ new[i] \in Events
                      /\ new[i].type # "ready"
                      /\ new[i].type = "created" /\ new[i].content = "text" => new[i].msg \notin Expired
    OBVIOUS
  <2>1. new[i] = Hydrated(sent + i) /\ sent + i \in 1..Len(log)
    BY <1>2
  <2>2. Tells(log, Hydrated(sent + i)) /\ Hydrated(sent + i).id = sent + i
        /\ (Hydrated(sent + i).type = "created" /\ Hydrated(sent + i).content = "text" =>
              Hydrated(sent + i).msg \notin Expired)
    BY <2>1, HydratedTells
  <2>3. Hydrated(sent + i) \in Events /\ Hydrated(sent + i).type # "ready"
    BY <2>2 DEF Tells, Events, Types
  <2> HIDE DEF new
  <2> QED BY <2>1, <2>2, <2>3
<1>4. new \in Seq(Frames) /\ Len(new) = end - sent
  <2> HIDE DEF end
  <2>1. end - sent \in Nat
    BY <1>2
  <2>2. DOMAIN new = 1..(end - sent)
    OBVIOUS
  <2>3. new \in [1..(end - sent) -> Events]
    BY <1>3
  <2> HIDE DEF new
  <2>4. new \in Seq(Events) /\ Len(new) = end - sent
    BY <2>1, <2>2, <2>3
  <2> QED BY <2>4
<1>5. frames \in Seq(Frames)
  BY DEF WireOK
<1> HIDE DEF new, end, Frames
<1>6. /\ frames' \in Seq(Frames) /\ Len(frames') = Len(frames) + (end - sent)
      /\ Len(frames) \in Nat
      /\ \A k \in 1..Len(frames) : frames'[k] = frames[k]
      /\ \A k \in (Len(frames) + 1)..Len(frames') :
           k - Len(frames) \in 1..(end - sent) /\ frames'[k] = new[k - Len(frames)]
  <2>1. frames' \in Seq(Frames) /\ Len(frames) \in Nat /\ end - sent \in Nat
    BY <1>1, <1>2, <1>4, <1>5
  <2>2. Len(frames') = Len(frames) + Len(new)
    BY <1>1, <1>4, <1>5, ConcatProperties
  <2>3. \A k \in 1..(Len(frames) + Len(new)) :
          frames'[k] = IF k <= Len(frames) THEN frames[k] ELSE new[k - Len(frames)]
    BY <1>1, <1>4, <1>5, ConcatProperties
  <2>4. \A k \in 1..Len(frames) : k \in 1..(Len(frames) + Len(new)) /\ k <= Len(frames)
    BY <2>1, <1>4
  <2>5. \A k \in (Len(frames) + 1)..Len(frames') :
          k \in 1..(Len(frames) + Len(new)) /\ ~(k <= Len(frames))
          /\ k - Len(frames) \in 1..(end - sent)
    BY <2>1, <2>2, <1>4
  <2> QED BY <2>1, <2>2, <2>3, <2>4, <2>5, <1>4
<1>7. \A k \in (Len(frames) + 1)..Len(frames') :
        /\ frames'[k].type # "ready" /\ Tells(log, frames'[k])
        /\ frames'[k].id > sent /\ frames'[k].id <= end
        /\ frames'[k].type = "created" /\ frames'[k].content = "text" => frames'[k].msg \notin Expired
  <2> SUFFICES ASSUME NEW k \in (Len(frames) + 1)..Len(frames')
               PROVE  /\ frames'[k].type # "ready" /\ Tells(log, frames'[k])
                      /\ frames'[k].id > sent /\ frames'[k].id <= end
                      /\ (frames'[k].type = "created" /\ frames'[k].content = "text" =>
                           frames'[k].msg \notin Expired)
    OBVIOUS
  <2> DEFINE i == k - Len(frames)
  <2>1. i \in 1..(end - sent) /\ frames'[k] = new[i]
    BY <1>6
  <2> HIDE DEF i
  <2>2. sent + i > sent /\ sent + i <= end
    BY <1>2, <2>1
  <2> QED BY <1>3, <2>1, <2>2
<1>8. \A k \in 1..Len(frames') : k \in 1..Len(frames) \/ k \in (Len(frames) + 1)..Len(frames')
  BY <1>6
<1>9. LogOK' /\ BoundsOK' /\ StoreOK(log, week, regime.weeks, store)' /\ HeldOK' /\ OlderOK'
      /\ TasksOK'
  BY <1>1 DEF LogOK, BoundsOK, StoreOK, HeldOK, OlderOK, TasksOK
<1>10. WireOK'
  <2>1. ASSUME NEW k \in 1..Len(frames) PROVE FrameOK(k)'
    <3>1. FrameOK(k) /\ frames'[k] = frames[k] /\ k < Len(frames) + 1
      BY <1>6 DEF WireOK
    <3>2. CASE frames[k].type = "ready"
      <4>1. frames[k].cursor.at \in Nat /\ frames[k].cursor.at <= sent
        BY <3>1, <3>2 DEF FrameOK, Issue, Cursors
      <4>2. ASSUME NEW j \in 1..Len(frames'), j > k
            PROVE  frames'[j].type # "ready" /\ frames'[j].id > frames[k].cursor.at
        <5>1. CASE j \in 1..Len(frames)
          BY <1>6, <3>1, <3>2, <4>2, <5>1 DEF FrameOK
        <5>2. CASE j \in (Len(frames) + 1)..Len(frames')
          <6>1. frames'[j].id \in Nat
            BY <1>7, <5>2 DEF Tells, Events
          <6> QED BY <1>2, <1>7, <4>1, <5>2, <6>1
        <5> QED BY <1>8, <5>1, <5>2
      <4> QED BY <1>1, <1>2, <3>1, <3>2, <4>1, <4>2 DEF FrameOK
    <3>3. CASE frames[k].type # "ready"
      <4>1. frames[k].id \in Nat /\ frames[k].id <= sent /\ Tells(log, frames[k])
        BY <3>1, <3>3 DEF FrameOK, Tells, Events
      <4>2. frames[k].id <= end
        BY <1>2, <4>1
      <4> QED BY <1>1, <3>1, <3>3, <4>1, <4>2 DEF FrameOK
    <3> QED BY <3>2, <3>3
  <2>2. ASSUME NEW k \in (Len(frames) + 1)..Len(frames') PROVE FrameOK(k)'
    BY <1>1, <1>7 DEF FrameOK
  <2>3. (\A k \in 1..Len(frames) : FrameOK(k))'
    BY <1>8, <2>1, <2>2
  <2> QED BY <1>1, <1>2, <1>6, <2>3 DEF WireOK, Frames
<1>11. AloneOK'
  <2>1. SUFFICES ASSUME regime.weeks # 0, tasks["link"].given \/ tasks["link"].boot
                 PROVE  /\ tasks["link"].through.at <= end
                        /\ \A k \in 1..Len(frames') :
                             frames'[k].type # "ready" => frames'[k].id > tasks["link"].through.at
    BY <1>1 DEF AloneOK
  <2>2. tasks["link"].through \in Cursors
    BY <2>1, IdleTyped DEF TasksOK, TaskOK, SyncOK, LoadOK, Issue, Slots
  <2>3. tasks["link"].through.at \in Nat /\ tasks["link"].through.at <= sent
    BY <2>1, <2>2 DEF AloneOK, Cursors
  <2>4. ASSUME NEW k \in 1..Len(frames'), frames'[k].type # "ready"
        PROVE  frames'[k].id > tasks["link"].through.at
    <3>1. CASE k \in 1..Len(frames)
      BY <1>6, <2>1, <2>4, <3>1 DEF AloneOK
    <3>2. CASE k \in (Len(frames) + 1)..Len(frames')
      <4>1. frames'[k].id \in Nat /\ frames'[k].id > sent
        BY <1>7, <3>2 DEF Tells, Events
      <4> QED BY <1>2, <2>3, <4>1
    <3> QED BY <1>8, <3>1, <3>2
  <2> QED BY <1>2, <2>3, <2>4
<1>12. ToldOK'
  <2> DEFINE fresh == {frames'[k] : k \in (Len(frames) + 1)..Len(frames')}
  <2>1. \A k \in 1..Len(frames') :
          frames'[k] \in fresh \/ \E j \in 1..Len(frames) : frames'[k] = frames[j]
    BY <1>6, <1>8
  <2>2. \A e \in fresh : e.type = "created" /\ e.content = "text" => e.msg \notin Expired
    BY <1>7
  <2> HIDE DEF fresh
  <2>3. \A t \in Slots : Answered(tasks'[t]) \subseteq fresh \cup UNION {Answered(tasks[u]) : u \in Slots}
    BY <1>1
  <2>4. InFlight' \subseteq InFlight \cup fresh
    BY <2>1, <2>3, FromWhere
  <2> QED BY <1>1, <2>2, <2>4, NewsTold
<1> QED BY <1>9, <1>10, <1>11, <1>12

\* Taking the first frame.
LEMMA FrameTaken ==
  ASSUME WireOK, frames # <<>>, frames' = Tail(frames), UNCHANGED <<log, week, sent, socket>>
  PROVE  /\ WireOK' /\ socket = "open"
         /\ Len(frames) \in Nat /\ 1 \in 1..Len(frames) /\ Head(frames) = frames[1]
         /\ \A k \in 1..Len(frames') : k + 1 \in 1..Len(frames) /\ frames'[k] = frames[k + 1]
<1>1. frames \in Seq(Events \cup [type : {"ready"}, cursor : Cursors])
  BY DEF WireOK
<1>2. /\ frames' \in Seq(Events \cup [type : {"ready"}, cursor : Cursors])
      /\ Len(frames) \in Nat /\ Len(frames) > 0 /\ Len(frames') = Len(frames) - 1
      /\ Head(frames) = frames[1]
  BY <1>1
<1>3. \A k \in 1..Len(frames') : k + 1 \in 1..Len(frames) /\ frames'[k] = frames[k + 1]
  BY <1>1, <1>2
<1>4. ASSUME NEW k \in 1..Len(frames') PROVE FrameOK(k)'
  <2>1. FrameOK(k + 1) /\ frames'[k] = frames[k + 1] /\ k + 1 \in 1..Len(frames)
    BY <1>3 DEF WireOK
  <2>2. CASE frames[k + 1].type = "ready"
    <3>1. ASSUME NEW j \in 1..Len(frames'), j > k
          PROVE  frames'[j].type # "ready" /\ frames'[j].id > frames[k + 1].cursor.at
      <4>1. j + 1 \in 1..Len(frames) /\ frames'[j] = frames[j + 1] /\ j + 1 > k + 1
        BY <1>3, <3>1
      <4> QED BY <2>1, <2>2, <4>1 DEF FrameOK
    <3> QED BY <2>1, <2>2, <3>1 DEF FrameOK
  <2>3. CASE frames[k + 1].type # "ready"
    BY <2>1, <2>3 DEF FrameOK
  <2> QED BY <2>2, <2>3
<1>5. (\A k \in 1..Len(frames) : FrameOK(k))'
  BY <1>4
<1>6. socket = "open" /\ WireOK'
  BY <1>2, <1>5 DEF WireOK
<1> QED BY <1>2, <1>3, <1>6

\* Leaving a frame leaves nothing new under way.
LEMMA FewerFrames ==
  ASSUME \A k \in 1..Len(frames') : k + 1 \in 1..Len(frames) /\ frames'[k] = frames[k + 1],
         \A t \in Slots :
           Answered(tasks'[t]) \subseteq UNION {Answered(tasks[u]) : u \in Slots}
  PROVE  InFlight' \subseteq InFlight
<1>1. InFlight' \subseteq InFlight \cup {}
  BY FromWhere
<1> QED BY <1>1

\* What a task is of which nothing but its answers can be said.
LEMMA SlotOK ==
  ASSUME TasksOK, NEW t \in Slots
  PROVE  tasks[t] \in Tasks /\ TaskOK(log, week, regime.weeks, tasks[t]) /\ Behind(tasks[t], store)
  BY DEF TasksOK

\* A slot is given another task, and the store is the same or further on.
LEMMA SlotSet ==
  ASSUME TasksOK, NEW t \in Slots, NEW k \in Tasks,
         tasks' = [tasks EXCEPT ![t] = k], UNCHANGED <<log, week, regime>>,
         TaskOK(log, week, regime.weeks, k), Behind(k, store'),
         \A u \in Slots : u # t /\ Behind(tasks[u], store) => Behind(tasks[u], store')
  PROVE  TasksOK'
<1>1. tasks' \in [Slots -> Tasks] /\ tasks'[t] = k /\ \A u \in Slots : u # t => tasks'[u] = tasks[u]
  BY DEF TasksOK
<1>2. \A u \in Slots : TaskOK(log, week, regime.weeks, tasks'[u]) /\ Behind(tasks'[u], store')
  BY <1>1, SlotOK
<1> QED BY <1>1, <1>2 DEF TasksOK

LEMMA SlotAnswers ==
  ASSUME tasks \in [Slots -> Tasks], NEW t \in Slots, NEW k, tasks' = [tasks EXCEPT ![t] = k],
         NEW fresh, Answered(k) \subseteq fresh
  PROVE  \A u \in Slots :
           Answered(tasks'[u]) \subseteq fresh \cup UNION {Answered(tasks[v]) : v \in Slots}
<1> SUFFICES ASSUME NEW u \in Slots
             PROVE  Answered(tasks'[u]) \subseteq fresh \cup UNION {Answered(tasks[v]) : v \in Slots}
  OBVIOUS
<1>1. CASE u = t
  BY <1>1
<1>2. CASE u # t
  <2>1. tasks'[u] = tasks[u]
    BY <1>2
  <2> QED BY <2>1
<1> QED BY <1>1, <1>2

\* The ready frame: a recovery from the cursor, or from nothing.
LEMMA ReadyKeeps ==
  ASSUME IInv, Ready
  PROVE  IInv'
<1> USE DEF IInv
<1> DEFINE high == Head(frames).cursor
           load == [Idle EXCEPT !.step = "list", !.through = high, !.boot = TRUE]
           k == IF store.cursor # Null THEN Sync(store.cursor, high) ELSE load
<1>1. /\ frames # <<>> /\ Head(frames).type = "ready" /\ frames' = Tail(frames)
      /\ tasks' = [tasks EXCEPT !["link"] = k]
      /\ UNCHANGED <<log, week, regime, store, buffered, socket, sent, older, drops, fails>>
  BY DEF Ready, stream, bounds
<1>2. /\ WireOK' /\ socket = "open" /\ 1 \in 1..Len(frames) /\ Head(frames) = frames[1]
      /\ Len(frames) \in Nat
      /\ \A j \in 1..Len(frames') : j + 1 \in 1..Len(frames) /\ frames'[j] = frames[j + 1]
  BY <1>1, FrameTaken
<1>3. /\ Issue(log, week, high) /\ high.week = week /\ high.at <= sent
      /\ \A j \in 1..Len(frames) : j > 1 => frames[j].type # "ready" /\ frames[j].id > high.at
  BY <1>1, <1>2 DEF WireOK, FrameOK
<1>4. high \in Cursors /\ high # Null
  BY <1>3, ConstantsTyped DEF Issue
<1> HIDE DEF high
<1>5. "link" \in Slots
  BY DEF Slots
<1>6. LogOK' /\ BoundsOK' /\ StoreOK(log, week, regime.weeks, store)' /\ HeldOK' /\ OlderOK'
  BY <1>1 DEF LogOK, BoundsOK, StoreOK, HeldOK, OlderOK
<1>7. /\ k \in Tasks /\ TaskOK(log, week, regime.weeks, k) /\ Behind(k, store)
      /\ Answered(k) = {} /\ k.through = high
  <2>1. CASE store.cursor # Null
    <3>1. Issue(log, week, store.cursor) /\ store.cursor.at \in Nat
      BY <2>1 DEF StoreOK, Issue, Cursors
    <3>2. k = Sync(store.cursor, high)
      BY <2>1
    <3>3. /\ k \in Tasks /\ TaskOK(log, week, regime.weeks, k) /\ Answered(k) = {}
          /\ k.step = "sync" /\ k.after = store.cursor /\ k.through = high
      <4> DEFINE c == store.cursor
                 z == regime.weeks
      <4>1. k = Sync(c, high) /\ Issue(log, week, c)
        BY <3>1, <3>2
      <4>2. Issue(log, week, high) /\ high # Null
        BY <1>3, <1>4
      <4> HIDE DEF k, c, z
      <4>3. /\ Sync(c, high) \in Tasks /\ TaskOK(log, week, z, Sync(c, high))
            /\ Answered(Sync(c, high)) = {}
        BY <4>1, <4>2, SyncNew
      <4>4. k.step = "sync" /\ k.after = c /\ k.through = high
        BY <4>1, SyncFields
      <4> QED BY <4>1, <4>3, <4>4 DEF c, z
    <3> HIDE DEF k
    <3> QED BY <2>1, <3>1, <3>3 DEF Behind
  <2>2. CASE store.cursor = Null
    <3>1. regime.weeks # 0
      BY <2>2 DEF StoreOK
    <3>2. k = load
      BY <2>2
    <3>3. /\ load.step = "list" /\ load.through = high /\ load.boot = TRUE /\ load.answer = Null
      BY DEF Idle
    <3>4. load \in Tasks
      <4>1. "list" \in {"idle", "sync", "list", "page"} /\ high \in Cursors \cup {Null}
        BY <1>4
      <4> QED BY <4>1, IdleTyped DEF Tasks
    <3> HIDE DEF load, k
    <3>5. LoadOK(log, week, regime.weeks, load)
      BY <3>1, <3>3, <1>3 DEF LoadOK
    <3> QED BY <2>2, <3>2, <3>3, <3>4, <3>5 DEF TaskOK, Behind, Answered
  <2> QED BY <2>1, <2>2
<1> HIDE DEF k
<1>8. TasksOK'
  BY <1>1, <1>5, <1>7, SlotSet
<1>9. tasks'["link"] = k /\ tasks'["stale"] = tasks["stale"] /\ tasks'["timer"] = tasks["timer"]
  BY <1>1 DEF TasksOK, Slots
<1>10. AloneOK'
  <2>1. SUFFICES ASSUME regime.weeks # 0
                 PROVE  /\ tasks["stale"] = Idle /\ tasks["timer"] = Idle /\ socket = "open"
                        /\ high.week = week /\ high.at <= sent
                        /\ \A j \in 1..Len(frames') : frames'[j].type # "ready" => frames'[j].id > high.at
    BY <1>1, <1>7, <1>9 DEF AloneOK
  <2>2. \A j \in 1..Len(frames') : frames'[j].id > high.at
    <3> SUFFICES ASSUME NEW j \in 1..Len(frames') PROVE frames'[j].id > high.at
      OBVIOUS
    <3>1. j + 1 \in 1..Len(frames) /\ frames'[j] = frames[j + 1] /\ j + 1 > 1
      BY <1>2
    <3> QED BY <1>3, <3>1
  <2> QED BY <1>2, <1>3, <2>1, <2>2 DEF AloneOK
<1>11. ToldOK'
  <2> DEFINE none == {}
  <2>1. tasks \in [Slots -> Tasks]
    BY DEF TasksOK
  <2>2. \A t \in Slots : Answered(tasks'[t]) \subseteq {} \cup UNION {Answered(tasks[u]) : u \in Slots}
    BY <1>1, <1>5, <1>7, <2>1, SlotAnswers
  <2>3. InFlight' \subseteq InFlight
    BY <1>2, <2>2, FewerFrames
  <2>4. InFlight' \subseteq InFlight \cup none
    BY <2>3
  <2>5. \A e \in none : e.type = "created" /\ e.content = "text" => e.msg \notin Expired
    OBVIOUS
  <2> HIDE DEF none
  <2> QED BY <1>1, <2>4, <2>5, NewsTold
<1> QED BY <1>2, <1>6, <1>8, <1>10, <1>11

\* Without news under way, a store that shows no less keeps what it told.
LEMMA FewerTold ==
  ASSUME LogOK, NEW s, NEW n \in Nat, n <= Len(log), Told(log, Silent, s, n),
         InFlight' \subseteq InFlight
  PROVE  Told(log, Silent', s, n)
<1> DEFINE none == {}
<1>1. InFlight' \subseteq InFlight \cup none
  OBVIOUS
<1>2. \A e \in none : e.type = "created" /\ e.content = "text" => e.msg \notin Expired
  OBVIOUS
<1> HIDE DEF none
<1> QED BY <1>1, <1>2, ToldStays

\* An event that is taken: held back, or applied.
LEMMA EventKeeps ==
  ASSUME IInv, Event
  PROVE  IInv'
<1> USE DEF IInv
<1> DEFINE e == Head(frames)
<1>1. /\ frames # <<>> /\ e.type # "ready" /\ frames' = Tail(frames)
      /\ \/ /\ buffered' = [i \in DOMAIN buffered \cup {e.id} |-> IF i = e.id THEN e ELSE buffered[i]]
            /\ UNCHANGED store
         \/ store' = Applied(store, {e}) /\ UNCHANGED buffered
      /\ UNCHANGED <<log, week, regime, socket, sent, tasks, older, drops, fails>>
  BY DEF Event, stream, bounds
<1>2. /\ WireOK' /\ 1 \in 1..Len(frames) /\ e = frames[1] /\ Len(frames) \in Nat
      /\ \A j \in 1..Len(frames') : j + 1 \in 1..Len(frames) /\ frames'[j] = frames[j + 1]
  BY <1>1, FrameTaken
<1>3. Tells(log, e) /\ e \in InFlight
  BY <1>1, <1>2 DEF WireOK, FrameOK, InFlight
<1>4. e \in Events /\ {e} \in SUBSET Events /\ store \in Stores
  BY <1>3 DEF Tells, StoreOK
<1> HIDE DEF e
<1>5. /\ StoreOK(log, week, regime.weeks, store') /\ store'.cursor = store.cursor
  BY <1>1, <1>4, AppliedOK, AppliedRest
<1>6. LogOK' /\ BoundsOK' /\ StoreOK(log, week, regime.weeks, store)' /\ OlderOK'
  BY <1>1, <1>5 DEF LogOK, BoundsOK, OlderOK
<1>7. HeldOK'
  BY <1>1, <1>3 DEF HeldOK
<1>8. TasksOK'
  BY <1>1, <1>5 DEF TasksOK, Behind
<1>9. AloneOK'
  <2>1. \A j \in 1..Len(frames') : \E i \in 1..Len(frames) : frames'[j] = frames[i]
    BY <1>2
  <2> QED BY <1>1, <2>1 DEF AloneOK
<1>10. ToldOK'
  <2>1. SUFFICES ASSUME store.cursor # Null
                 PROVE  Told(log, Silent', store', store.cursor.at)
    BY <1>1, <1>5 DEF ToldOK
  <2>2. store.cursor.at \in Nat /\ store.cursor.at <= Len(log)
        /\ Told(log, Silent, store, store.cursor.at)
    BY <2>1 DEF ToldOK, StoreOK, Issue, Cursors
  <2>3. Told(log, Silent, store', store.cursor.at)
    <3>1. \A x \in {e} : Tells(log, x)
      BY <1>3
    <3>2. \A x \in {e} : x.type = "created" /\ x.content = "text" /\ x.msg \in Silent =>
                           x.id > store.floor
      BY <1>3 DEF Silent
    <3>3. Told(log, Silent, Applied(store, {e}), store.cursor.at)
      BY <1>4, <2>2, <3>1, <3>2, AppliedTold
    <3> QED BY <1>1, <2>2, <3>3
  <2>4. InFlight' \subseteq InFlight
    <3>1. \A t \in Slots : Answered(tasks'[t]) \subseteq UNION {Answered(tasks[u]) : u \in Slots}
      BY <1>1
    <3> QED BY <1>2, <3>1, FewerFrames
  <2> QED BY <2>2, <2>3, <2>4, FewerTold
<1> QED BY <1>2, <1>6, <1>7, <1>8, <1>9, <1>10
-----------------------------------------------------------------------------
(* Recoveries: asked and answered *)

\* A slot of a client that may start over is given another task of the same
\* connection.
LEMMA SlotAlone ==
  ASSUME AloneOK, TasksOK, NEW t \in Slots, NEW k, tasks[t] # Idle,
         tasks' = [tasks EXCEPT ![t] = k],
         UNCHANGED <<week, regime, socket, sent, frames>>,
         k.given \/ k.boot =>
           (tasks[t].given \/ tasks[t].boot) /\ k.through = tasks[t].through
  PROVE  AloneOK'
<1>1. SUFFICES ASSUME regime.weeks # 0
               PROVE  /\ tasks'["stale"] = Idle /\ tasks'["timer"] = Idle /\ socket = "open"
                      /\ k.given \/ k.boot => k.through = tasks["link"].through
                           /\ (tasks["link"].given \/ tasks["link"].boot)
                      /\ tasks'["link"] = k
  BY DEF AloneOK
<1>2. /\ tasks["stale"] = Idle /\ tasks["timer"] = Idle
      /\ tasks["link"] # Idle => socket = "open"
  BY <1>1 DEF AloneOK
<1>3. t = "link"
  BY <1>2 DEF Slots
<1> QED BY <1>2, <1>3 DEF TasksOK, Slots

\* An error ends a task.
LEMMA SlotFreed ==
  ASSUME TasksOK, AloneOK, NEW t \in Slots, tasks' = [tasks EXCEPT ![t] = Idle],
         UNCHANGED <<log, week, regime, store, sent, socket, frames>>
  PROVE  TasksOK' /\ AloneOK'
<1>1. TasksOK'
  <2>1. TaskOK(log, week, regime.weeks, Idle) /\ Behind(Idle, store')
    BY IdleTyped DEF TaskOK, Behind
  <2> QED BY <2>1, IdleTyped, SlotSet
<1>2. AloneOK'
  BY IdleTyped DEF AloneOK, TasksOK, Slots
<1> QED BY <1>1, <1>2

\* scheduleSync(), beside a cursor that stays good.
LEMMA TimerSyncKeeps ==
  ASSUME IInv, ResetsAlone, TimerSync
  PROVE  IInv'
<1> USE DEF IInv
<1> DEFINE c == store.cursor
           k == Sync(c, Null)
<1>1. /\ regime.timers /\ c # Null /\ tasks' = [tasks EXCEPT !["timer"] = k]
      /\ UNCHANGED <<log, week, regime, store, buffered, socket, frames, sent, older, drops, fails>>
  BY DEF TimerSync, stream, connection, bounds
<1>2. regime.weeks = 0
  BY <1>1 DEF BoundsOK, ResetsAlone
<1>3. Issue(log, week, c) /\ c.week = week /\ c.at \in Nat
  <2>1. Issue(log, week, c)
    BY <1>1 DEF StoreOK
  <2>2. c.week \in Nat /\ c.week <= week /\ week <= 0 /\ week \in Nat
    BY <1>2, <2>1 DEF Issue, Cursors, BoundsOK
  <2> QED BY <2>1, <2>2 DEF Issue, Cursors
<1>4. LogOK' /\ BoundsOK' /\ StoreOK(log, week, regime.weeks, store)' /\ HeldOK' /\ OlderOK' /\ WireOK'
  BY <1>1 DEF LogOK, BoundsOK, StoreOK, HeldOK, OlderOK, WireOK, FrameOK
<1>5. AloneOK'
  BY <1>1, <1>2 DEF AloneOK
<1> HIDE DEF c
<1>6. /\ k \in Tasks /\ SyncOK(log, week, regime.weeks, k) /\ Answered(k) = {}
      /\ k.step = "sync" /\ k.after = c
  <2>1. k.step = "sync" /\ k.after = c
    BY SyncFields
  <2> DEFINE z == regime.weeks
  <2> HIDE DEF z
  <2>2. k \in Tasks /\ SyncOK(log, week, z, k) /\ Answered(k) = {}
    BY <1>3, SyncNew
  <2> QED BY <2>1, <2>2 DEF z
<1> HIDE DEF k
<1>7. "timer" \in Slots
  BY DEF Slots
<1>8. TasksOK'
  <2>1. TaskOK(log, week, regime.weeks, k) /\ Behind(k, store')
    BY <1>1, <1>3, <1>6 DEF TaskOK, Behind, c
  <2> QED BY <1>1, <1>6, <1>7, <2>1, SlotSet
<1>9. ToldOK'
  <2> DEFINE none == {}
  <2>1. tasks \in [Slots -> Tasks]
    BY DEF TasksOK
  <2> HIDE DEF none
  <2>2. \A t \in Slots : Answered(tasks'[t]) \subseteq none \cup UNION {Answered(tasks[u]) : u \in Slots}
    BY <1>1, <1>6, <1>7, <2>1, SlotAnswers
  <2>3. \A j \in 1..Len(frames') : frames'[j] \in none \/ \E i \in 1..Len(frames) : frames'[j] = frames[i]
    BY <1>1
  <2>4. InFlight' \subseteq InFlight \cup none
    BY <2>2, <2>3, FromWhere
  <2>5. \A e \in none : e.msg \notin Expired
    BY DEF none
  <2> QED BY <1>1, <2>4, <2>5, NewsTold
<1> QED BY <1>4, <1>5, <1>8, <1>9

\* The answer to what a recovery asked.
LEMMA ServeKeeps ==
  ASSUME IInv, NEW t \in Slots, Serve(t)
  PROVE  IInv'
<1> USE DEF IInv
<1> DEFINE task == tasks[t]
           answer == IF task.step = "sync" THEN SyncAnswer(task.after, task.through) ELSE Listing
           k == [task EXCEPT !.answer = answer]
<1>1. /\ task # Idle
      /\ UNCHANGED <<log, week, regime, store, buffered, socket, frames, sent, older, drops, fails>>
  BY DEF Serve, stream, connection, bounds
<1>2. tasks' = [tasks EXCEPT ![t] = k]
  BY DEF Serve, TasksOK
<1>3. LogOK' /\ BoundsOK' /\ StoreOK(log, week, regime.weeks, store)' /\ HeldOK' /\ OlderOK' /\ WireOK'
  BY <1>1 DEF LogOK, BoundsOK, StoreOK, HeldOK, OlderOK, WireOK, FrameOK
<1>4. task \in Tasks /\ (SyncOK(log, week, regime.weeks, task) \/ LoadOK(log, week, regime.weeks, task))
      /\ Behind(task, store)
  BY <1>1, SlotOK DEF TaskOK
<1>5. /\ task.step = "sync" => SyncOK(log, week, regime.weeks, task)
      /\ task.step # "sync" => LoadOK(log, week, regime.weeks, task)
  BY <1>4 DEF SyncOK, LoadOK
<1>6. /\ task.step = "sync" =>
           /\ PageOK(log, week, regime.weeks, task, answer)
           /\ answer.status = "ok" => \A e \in answer.events :
                e.type = "created" /\ e.content = "text" => e.msg \notin Expired
  BY <1>5, AnswerOK
<1>7. task.step # "sync" => Listed(log, answer) /\ answer.at = Len(log)
  BY ListingOK
<1>8. answer \in Pages \cup Listings
  BY <1>6, <1>7 DEF PageOK, Listed
<1> HIDE DEF task, answer
<1>9. /\ k.step = task.step /\ k.after = task.after /\ k.through = task.through
      /\ k.given = task.given /\ k.boot = task.boot /\ k.answer = answer /\ k.at = task.at
      /\ k \in Tasks
  BY <1>4, <1>8 DEF Tasks
<1> HIDE DEF k
<1>10. TaskOK(log, week, regime.weeks, k) /\ Behind(k, store)
  <2>1. CASE task.step = "sync"
    <3>1. PageOK(log, week, regime.weeks, k, answer)
      BY <1>6, <1>9, <2>1 DEF PageOK
    <3> QED BY <1>4, <1>5, <1>9, <2>1, <3>1 DEF TaskOK, SyncOK, Behind
  <2>2. CASE task.step # "sync"
    <3>1. task.through.at <= Len(log)
      BY <1>5, <2>2 DEF LoadOK, Issue
    <3>2. Len(log) >= task.through.at
      BY <1>5, <2>2, <3>1, LogTyped DEF LoadOK, Issue, Cursors
    <3> QED BY <1>4, <1>5, <1>7, <1>9, <2>2, <3>2 DEF TaskOK, LoadOK, Behind
  <2> QED BY <2>1, <2>2
<1>11. TasksOK'
  BY <1>1, <1>2, <1>9, <1>10, SlotSet
<1>12. AloneOK'
  BY <1>1, <1>2, <1>9, SlotAlone DEF task
<1>13. ToldOK'
  <2> DEFINE fresh == Answered(k)
  <2>1. tasks \in [Slots -> Tasks]
    BY DEF TasksOK
  <2>2. \A e \in fresh : e.type = "created" /\ e.content = "text" => e.msg \notin Expired
    BY <1>6, <1>9 DEF Answered
  <2> HIDE DEF fresh
  <2>3. Answered(k) \subseteq fresh
    BY DEF fresh
  <2>4. \A u \in Slots : Answered(tasks'[u]) \subseteq fresh \cup UNION {Answered(tasks[v]) : v \in Slots}
    BY <1>2, <2>1, <2>3, SlotAnswers
  <2>5. \A j \in 1..Len(frames') : frames'[j] \in fresh \/ \E i \in 1..Len(frames) : frames'[j] = frames[i]
    BY <1>1
  <2>6. InFlight' \subseteq InFlight \cup fresh
    BY <2>4, <2>5, FromWhere
  <2> QED BY <1>1, <2>2, <2>6, NewsTold
<1> QED BY <1>3, <1>11, <1>12, <1>13

\* A slot whose new task has no answer leaves nothing new under way.
LEMMA NoNews ==
  ASSUME TasksOK, NEW t \in Slots, NEW k, tasks' = [tasks EXCEPT ![t] = k], Answered(k) = {},
         \A j \in 1..Len(frames') : \E i \in 1..Len(frames) : frames'[j] = frames[i]
  PROVE  InFlight' \subseteq InFlight
<1> DEFINE none == {}
<1> HIDE DEF none
<1>1. tasks \in [Slots -> Tasks] /\ Answered(k) \subseteq none
  BY DEF TasksOK
<1>2. \A u \in Slots : Answered(tasks'[u]) \subseteq none \cup UNION {Answered(tasks[v]) : v \in Slots}
  BY <1>1, SlotAnswers
<1>3. InFlight' \subseteq InFlight \cup none
  BY <1>2, FromWhere
<1> QED BY <1>3 DEF none

\* And what the unchanged store told it tells.
LEMMA NoNewsTold ==
  ASSUME LogOK, StoreOK(log, week, regime.weeks, store), ToldOK, UNCHANGED <<log, store>>,
         InFlight' \subseteq InFlight
  PROVE  ToldOK'
<1> DEFINE none == {}
<1>1. InFlight' \subseteq InFlight \cup none /\ \A e \in none : e.msg \notin Expired
  OBVIOUS
<1> HIDE DEF none
<1> QED BY <1>1, NewsTold

\* loadSnapshot(), the conversations.
LEMMA TakeListKeeps ==
  ASSUME IInv, NEW t \in Slots, TakeList(t)
  PROVE  IInv'
<1> USE DEF IInv
<1> DEFINE task == tasks[t]
           k == [task EXCEPT !.step = "page", !.answer = Null, !.at = Issued(task.answer.at)]
<1>1. /\ task.step = "list" /\ task.answer # Null
      /\ UNCHANGED <<log, week, regime, store, buffered, socket, frames, sent, older, drops, fails>>
  BY DEF TakeList, stream, connection, bounds
<1>2. tasks' = [tasks EXCEPT ![t] = k]
  BY DEF TakeList, TasksOK
<1>3. LogOK' /\ BoundsOK' /\ StoreOK(log, week, regime.weeks, store)' /\ HeldOK' /\ OlderOK' /\ WireOK'
  BY <1>1 DEF LogOK, BoundsOK, StoreOK, HeldOK, OlderOK, WireOK, FrameOK
<1>4. task \in Tasks /\ LoadOK(log, week, regime.weeks, task) /\ Behind(task, store) /\ task # Idle
  BY <1>1, SlotOK, IdleTyped DEF TaskOK, SyncOK
<1>5. task.answer.at \in Nat /\ task.answer.at <= Len(log) /\ task.answer.at >= task.through.at
  BY <1>1, <1>4 DEF LoadOK, Listed, Listings
<1> DEFINE at == Issued(task.answer.at)
<1>6. Issue(log, week, at) /\ at.at >= task.through.at /\ at \in Cursors
  BY <1>5, IssuedIs DEF Issue
<1>7. k = [task EXCEPT !.step = "page", !.answer = Null, !.at = at]
  OBVIOUS
<1> HIDE DEF task, at
<1>8. /\ k.step = "page" /\ k.through = task.through /\ k.given = task.given
      /\ k.boot = task.boot /\ k.answer = Null /\ k.at = at
  BY <1>4, <1>7 DEF Tasks
<1>9. k \in Tasks
  <2>1. "page" \in {"idle", "sync", "list", "page"} /\ at \in Cursors \cup {Null}
    BY <1>6
  <2> QED BY <1>4, <1>7, <2>1 DEF Tasks
<1> HIDE DEF k
<1>10. TaskOK(log, week, regime.weeks, k) /\ Behind(k, store) /\ Answered(k) = {}
  BY <1>1, <1>4, <1>6, <1>8 DEF TaskOK, LoadOK, Behind, Answered
<1>11. TasksOK'
  BY <1>1, <1>2, <1>9, <1>10, SlotSet
<1>12. AloneOK'
  BY <1>1, <1>2, <1>4, <1>8, SlotAlone DEF task
<1>13. ToldOK'
  BY <1>1, <1>2, <1>10, NoNews, NoNewsTold
<1> QED BY <1>3, <1>11, <1>12, <1>13
-----------------------------------------------------------------------------
(* Recoveries that end or start over *)

\* An error: the task is over, and the connection with it if the task was its own.
LEMMA AbortKeeps ==
  ASSUME IInv, NEW t \in Slots, Abort(t),
         UNCHANGED <<log, week, regime, older, drops>>
  PROVE  IInv'
<1> USE DEF IInv
<1>1. /\ tasks' = [tasks EXCEPT ![t] = Idle] /\ UNCHANGED <<store, buffered>>
      /\ \/ t = "link" /\ socket' = "closed" /\ frames' = <<>> /\ sent' = 0
         \/ UNCHANGED <<socket, frames, sent>>
  BY DEF Abort, Closed, connection
<1>2. LogOK' /\ BoundsOK' /\ StoreOK(log, week, regime.weeks, store)' /\ HeldOK' /\ OlderOK'
  BY <1>1 DEF LogOK, BoundsOK, StoreOK, HeldOK, OlderOK
<1>3. Len(<<>>) = 0 /\ (frames' = <<>> => Len(frames') = 0)
  OBVIOUS
<1>4. WireOK'
  <2>1. CASE UNCHANGED <<socket, frames, sent>>
    BY <1>1, <2>1 DEF WireOK, FrameOK
  <2>2. CASE socket' = "closed" /\ frames' = <<>> /\ sent' = 0
    BY <1>1, <1>3, <2>2, LogTyped DEF WireOK
  <2> QED BY <1>1, <2>1, <2>2
<1>5. TasksOK'
  <2>1. TaskOK(log, week, regime.weeks, Idle) /\ Behind(Idle, store')
    BY IdleTyped DEF TaskOK, Behind
  <2> QED BY <1>1, <2>1, IdleTyped, SlotSet
<1>6. AloneOK'
  <2>1. CASE UNCHANGED <<socket, frames, sent>>
    BY <1>1, <2>1, SlotFreed
  <2>2. CASE t = "link"
    BY <1>1, <2>2, IdleTyped DEF AloneOK, TasksOK, Slots
  <2> QED BY <1>1, <2>1, <2>2
<1>7. ToldOK'
  <2>1. \A j \in 1..Len(frames') : \E i \in 1..Len(frames) : frames'[j] = frames[i]
    BY <1>1, <1>3
  <2>2. InFlight' \subseteq InFlight
    BY <1>1, <2>1, IdleAnswers, NoNews
  <2> QED BY <1>1, <2>2, NoNewsTold
<1> QED BY <1>2, <1>4, <1>5, <1>6, <1>7

LEMMA TakeRefusalKeeps ==
  ASSUME IInv, NEW t \in Slots, TakeRefusal(t)
  PROVE  IInv'
  BY AbortKeeps DEF TakeRefusal, stream, bounds

LEMMA LoseKeeps ==
  ASSUME IInv, NEW t \in Slots, Lose(t)
  PROVE  IInv'
  BY AbortKeeps DEF Lose, stream

LEMMA EmptyIs ==
  /\ Empty \in Stores /\ Empty.cursor = Null /\ Empty.at = 0 /\ Empty.floor = 0 /\ Empty.tombs = {}
  BY DEF Empty, Stores, Contents

\* sync_reset_required: only what asked with the connection's cursor is refused for
\* its own, and only where cursors expire; it is alone.
LEMMA TakeResetKeeps ==
  ASSUME IInv, NEW t \in Slots, TakeReset(t)
  PROVE  IInv'
<1> USE DEF IInv
<1> DEFINE task == tasks[t]
           k == [Idle EXCEPT !.step = "list", !.given = task.given,
                             !.through = IF task.given THEN task.through ELSE Null]
<1>1. /\ task.step = "sync" /\ task.answer # Null /\ task.answer.status = "reset"
      /\ store' = Empty /\ tasks' = [tasks EXCEPT ![t] = k]
      /\ UNCHANGED <<log, week, regime, buffered, socket, frames, sent, older, drops, fails>>
  BY DEF TakeReset, stream, connection, bounds
<1>2. task \in Tasks /\ SyncOK(log, week, regime.weeks, task) /\ task # Idle
  BY <1>1, SlotOK, IdleTyped DEF TaskOK, LoadOK
<1>3. regime.weeks # 0 /\ task.given /\ task.through # Null /\ Issue(log, week, task.through)
  BY <1>1, <1>2 DEF SyncOK, PageOK
<1>4. /\ tasks["stale"] = Idle /\ tasks["timer"] = Idle /\ t = "link" /\ task.through.week = week
  BY <1>2, <1>3 DEF AloneOK, Slots
<1>5. /\ k.step = "list" /\ k.given = task.given /\ k.through = task.through /\ ~k.boot
      /\ k.answer = Null
  BY <1>3 DEF Idle
<1>6. k \in Tasks
  <2>1. "list" \in {"idle", "sync", "list", "page"} /\ task.given \in BOOLEAN
        /\ (IF task.given THEN task.through ELSE Null) \in Cursors \cup {Null}
    BY <1>2, <1>3 DEF Tasks
  <2> HIDE DEF task
  <2> QED BY <2>1, IdleTyped DEF Tasks
<1> HIDE DEF task, k
<1>7. LogOK' /\ BoundsOK' /\ HeldOK' /\ OlderOK' /\ WireOK'
  BY <1>1 DEF LogOK, BoundsOK, HeldOK, OlderOK, WireOK, FrameOK
<1>8. StoreOK(log, week, regime.weeks, store)'
  <2>1. 0 <= Len(log)
    BY LogTyped
  <2> QED BY <1>1, <1>3, <2>1, EmptyIs DEF StoreOK
<1>9. TasksOK'
  <2>1. TaskOK(log, week, regime.weeks, k) /\ Behind(k, store')
    BY <1>1, <1>3, <1>4, <1>5, EmptyIs DEF TaskOK, LoadOK, Behind
  <2>2. \A u \in Slots : u # t => Behind(tasks[u], store')
    BY <1>4, IdleTyped DEF Behind, Slots
  <2> QED BY <1>1, <1>6, <2>1, <2>2, SlotSet
<1>10. AloneOK'
  BY <1>1, <1>2, <1>3, <1>5, SlotAlone DEF task
<1>11. ToldOK'
  BY <1>1, EmptyIs DEF ToldOK
<1> QED BY <1>7, <1>8, <1>9, <1>10, <1>11

\* loadSnapshot(), the messages: the snapshot shows all the log up to the position
\* the client goes on from, and what its connection carries comes after it.
LEMMA TakeSnapshotKeeps ==
  ASSUME IInv, NEW t \in Slots, TakeSnapshot(t)
  PROVE  IInv'
<1> USE DEF IInv
<1> DEFINE task == tasks[t]
           a == task.answer
           c == task.through
           loaded == Loaded(store, task.at, a)
           k == Sync(c, Null)
<1>1. /\ task.step = "page" /\ a # Null
      /\ UNCHANGED <<log, week, regime, older, drops, fails>>
  BY DEF TakeSnapshot, stream, bounds
<1>2. task \in Tasks /\ LoadOK(log, week, regime.weeks, task) /\ task # Idle
  BY <1>1, SlotOK, IdleTyped DEF TaskOK, SyncOK
<1>3. /\ regime.weeks # 0 /\ Issue(log, week, c) /\ c.week = week /\ c \in Cursors /\ c # Null
      /\ task.given \/ task.boot
      /\ Listed(log, a) /\ a.at >= c.at /\ Issue(log, week, task.at) /\ task.at.at >= c.at
  BY <1>1, <1>2, ConstantsTyped DEF LoadOK, Issue
<1>4. /\ tasks' = [tasks EXCEPT ![t] = k]
      /\ store' = IF task.boot THEN [loaded EXCEPT !.cursor = c, !.at = c.at]
                  ELSE [loaded EXCEPT !.cursor = c]
      /\ UNCHANGED <<buffered, socket, frames, sent>>
  BY <1>3 DEF TakeSnapshot, connection
<1>5. /\ tasks["stale"] = Idle /\ tasks["timer"] = Idle /\ t = "link"
      /\ \A j \in 1..Len(frames) : frames[j].type # "ready" => frames[j].id > c.at
  BY <1>2, <1>3 DEF AloneOK, Slots
<1>6. /\ c.at \in Nat /\ a.at \in Nat /\ task.at.at \in Nat /\ a.at <= Len(log)
      /\ task.at.at <= Len(log) /\ c.at <= Len(log) /\ a.rows \in [Messages -> Contents]
      /\ task.at \in Cursors
  BY <1>3 DEF Issue, Listed, Listings, Cursors
<1>7. store \in Stores
  BY DEF StoreOK
<1>8. /\ DOMAIN loaded = DOMAIN store /\ loaded.tombs = store.tombs
      /\ loaded.at = task.at.at /\ loaded.floor = a.at
      /\ loaded.rows = [m \in Messages |->
                  IF m \in store.tombs /\ a.rows[m] # "none" THEN "expired" ELSE a.rows[m]]
  BY <1>7 DEF Loaded, Stores
<1>9. loaded \in Stores
  <2>1. [m \in Messages |->
                  IF m \in store.tombs /\ a.rows[m] # "none" THEN "expired" ELSE a.rows[m]]
          \in [Messages -> Contents]
    BY <1>6 DEF Contents
  <2> HIDE DEF task, a, c
  <2> QED BY <1>6, <1>7, <2>1 DEF Loaded, Stores
<1> HIDE DEF task, a, c, loaded, k
<1>10. /\ store' \in Stores /\ store'.cursor = c /\ store'.tombs = loaded.tombs
       /\ store'.rows = loaded.rows /\ store'.floor = loaded.floor
       /\ store'.at = IF task.boot THEN c.at ELSE loaded.at
  BY <1>3, <1>4, <1>6, <1>9 DEF Stores
<1>11. LogOK' /\ BoundsOK' /\ HeldOK' /\ OlderOK' /\ WireOK'
  BY <1>1, <1>4 DEF LogOK, BoundsOK, HeldOK, OlderOK, WireOK, FrameOK
<1>12. StoreOK(log, week, regime.weeks, store)'
  <2>1. \A m \in store'.tombs : store'.rows[m] # "text"
    BY <1>7, <1>8, <1>10 DEF Stores
  <2> QED BY <1>1, <1>3, <1>6, <1>8, <1>10, <2>1 DEF StoreOK
<1>13. k.step = "sync" /\ k.after = c /\ ~k.boot /\ ~k.given
  BY SyncFields DEF k
<1>14. k \in Tasks /\ TaskOK(log, week, regime.weeks, k) /\ Answered(k) = {}
  <2> DEFINE z == regime.weeks
  <2> HIDE DEF z
  <2>1. k \in Tasks /\ TaskOK(log, week, z, k) /\ Answered(k) = {}
    BY <1>3, SyncNew DEF k
  <2> QED BY <2>1 DEF z
<1>15. TasksOK'
  <2>1. Behind(k, store')
    BY <1>3, <1>6, <1>10, <1>13 DEF Behind
  <2>2. \A u \in Slots : u # t => Behind(tasks[u], store')
    BY <1>5, IdleTyped DEF Behind, Slots
  <2> QED BY <1>1, <1>4, <1>14, <2>1, <2>2, SlotSet
<1>16. AloneOK'
  BY <1>1, <1>2, <1>4, <1>13, SlotAlone DEF task
<1>17. ToldOK'
  <2>1. SUFFICES ASSUME NEW i \in 1..c.at
                 PROVE  IF log[i].type = "created"
                        THEN store'.rows[log[i].msg] # "none" \/ log[i].msg \in store'.tombs
                        ELSE \/ log[i].msg \in store'.tombs
                             \/ i <= store'.floor /\ store'.rows[log[i].msg] # "text"
                                /\ log[i].msg \in Silent'
    BY <1>1, <1>10 DEF ToldOK, Told
  <2> DEFINE m == log[i].msg
  <2>2. i \in 1..Len(log) /\ i \in 1..a.at /\ i <= a.at /\ m \in Messages
        /\ log[i].type \in Types
    BY <1>3, <1>6, LogTyped
  <2>3. IF log[i].type = "created" THEN a.rows[m] # "none" ELSE a.rows[m] = "expired"
    BY <1>3, <2>2 DEF Listed
  <2>4. log[i].type = "created" => store'.rows[m] # "none"
    BY <1>8, <1>10, <2>2, <2>3
  <2>5. log[i].type # "created" => store'.rows[m] # "text"
    BY <1>8, <1>10, <2>2, <2>3
  <2>6. ASSUME log[i].type # "created" PROVE m \in Silent'
    <3>1. SUFFICES ASSUME NEW e \in InFlight', e.type = "created", e.msg = m PROVE FALSE
      BY <2>2 DEF Silent
    <3>2. \A u \in Slots : Answered(tasks'[u]) = {}
      BY <1>4, <1>5, <1>14, IdleAnswers DEF Slots, TasksOK
    <3>3. InFlight' = {frames'[j] : j \in 1..Len(frames')} \cup UNION {Answered(tasks'[u]) : u \in Slots}
      BY DEF InFlight, Answered
    <3>4. PICK j \in 1..Len(frames) : e = frames[j]
      BY <1>4, <3>2, <3>3
    <3>5. e.id > c.at /\ Tells(log, e)
      BY <1>5, <3>1, <3>4 DEF WireOK, FrameOK
    <3>6. e.id \in 1..Len(log) /\ log[e.id].msg = m /\ i < e.id
      BY <1>6, <3>1, <3>5 DEF Tells, Events
    <3>7. log[i].type = "created"
      BY <2>2, <3>6 DEF LogOK
    <3> QED BY <2>6, <3>7
  <2> HIDE DEF m
  <2> QED BY <1>8, <1>10, <2>2, <2>4, <2>5, <2>6 DEF m
<1> QED BY <1>11, <1>12, <1>15, <1>16, <1>17

\* applyBuffered(): what was held back and is not in the snapshot.
LEMMA FlushedOK ==
  ASSUME LogOK, HeldOK, NEW z, NEW s, StoreOK(log, week, z, s), NEW n \in Nat, n <= Len(log),
         Told(log, Silent, s, n)
  PROVE  /\ StoreOK(log, week, z, Flushed(s)) /\ Told(log, Silent, Flushed(s), n)
         /\ Flushed(s).cursor = s.cursor
<1> DEFINE events == {buffered[i] : i \in {j \in DOMAIN buffered : j > s.floor}}
<1>1. Flushed(s) = Applied(s, events)
  BY DEF Flushed
<1>2. \A e \in events : Tells(log, e) /\ e.id > s.floor
  BY DEF HeldOK
<1>3. events \in SUBSET Events
  BY <1>2 DEF Tells
<1>4. s \in Stores
  BY DEF StoreOK
<1> HIDE DEF events
<1>5. StoreOK(log, week, z, Applied(s, events))
  BY <1>3, AppliedOK
<1>6. Applied(s, events).cursor = s.cursor
  BY <1>3, <1>4, AppliedRest
<1>7. Told(log, Silent, Applied(s, events), n)
  BY <1>2, <1>3, <1>4, AppliedTold
<1> QED BY <1>1, <1>5, <1>6, <1>7

\* A page: what it tells follows what the store showed, so the store shows the log
\* up to where it ends.
LEMMA PageTaken ==
  ASSUME IInv, NEW t \in Slots, TakePage(t)
  PROVE  \E s \in Stores, k \in Tasks :
           LET a == tasks[t].answer
           IN /\ StoreOK(log, week, regime.weeks, s) /\ Told(log, Silent, s, s.cursor.at)
              /\ s.cursor = a.next /\ s.cursor # Null
              /\ store.cursor # Null /\ store.cursor.at <= s.cursor.at
              /\ TaskOK(log, week, regime.weeks, k) /\ Behind(k, s) /\ Answered(k) = {}
              /\ ~k.boot /\ (k.given => tasks[t].given /\ k.through = tasks[t].through)
              /\ tasks' = [tasks EXCEPT ![t] = k]
              /\ \/ store' = s /\ UNCHANGED buffered
                 \/ store' = Flushed(s) /\ buffered' = NoEvents
<1> USE DEF IInv
<1> DEFINE task == tasks[t]
           a == task.answer
           applied == Applied(store, a.events)
           s == [applied EXCEPT !.cursor = a.next, !.at = a.next.at]
           more == [task EXCEPT !.after = a.next, !.through = a.through, !.answer = Null]
           k == IF a.more THEN more ELSE Idle
<1>1. /\ task.step = "sync" /\ a # Null /\ Acceptable(t, a)
  BY DEF TakePage
<1>2. task \in Tasks /\ SyncOK(log, week, regime.weeks, task) /\ Behind(task, store)
  BY <1>1, SlotOK, IdleTyped DEF TaskOK, LoadOK
<1>3. /\ a.status = "ok" /\ (task.through # Null => a.through = task.through)
      /\ a.next.at >= store.at
  BY <1>1 DEF Acceptable
<1>4. PageOK(log, week, regime.weeks, task, a)
  BY <1>1, <1>2 DEF SyncOK
<1>5. /\ Issue(log, week, a.next) /\ Issue(log, week, a.through) /\ a.next.week = week
      /\ ~task.given => a.through.week = week
      /\ \A e \in a.events : Tells(log, e)
      /\ \A i \in (task.after.at + 1)..a.next.at : \E e \in a.events : e.id = i
  BY <1>3, <1>4 DEF PageOK
<1>6. /\ a.next \in Cursors /\ a.next # Null /\ a.next.at \in Nat /\ a.next.at <= Len(log)
      /\ a.through \in Cursors /\ a.through # Null
      /\ a.events \in SUBSET Events /\ task.after.at \in Nat
  BY <1>2, <1>5, ConstantsTyped DEF Issue, Tells, SyncOK, Cursors
<1>7. /\ store \in Stores /\ store.cursor # Null /\ store.cursor.at \in Nat
      /\ store.cursor.at <= store.at /\ store.at \in Nat /\ store.cursor.at <= Len(log)
      /\ task.after.at <= store.cursor.at /\ store.cursor.at <= a.next.at
  <2>1. store \in Stores /\ store.cursor # Null /\ task.after.at <= store.cursor.at
    BY <1>1, <1>2 DEF StoreOK, Behind
  <2>2. store.cursor.at \in Nat /\ store.cursor.at <= store.at /\ store.at \in Nat
        /\ store.cursor.at <= Len(log)
    BY <2>1 DEF StoreOK, Issue, Cursors, Stores
  <2> QED BY <2>1, <2>2, <1>3, <1>6
<1>8. Told(log, Silent, applied, a.next.at)
  <2>1. \A e \in a.events :
          e.type = "created" /\ e.content = "text" /\ e.msg \in Silent => e.id > store.floor
    <3>1. a.events \subseteq InFlight
      BY <1>1, <1>3 DEF InFlight, Answered
    <3> QED BY <3>1 DEF Silent
  <2> DEFINE n == store.cursor.at
             events == a.events
             h == a.next.at
             from == task.after.at
  <2>2. Told(log, Silent, store, n) /\ n \in Nat /\ n <= Len(log) /\ events \in SUBSET Events
        /\ n <= h /\ from \in Nat /\ from <= n /\ h \in Nat /\ h <= Len(log)
    BY <1>6, <1>7 DEF ToldOK
  <2>3. /\ \A e \in events : Tells(log, e)
        /\ \A e \in events :
             e.type = "created" /\ e.content = "text" /\ e.msg \in Silent => e.id > store.floor
        /\ \A i \in (from + 1)..h : \E e \in events : e.id = i
    BY <1>5, <2>1
  <2> HIDE DEF n, events, h, from
  <2>4. Told(log, Silent, Applied(store, events), n)
    BY <1>7, <2>2, <2>3, AppliedTold
  <2>5. Told(log, Silent, Applied(store, events), h)
    BY <1>7, <2>2, <2>3, <2>4, PageTold
  <2> QED BY <2>5 DEF events, h
<1>9. StoreOK(log, week, regime.weeks, applied) /\ applied \in Stores
  <2> DEFINE z == regime.weeks
  <2> HIDE DEF z
  <2>1. StoreOK(log, week, z, store)
    BY DEF z
  <2>2. StoreOK(log, week, z, applied)
    BY <1>6, <2>1, AppliedOK
  <2> QED BY <2>2 DEF z, StoreOK
<1> HIDE DEF applied
<1>10. /\ s \in Stores /\ s.cursor = a.next /\ s.at = a.next.at
       /\ s.rows = applied.rows /\ s.tombs = applied.tombs /\ s.floor = applied.floor
  <2> DEFINE c == a.next
             at == a.next.at
  <2>1. c \in Cursors \cup {Null} /\ at \in Nat
    BY <1>6
  <2> HIDE DEF c, at
  <2> QED BY <1>9, <2>1 DEF Stores, c, at
<1>11. task.step = "sync" => IF a.more THEN tasks' = [tasks EXCEPT ![t] = more]
                                       ELSE tasks' = [tasks EXCEPT ![t] = Idle]
  BY DEF TakePage, Done, TasksOK
<1>12. \/ store' = s /\ UNCHANGED buffered
       \/ store' = Flushed(s) /\ buffered' = NoEvents
  BY DEF TakePage, Done, applied
<1> HIDE DEF task, a, s
<1>13. StoreOK(log, week, regime.weeks, s)
  BY <1>5, <1>6, <1>9, <1>10 DEF StoreOK
<1>14. Told(log, Silent, s, s.cursor.at)
  BY <1>8, <1>10 DEF Told
<1>15. /\ more \in Tasks
       /\ more.step = "sync" /\ more.after = a.next /\ more.through = a.through
       /\ more.given = task.given /\ more.boot = task.boot /\ more.answer = Null
  <2> DEFINE c == a.next
             h == a.through
  <2>1. c \in Cursors \cup {Null} /\ h \in Cursors \cup {Null}
    BY <1>6
  <2> HIDE DEF c, h
  <2> QED BY <1>1, <1>2, <2>1 DEF Tasks, c, h
<1> HIDE DEF more
<1>16. SyncOK(log, week, regime.weeks, more)
  BY <1>2, <1>5, <1>6, <1>15 DEF SyncOK
<1>17. Behind(more, s) /\ Answered(more) = {}
  BY <1>6, <1>10, <1>15 DEF Behind, Answered
<1>18. /\ k \in Tasks /\ TaskOK(log, week, regime.weeks, k) /\ Behind(k, s) /\ Answered(k) = {}
       /\ ~k.boot /\ (k.given => task.given /\ k.through = task.through)
       /\ tasks' = [tasks EXCEPT ![t] = k]
  <2>1. CASE a.more
    <3>1. task.given => task.through # Null /\ a.through = task.through
      BY <1>2, <1>3 DEF SyncOK
    <3>2. ~task.boot
      BY <1>2 DEF SyncOK
    <3> QED BY <1>1, <1>11, <1>15, <1>16, <1>17, <2>1, <3>1, <3>2 DEF TaskOK
  <2>2. CASE ~a.more
    BY <1>1, <1>11, <2>2, IdleTyped, IdleAnswers DEF TaskOK, Behind
  <2> QED BY <2>1, <2>2
<1> HIDE DEF k
<1> QED BY <1>6, <1>7, <1>10, <1>12, <1>13, <1>14, <1>18 DEF task, a

LEMMA TakePageKeeps ==
  ASSUME IInv, NEW t \in Slots, TakePage(t)
  PROVE  IInv' /\ store.cursor # Null /\ store'.cursor # Null
         /\ store'.cursor.at >= store.cursor.at
<1> USE DEF IInv
<1>1. /\ tasks[t].step = "sync"
      /\ UNCHANGED <<log, week, regime, socket, frames, sent, older, drops, fails>>
  BY DEF TakePage, stream, connection, bounds
<1>2. PICK s \in Stores, k \in Tasks :
        /\ StoreOK(log, week, regime.weeks, s) /\ Told(log, Silent, s, s.cursor.at)
        /\ s.cursor # Null
        /\ store.cursor # Null /\ store.cursor.at <= s.cursor.at
        /\ TaskOK(log, week, regime.weeks, k) /\ Behind(k, s) /\ Answered(k) = {}
        /\ ~k.boot /\ (k.given => tasks[t].given /\ k.through = tasks[t].through)
        /\ tasks' = [tasks EXCEPT ![t] = k]
        /\ \/ store' = s /\ UNCHANGED buffered
           \/ store' = Flushed(s) /\ buffered' = NoEvents
  BY PageTaken
<1>3. s.cursor.at \in Nat /\ s.cursor.at <= Len(log)
      /\ store.cursor.at \in Nat
  BY <1>2 DEF StoreOK, Issue, Cursors
<1>4. StoreOK(log, week, regime.weeks, store') /\ Told(log, Silent, store', s.cursor.at)
      /\ store'.cursor = s.cursor
  <2>1. CASE store' = s
    BY <1>2, <2>1
  <2>2. CASE store' = Flushed(s)
    <3> DEFINE z == regime.weeks
               n == s.cursor.at
    <3>1. StoreOK(log, week, z, s) /\ Told(log, Silent, s, n) /\ n \in Nat /\ n <= Len(log)
      BY <1>2, <1>3
    <3> HIDE DEF z, n
    <3>2. /\ StoreOK(log, week, z, Flushed(s)) /\ Told(log, Silent, Flushed(s), n)
          /\ Flushed(s).cursor = s.cursor
      BY <3>1, FlushedOK
    <3> QED BY <2>2, <3>2 DEF z, n
  <2> QED BY <1>2, <2>1, <2>2
<1>5. LogOK' /\ BoundsOK' /\ StoreOK(log, week, regime.weeks, store)' /\ OlderOK' /\ WireOK'
  BY <1>1, <1>4 DEF LogOK, BoundsOK, OlderOK, WireOK, FrameOK
<1>6. HeldOK'
  <2>1. CASE UNCHANGED buffered
    BY <1>1, <2>1 DEF HeldOK
  <2>2. CASE buffered' = NoEvents
    BY <2>2 DEF HeldOK, NoEvents
  <2> QED BY <1>2, <2>1, <2>2
<1>7. TasksOK'
  <2>1. Behind(k, store')
    BY <1>2, <1>4 DEF Behind
  <2>2. ASSUME NEW u \in Slots, Behind(tasks[u], store) PROVE Behind(tasks[u], store')
    <3>1. tasks[u].step = "sync" => tasks[u].after.at \in Nat
      BY SlotOK, IdleTyped DEF TaskOK, SyncOK, LoadOK, Issue, Cursors
    <3> QED BY <1>2, <1>3, <1>4, <2>2, <3>1 DEF Behind
  <2> QED BY <1>1, <1>2, <2>1, <2>2, SlotSet
<1>8. AloneOK'
  <2>1. tasks[t] # Idle
    BY <1>1, IdleTyped
  <2> QED BY <1>1, <1>2, <2>1, SlotAlone
<1>9. ToldOK'
  <2>1. \A j \in 1..Len(frames') : \E i \in 1..Len(frames) : frames'[j] = frames[i]
    BY <1>1
  <2>2. InFlight' \subseteq InFlight
    BY <1>2, <2>1, NoNews
  <2>3. Told(log, Silent', store', s.cursor.at)
    BY <1>3, <1>4, <2>2, FewerTold
  <2> QED BY <1>1, <1>4, <2>3 DEF ToldOK
<1> QED BY <1>2, <1>3, <1>4, <1>5, <1>6, <1>7, <1>8, <1>9
-----------------------------------------------------------------------------
(* The screen *)

\* Nothing of a list is taken into the store yet.
LEMMA AskOlderKeeps ==
  ASSUME IInv, AskOlder \/ ServeOlder
  PROVE  IInv'
<1> USE DEF IInv
<1>1. UNCHANGED <<log, week, regime, store, buffered, socket, frames, sent, tasks, drops, fails>>
  BY DEF AskOlder, ServeOlder, stream, connection, bounds
<1>2. \/ regime.lists /\ older' = [rows |-> Null]
      \/ older # Null /\ older' = [rows |-> Listing.rows]
  BY DEF AskOlder, ServeOlder
<1>3. OlderOK'
  <2>1. Listing.rows \in [Messages -> Contents]
    BY ListingOK DEF Listed, Listings
  <2>2. [rows |-> Null].rows = Null /\ [rows |-> Listing.rows].rows = Listing.rows
    OBVIOUS
  <2>3. CASE regime.lists /\ older' = [rows |-> Null]
    BY <1>1, <2>2, <2>3 DEF OlderOK
  <2>4. CASE older # Null /\ older' = [rows |-> Listing.rows]
    BY <1>1, <2>1, <2>2, <2>4 DEF OlderOK
  <2> QED BY <1>2, <2>3, <2>4
<1>4. LogOK' /\ BoundsOK' /\ StoreOK(log, week, regime.weeks, store)' /\ HeldOK' /\ WireOK'
      /\ TasksOK' /\ AloneOK'
  BY <1>1 DEF LogOK, BoundsOK, HeldOK, WireOK, FrameOK, TasksOK, AloneOK
<1>5. ToldOK'
  BY <1>1, SameSilent DEF ToldOK
<1> QED BY <1>3, <1>4, <1>5

\* listMessages() leaves alone what was deleted, so it brings back no text where all
\* deletions were told one by one.
LEMMA TakeOlderKeeps ==
  ASSUME IInv, ResetsAlone, TakeOlder
  PROVE  IInv'
<1> USE DEF IInv
<1> DEFINE merged == [m \in Messages |->
                        IF older.rows[m] = "none" THEN store.rows[m]
                        ELSE Merged(store, m, older.rows[m]).rows[m]]
<1>1. /\ older # Null /\ older.rows # Null /\ older' = Null
      /\ UNCHANGED <<log, week, regime, buffered, socket, frames, sent, tasks, drops, fails>>
  BY DEF TakeOlder, stream, connection, bounds
<1>2. regime.lists /\ older.rows \in [Messages -> Contents]
  BY <1>1 DEF OlderOK
<1>3. regime.weeks = 0
  BY <1>2 DEF BoundsOK, ResetsAlone
<1>4. store \in Stores /\ store.floor = 0
  BY <1>3 DEF StoreOK
<1>5. store' = [store EXCEPT !.rows = merged]
  BY <1>4 DEF TakeOlder, Stores
<1>6. \A m \in Messages :
        merged[m] = IF older.rows[m] = "none" \/ m \in store.tombs THEN store.rows[m]
                    ELSE older.rows[m]
  BY <1>4, MergedRow
<1>7. merged \in [Messages -> Contents]
  <2>1. \A m \in Messages : merged[m] \in Contents
    BY <1>2, <1>4, <1>6 DEF Stores
  <2> QED BY <2>1
<1> HIDE DEF merged
<1>8. /\ store' \in Stores /\ store'.rows = merged /\ store'.tombs = store.tombs
      /\ store'.cursor = store.cursor /\ store'.at = store.at /\ store'.floor = store.floor
  BY <1>4, <1>5, <1>7 DEF Stores
<1>9. LogOK' /\ BoundsOK' /\ HeldOK' /\ WireOK' /\ AloneOK' /\ OlderOK'
  BY <1>1 DEF LogOK, BoundsOK, HeldOK, WireOK, FrameOK, AloneOK, OlderOK
<1>10. StoreOK(log, week, regime.weeks, store)'
  <2>1. \A m \in store.tombs : merged[m] # "text"
    BY <1>4, <1>6 DEF StoreOK, Stores
  <2> QED BY <1>1, <1>8, <2>1 DEF StoreOK
<1>11. TasksOK'
  BY <1>1, <1>8 DEF TasksOK, Behind
<1>12. ToldOK'
  <2>1. SUFFICES ASSUME store.cursor # Null, NEW i \in 1..store.cursor.at
                 PROVE  IF log[i].type = "created"
                        THEN merged[log[i].msg] # "none" \/ log[i].msg \in store.tombs
                        ELSE log[i].msg \in store.tombs
    BY <1>1, <1>8 DEF ToldOK, Told
  <2>2. i \in 1..Len(log) /\ log[i].msg \in Messages
    BY <2>1, LogTyped DEF StoreOK, Issue, Cursors
  <2>3. IF log[i].type = "created"
        THEN store.rows[log[i].msg] # "none" \/ log[i].msg \in store.tombs
        ELSE log[i].msg \in store.tombs \/ i <= 0
    BY <1>4, <2>1 DEF ToldOK, Told
  <2>4. ~(i <= 0)
    BY <2>2
  <2> QED BY <1>6, <2>2, <2>3, <2>4
<1> QED BY <1>9, <1>10, <1>11, <1>12
-----------------------------------------------------------------------------
(* The theorems *)

LEMMA InitKeeps ==
  ASSUME Init
  PROVE  IInv
<1>1. /\ log = <<>> /\ week = 0 /\ regime \in Regimes /\ buffered = NoEvents /\ socket = "closed"
      /\ frames = <<>> /\ sent = 0 /\ tasks = [t \in Slots |-> Idle] /\ older = Null /\ drops = 0
      /\ store = [Empty EXCEPT !.cursor = Issued(0)]
  BY DEF Init, StreamInit
<1>2. LogOK
  BY <1>1 DEF LogOK
<1>3. BoundsOK
  BY <1>1, ConstantsTyped DEF BoundsOK
<1>4. Issue(log, week, Issued(0)) /\ Issued(0).at = 0 /\ Issued(0) \in Cursors /\ Issued(0) # Null
  BY <1>2, <1>3, LogTyped, IssuedIs DEF Issue
<1>5. /\ store \in Stores /\ store.cursor = Issued(0) /\ store.at = 0 /\ store.floor = 0
      /\ store.tombs = {}
  <2> DEFINE c == Issued(0)
  <2>1. store = [Empty EXCEPT !.cursor = c] /\ c \in Cursors \cup {Null}
    BY <1>1, <1>4
  <2> HIDE DEF c
  <2>2. store \in Stores /\ store.cursor = c /\ store.at = 0 /\ store.floor = 0 /\ store.tombs = {}
    BY <2>1, EmptyIs DEF Stores
  <2> QED BY <2>2 DEF c
<1>6. StoreOK(log, week, regime.weeks, store)
  <2>1. 0 <= Len(log)
    BY <1>2, LogTyped
  <2> QED BY <1>4, <1>5, <2>1 DEF StoreOK
<1>7. HeldOK /\ WireOK
  BY <1>1 DEF HeldOK, NoEvents, WireOK
<1>8. TasksOK /\ AloneOK /\ OlderOK
  BY <1>1, IdleTyped DEF TasksOK, TaskOK, Behind, AloneOK, OlderOK, Slots
<1>9. ToldOK
  BY <1>4, <1>5 DEF ToldOK, Told
<1> QED BY <1>2, <1>3, <1>6, <1>7, <1>8, <1>9 DEF IInv

LEMMA NextKeeps ==
  ASSUME IInv, ResetsAlone, [Next]_vars
  PROVE  IInv'
<1>1. CASE Commit
  BY <1>1, CommitKeeps
<1>2. CASE Sleep
  BY <1>2, SleepKeeps
<1>3. CASE Connect \/ Drop \/ Poll \/ Ready \/ Event
  BY <1>3, ConnectKeeps, DropKeeps, PollKeeps, ReadyKeeps, EventKeeps
<1>4. CASE TimerSync
  BY <1>4, TimerSyncKeeps
<1>5. ASSUME NEW t \in Slots, Recover(t) \/ Lose(t) PROVE IInv'
  BY <1>5, ServeKeeps, TakePageKeeps, TakeRefusalKeeps, TakeResetKeeps, TakeListKeeps,
     TakeSnapshotKeeps, LoseKeeps DEF Recover
<1>6. CASE AskOlder \/ ServeOlder \/ TakeOlder
  BY <1>6, AskOlderKeeps, TakeOlderKeeps
<1>7. CASE UNCHANGED vars
  <2>1. UNCHANGED <<log, week, regime, store, buffered, socket, frames, sent, tasks, older, drops>>
    BY <1>7 DEF vars, stream, connection, bounds
  <2>2. Silent' = Silent
    BY <2>1, SameSilent
  <2> QED BY <2>1, <2>2 DEF IInv, LogOK, BoundsOK, HeldOK, WireOK, FrameOK, TasksOK, AloneOK,
                             OlderOK, ToldOK
<1> QED BY <1>1, <1>2, <1>3, <1>4, <1>5, <1>6, <1>7 DEF Next

\* The inductive invariant of a client that starts over alone, or not at all.
THEOREM Inductive == ASSUME ResetsAlone PROVE Spec => []IInv
<1>1. Init => IInv
  BY InitKeeps
<1>2. IInv /\ [Next]_vars => IInv'
  BY NextKeeps
<1> QED BY <1>1, <1>2, PTL DEF Spec

\* The cursor covers no gap: whatever frames, pages, snapshots and lists arrived in
\* whatever order, the client shows every message up to it and no text deleted up to
\* it (sync, applyBuffered, loadSnapshot).
THEOREM CursorCoversNoGap == ASSUME ResetsAlone PROVE Spec => []NoGap
<1>1. IInv => NoGap
  <2> SUFFICES ASSUME IInv, store.cursor # Null, NEW i \in 1..store.cursor.at
               PROVE  Reflected(i)
    BY DEF NoGap
  <2> DEFINE m == log[i].msg
  <2>1. StoreOK(log, week, regime.weeks, store)
        /\ (IF log[i].type = "created" THEN store.rows[m] # "none" \/ m \in store.tombs
            ELSE m \in store.tombs \/ (i <= store.floor /\ store.rows[m] # "text" /\ m \in Silent))
    BY DEF IInv, ToldOK, Told
  <2> HIDE DEF m
  <2> QED BY <2>1 DEF StoreOK, Reflected, m
<1>2. Spec => []IInv
  BY Inductive
<1> QED BY <1>1, <1>2, PTL

\* Recoveries that overlap never take the cursor back (sync).
THEOREM CursorOnlyAdvances == ASSUME ResetsAlone PROVE Spec => CursorNeverRetreats
<1> DEFINE Onward == store.cursor # Null /\ store'.cursor # Null =>
                       store'.cursor.at >= store.cursor.at
<1>1. IInv /\ [Next]_vars => [Onward]_vars
  <2> SUFFICES ASSUME IInv, Next, store.cursor # Null, store'.cursor # Null
               PROVE  store'.cursor.at >= store.cursor.at
    OBVIOUS
  <2>1. store.cursor.at \in Nat
    BY DEF IInv, StoreOK, Issue, Cursors
  <2>2. CASE store'.cursor = store.cursor
    BY <2>1, <2>2
  <2>3. ASSUME NEW t \in Slots, TakePage(t) PROVE store'.cursor.at >= store.cursor.at
    BY <2>3, TakePageKeeps
  <2>4. ASSUME NEW t \in Slots, TakeReset(t) PROVE FALSE
    BY <2>4, EmptyIs DEF TakeReset
  <2>5. ASSUME NEW t \in Slots, TakeSnapshot(t) PROVE FALSE
    <3>1. tasks[t].step = "page"
      BY <2>5 DEF TakeSnapshot
    <3> QED BY <3>1, SlotOK DEF IInv, Behind
  <2>6. ASSUME Event PROVE store'.cursor = store.cursor
    <3>1. store' = store \/ store' = Applied(store, {Head(frames)})
      BY <2>6 DEF Event
    <3>2. Applied(store, {Head(frames)}).cursor = store.cursor
      BY DEF Applied, IInv, StoreOK, Stores
    <3> QED BY <3>1, <3>2
  <2>7. ASSUME TakeOlder PROVE store'.cursor = store.cursor
    BY <2>7 DEF TakeOlder, IInv, StoreOK, Stores
  <2>8. ASSUME Commit \/ Sleep \/ Connect \/ Drop \/ Poll \/ Ready \/ TimerSync \/ AskOlder \/ ServeOlder
        PROVE  store'.cursor = store.cursor
    BY <2>8 DEF Commit, Sleep, Connect, Drop, Poll, Ready, TimerSync, AskOlder, ServeOlder
  <2>9. ASSUME NEW t \in Slots, Serve(t) \/ TakeRefusal(t) \/ TakeList(t) \/ Lose(t)
        PROVE  store'.cursor = store.cursor
    BY <2>9 DEF Serve, TakeRefusal, TakeList, Lose, Abort
  <2> QED BY <2>2, <2>3, <2>4, <2>5, <2>6, <2>7, <2>8, <2>9 DEF Next, Recover
<1>2. Spec => []IInv
  BY Inductive
<1> QED BY <1>1, <1>2, PTL DEF Spec, CursorNeverRetreats
=============================================================================
