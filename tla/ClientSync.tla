----------------------------- MODULE ClientSync -----------------------------
(***************************************************************************)
(* client-core's recovery: one signed-in client, its event socket, and the *)
(* requests by which it loads a snapshot and syncs. Every request is three *)
(* steps - asked, answered by the server, taken by the client - so that    *)
(* frames, requests of several recoveries and connection losses interleave *)
(* between them; what JavaScript runs without yielding is one step.        *)
(*                                                                         *)
(* Recoveries that may be under way at once: the one the ready frame of    *)
(* the present connection started ("link"), one that an earlier connection *)
(* started and that nobody cancels ("stale"), and the 30 s timer's         *)
(* ("timer").                                                              *)
(***************************************************************************)
EXTENDS EventStream

VARIABLES
  store,         \* the client's snapshot: [rows, tombs, cursor, at, floor]
  buffered,      \* live events held back, by id
  booting,       \* `bootstrapping`
  socket,        \* "open", or "closed" with the reconnect timer running
  syncing,       \* `syncing` of the present connection
  frames,        \* what the server sent on it and the client has not taken
  sent,          \* peer.position
  tasks,         \* the recoveries
  older,         \* a listMessages request, rows Null until it is answered
  drops, fails

connection == <<socket, frames, sent>>
bounds == <<drops, fails>>
vars == <<stream, store, buffered, booting, connection, syncing, tasks, older, bounds>>

Slots == {"link", "stale", "timer"}

Idle == [step |-> "idle", after |-> Null, through |-> Null, given |-> FALSE,
         boot |-> FALSE, answer |-> Null, at |-> Null]

Sync(after, through) ==
  [Idle EXCEPT !.step = "sync", !.after = after, !.through = through,
               !.given = through # Null]

\* Everything the client forgets when it starts over.
Empty == [rows |-> [m \in Messages |-> "none"], tombs |-> {}, cursor |-> Null,
          at |-> 0, floor |-> 0]

NoEvents == [i \in {} |-> Null]
-----------------------------------------------------------------------------
(* The store *)

\* mergeMessage(): a message that was deleted is left alone.
Merged(s, m, content) ==
  IF m \in s.tombs THEN s ELSE [s EXCEPT !.rows[m] = content]

\* applyEvent() of a set of events, in id order: a message's creation comes before
\* its deletion, and different messages do not affect each other.
Applied(s, events) ==
  LET deleted == {e.msg : e \in {x \in events : x.type = "deleted"}}
      row(m) ==
        LET made == {e \in events : e.type = "created" /\ e.msg = m}
            base == IF made = {} THEN s.rows[m]
                    ELSE Merged(s, m, (CHOOSE e \in made : TRUE).content).rows[m]
        IN IF m \in deleted /\ base # "none" THEN "expired" ELSE base
  IN [s EXCEPT !.rows = [m \in Messages |-> row(m)], !.tombs = @ \cup deleted]

\* applyBuffered(): what the snapshot already contains is left out.
Flushed(s) ==
  Applied(s, {buffered[i] : i \in {j \in DOMAIN buffered : j > s.floor}})

\* The end of loadSnapshot().
Loaded(s, cursor, listing) ==
  [s EXCEPT
     !.rows = [m \in Messages |->
                 IF m \in s.tombs /\ listing.rows[m] # "none" THEN "expired"
                 ELSE listing.rows[m]],
     !.cursor = cursor, !.at = cursor.at, !.floor = listing.at]
-----------------------------------------------------------------------------
(* The connection *)

\* connect(): the server registers the peer, and its ready frame carries the
\* position it will poll from. A recovery of the old connection goes on.
Connect ==
  /\ socket = "closed"
  /\ tasks["link"] = Idle \/ tasks["stale"] = Idle
  /\ socket' = "open"
  /\ frames' = <<[type |-> "ready", cursor |-> Issued(Len(log))]>>
  /\ sent' = Len(log)
  /\ syncing' = FALSE
  /\ tasks' = IF tasks["link"] = Idle THEN tasks
              ELSE [tasks EXCEPT !["stale"] = tasks["link"], !["link"] = Idle]
  /\ UNCHANGED <<stream, store, buffered, booting, older, bounds>>

\* disconnect(), ws.close()
Closed == socket' = "closed" /\ frames' = <<>> /\ sent' = 0

\* The connection is lost, or the server closes it (backpressure, heartbeat,
\* shutdown): what it had sent may be lost with it.
Drop ==
  /\ socket = "open"
  /\ drops < regime.drops
  /\ drops' = drops + 1
  /\ Closed
  /\ UNCHANGED <<stream, store, buffered, booting, syncing, tasks, older, fails>>

\* pollPeer()
Poll ==
  /\ socket = "open"
  /\ sent < Len(log)
  /\ LET end == Upto(sent, Len(log))
     IN /\ frames' = frames \o [i \in 1..(end - sent) |-> Hydrated(sent + i)]
        /\ sent' = end
  /\ UNCHANGED <<stream, store, buffered, booting, socket, syncing, tasks, older, bounds>>

\* The ready frame starts a recovery: from the cursor the client has, or from
\* nothing.
Ready ==
  /\ frames # <<>> /\ Head(frames).type = "ready"
  /\ frames' = Tail(frames)
  /\ syncing' = TRUE
  /\ booting' = (store.cursor = Null)
  /\ LET high == Head(frames).cursor
     IN tasks' = [tasks EXCEPT !["link"] =
          IF store.cursor # Null THEN Sync(store.cursor, high)
          ELSE [Idle EXCEPT !.step = "list", !.through = high, !.boot = TRUE]]
  /\ UNCHANGED <<stream, store, buffered, socket, sent, older, bounds>>

\* Live events wait while a recovery runs.
Hold == syncing \/ booting

Event ==
  /\ frames # <<>> /\ Head(frames).type # "ready"
  /\ frames' = Tail(frames)
  /\ LET e == Head(frames)
     IN IF Hold
        THEN /\ buffered' = [i \in DOMAIN buffered \cup {e.id} |->
                               IF i = e.id THEN e ELSE buffered[i]]
             /\ UNCHANGED store
        ELSE /\ store' = Applied(store, {e})
             /\ UNCHANGED buffered
  /\ UNCHANGED <<stream, booting, socket, sent, syncing, tasks, older, bounds>>
-----------------------------------------------------------------------------
(* Recoveries *)

\* scheduleSync() and the visibility listener; without a cursor sync() returns.
TimerSync ==
  /\ regime.timers /\ tasks["timer"] = Idle
  /\ store.cursor # Null
  /\ tasks' = [tasks EXCEPT !["timer"] = Sync(store.cursor, Null)]
  /\ UNCHANGED <<stream, store, buffered, booting, connection, syncing, older, bounds>>

\* The server answers what a recovery asked.
Serve(t) ==
  /\ tasks[t] # Idle /\ tasks[t].answer = Null
  /\ tasks' = [tasks EXCEPT ![t].answer =
       IF tasks[t].step = "sync" THEN SyncAnswer(tasks[t].after, tasks[t].through)
       ELSE Listing]
  /\ UNCHANGED <<stream, store, buffered, booting, connection, syncing, older, bounds>>

\* work.then(): the recovery t is over and leaves s.
Done(t, s) ==
  /\ tasks' = [tasks EXCEPT ![t] = Idle]
  /\ store' = Flushed(s)
  /\ buffered' = NoEvents
  /\ booting' = FALSE
  /\ syncing' = IF t = "link" THEN FALSE ELSE syncing

\* Seeded bug: the connection of a failed recovery stays.
AbortQuietly(t) ==
  /\ tasks' = [tasks EXCEPT ![t] = Idle]
  /\ booting' = FALSE
  /\ syncing' = IF t = "link" THEN FALSE ELSE syncing
  /\ UNCHANGED <<store, buffered, connection>>

\* An error ends the recovery t: the timer's is swallowed, a connection's closes
\* that connection.
Abort(t) ==
  /\ tasks' = [tasks EXCEPT ![t] = Idle]
  /\ IF t = "timer" THEN UNCHANGED booting ELSE booting' = FALSE
  /\ IF t = "link" THEN syncing' = FALSE /\ Closed
     ELSE UNCHANGED <<syncing, connection>>
  /\ UNCHANGED <<store, buffered>>

\* Seeded bug: a page that ends before the client's position is taken.
AcceptableBack(t, a) ==
  /\ a.status = "ok"
  /\ tasks[t].through # Null => a.through = tasks[t].through

\* A page of sync() that passes its checks.
Acceptable(t, a) ==
  /\ a.status = "ok"
  /\ tasks[t].through # Null => a.through = tasks[t].through
  /\ a.next.at <= a.through.at
  /\ a.next.at >= store.at
  /\ ~(a.more /\ a.next = tasks[t].after)

TakePage(t) ==
  /\ tasks[t].step = "sync" /\ tasks[t].answer # Null
  /\ LET a == tasks[t].answer
     IN /\ Acceptable(t, a)
        /\ LET s == [Applied(store, a.events) EXCEPT !.cursor = a.next, !.at = a.next.at]
           IN IF a.more
              THEN /\ tasks' = [tasks EXCEPT ![t] =
                        [@ EXCEPT !.after = a.next, !.through = a.through, !.answer = Null]]
                   /\ store' = s
                   /\ UNCHANGED <<buffered, booting, syncing>>
              ELSE IF t = "timer"
              THEN /\ tasks' = [tasks EXCEPT ![t] = Idle]
                   /\ store' = s
                   /\ UNCHANGED <<buffered, booting, syncing>>
              ELSE Done(t, s)
  /\ UNCHANGED <<stream, connection, older, bounds>>

TakeRefusal(t) ==
  /\ tasks[t].step = "sync" /\ tasks[t].answer # Null
  /\ tasks[t].answer.status # "reset"
  /\ ~Acceptable(t, tasks[t].answer)
  /\ Abort(t)
  /\ UNCHANGED <<stream, older, bounds>>

\* sync_reset_required: the client empties its store and loads a snapshot.
TakeReset(t) ==
  /\ tasks[t].step = "sync" /\ tasks[t].answer # Null
  /\ tasks[t].answer.status = "reset"
  /\ store' = Empty
  /\ booting' = TRUE
  /\ tasks' = [tasks EXCEPT ![t] =
       [Idle EXCEPT !.step = "list", !.given = tasks[t].given,
                    !.through = IF tasks[t].given THEN tasks[t].through ELSE Null]]
  /\ UNCHANGED <<stream, buffered, connection, syncing, older, bounds>>

\* loadSnapshot(), the conversations.
TakeList(t) ==
  /\ tasks[t].step = "list" /\ tasks[t].answer # Null
  /\ tasks' = [tasks EXCEPT ![t].step = "page", ![t].answer = Null,
                            ![t].at = Issued(tasks[t].answer.at)]
  /\ UNCHANGED <<stream, store, buffered, booting, connection, syncing, older, bounds>>

\* loadSnapshot(), the messages, and what its caller goes on with: at boot and
\* after a connection's reset a sync from the ready cursor, after any other reset
\* a new connection that starts from nothing.
TakeSnapshot(t) ==
  /\ tasks[t].step = "page" /\ tasks[t].answer # Null
  /\ LET task == tasks[t]
         s == Loaded(store, task.at, task.answer)
     IN IF task.through # Null
        THEN /\ store' = IF task.boot
                         THEN [s EXCEPT !.cursor = task.through, !.at = task.through.at]
                         ELSE [s EXCEPT !.cursor = task.through]
             /\ tasks' = [tasks EXCEPT ![t] = Sync(task.through, Null)]
             /\ UNCHANGED <<buffered, booting, connection, syncing>>
        ELSE /\ Done(t, [s EXCEPT !.cursor = Null])
             /\ Closed
  /\ UNCHANGED <<stream, older, bounds>>

\* A request fails, times out, or its answer is lost.
Lose(t) ==
  /\ tasks[t] # Idle
  /\ fails < regime.fails
  /\ fails' = fails + 1
  /\ Abort(t)
  /\ UNCHANGED <<stream, older, drops>>
-----------------------------------------------------------------------------
(* The screen *)

\* listMessages(): asked, answered, merged.
AskOlder ==
  /\ regime.lists /\ older = Null
  /\ older' = [rows |-> Null]
  /\ UNCHANGED <<stream, store, buffered, booting, connection, syncing, tasks, bounds>>

ServeOlder ==
  /\ older # Null /\ older.rows = Null
  /\ older' = [rows |-> Listing.rows]
  /\ UNCHANGED <<stream, store, buffered, booting, connection, syncing, tasks, bounds>>

TakeOlder ==
  /\ older # Null /\ older.rows # Null
  /\ store' = [store EXCEPT !.rows = [m \in Messages |->
                 IF older.rows[m] = "none" THEN @[m] ELSE Merged(store, m, older.rows[m]).rows[m]]]
  /\ older' = Null
  /\ UNCHANGED <<stream, buffered, booting, connection, syncing, tasks, bounds>>
-----------------------------------------------------------------------------
\* The server commits, whatever the client does.
Commit ==
  /\ Create \/ Expire
  /\ UNCHANGED <<store, buffered, booting, connection, syncing, tasks, older, bounds>>

\* The machine sleeps for longer than a cursor lives; requests are long gone.
Sleep ==
  /\ socket = "closed" /\ older = Null /\ \A t \in Slots : tasks[t] = Idle
  /\ Pass
  /\ UNCHANGED <<store, buffered, booting, connection, syncing, tasks, older, bounds>>

\* login() has loaded a snapshot of the empty conversation.
Init ==
  /\ StreamInit
  /\ store = [Empty EXCEPT !.cursor = Issued(0)]
  /\ buffered = NoEvents
  /\ booting = FALSE
  /\ socket = "closed" /\ frames = <<>> /\ sent = 0
  /\ syncing = FALSE
  /\ tasks = [t \in Slots |-> Idle]
  /\ older = Null
  /\ drops = 0 /\ fails = 0

Recover(t) ==
  \/ Serve(t)
  \/ TakePage(t) \/ TakeRefusal(t) \/ TakeReset(t) \/ TakeList(t) \/ TakeSnapshot(t)

Next ==
  \/ Commit \/ Sleep
  \/ Connect \/ Drop \/ Poll \/ Ready \/ Event
  \/ TimerSync
  \/ \E t \in Slots : Recover(t) \/ Lose(t)
  \/ AskOlder \/ ServeOlder \/ TakeOlder

Spec == Init /\ [][Next]_vars

\* The timers fire, the server answers, frames arrive.
FairSpec ==
  /\ Spec
  /\ WF_vars(Connect) /\ WF_vars(Poll) /\ WF_vars(Ready) /\ WF_vars(Event)
  /\ WF_vars(TimerSync) /\ \A t \in Slots : WF_vars(Recover(t))
-----------------------------------------------------------------------------
(* Properties *)

Reflected(i) ==
  LET m == log[i].msg
  IN IF log[i].type = "created" THEN store.rows[m] # "none" \/ m \in store.tombs
     ELSE store.rows[m] # "text"

\* The recovery cursor covers no gap: the client shows every message up to it and
\* no text that expired up to it, whatever live events, pages, snapshots and lists
\* arrived in whatever order. A later sync starts at the cursor, so what it skips
\* is skipped for ever (sync, applyBuffered, loadSnapshot).
NoGap == store.cursor # Null => \A i \in 1..store.cursor.at : Reflected(i)

\* Recoveries that overlap never take the cursor back, and with it never read the
\* same range in turns for ever.
CursorNeverRetreats ==
  [][store.cursor # Null /\ store'.cursor # Null =>
       store'.cursor.at >= store.cursor.at]_vars

\* The client ends up showing what the server has.
Converges ==
  <>[](\A m \in Messages :
         store.rows[m] = Content(m) \/ (m \in store.tombs /\ store.rows[m] = "none"))
=============================================================================
