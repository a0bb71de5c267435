------------------------------ MODULE Realtime ------------------------------
(***************************************************************************)
(* modules/realtime over modules/identity: every socket belongs to a       *)
(* session; a timer starts passes over all peers that read the outbox from *)
(* each peer's position, hydrate what the user may see and send it. A pass *)
(* awaits at every call and may still run when the next one starts.        *)
(* Sessions end, events are committed, sockets fail and fall silent at any *)
(* of these points, and the server shuts down.                             *)
(*                                                                         *)
(* ClientSync has the other end: there one socket, polled by one pass at a *)
(* time, meets the client's recovery.                                      *)
(***************************************************************************)
EXTENDS Sessions, FiniteSetsExt

CONSTANTS
  Sockets,       \* connections that may be opened
  Passes,        \* passes that may be under way at once
  Batch,         \* events of one scan (100)
  MaxEvents      \* bound on the events committed

ASSUME RealtimeAssumption ==
  Batch \in Nat \ {0} /\ MaxEvents \in Nat /\ IsFiniteSet(Passes)

VARIABLES
  log,           \* event_outbox: for each event the accounts that may see it
  peers,         \* the sockets; `late` counts what is sent after the session ended
  passes,        \* where each pass is
  up             \* FALSE once close() was called

vars == <<identity, log, peers, passes, up>>

Positions == 0..MaxEvents
Idle == [step |-> "idle", todo |-> {}]
NoPeer == [state |-> "none"]

\* Registered, and not closed since.
Open(p) == peers[p].state \in {"joining", "marked", "live"}
Holder(p) == HolderOf[peers[p].session]

\* closePeer(): whatever happens to a closed peer is ignored from then on.
Shut(p) == [peers EXCEPT ![p].state = IF Open(p) THEN "closed" ELSE @]
-----------------------------------------------------------------------------
(* A connection *)

\* The handshake's session is looked at once more when the peer is registered.
Connect(p) ==
  /\ up /\ peers[p] = NoPeer
  /\ \E s \in SessionIds :
       /\ Active(s)
       /\ peers' = [peers EXCEPT ![p] = [state |-> "joining", session |-> s, position |-> 0,
                                         since |-> 0, sent |-> {}, late |-> 0,
                                         silent |-> FALSE]]
  /\ UNCHANGED <<identity, log, passes, up>>

\* sync.ready() reads the end of the outbox; the peer stays paused until its frame is sent.
Mark(p) ==
  /\ peers[p].state = "joining"
  /\ peers' = [peers EXCEPT ![p].state = "marked", ![p].since = Len(log)]
  /\ UNCHANGED <<identity, log, passes, up>>

Ready(p) ==
  /\ peers[p].state = "marked"
  /\ peers' = [peers EXCEPT ![p].state = "live", ![p].position = peers[p].since]
  /\ UNCHANGED <<identity, log, passes, up>>

\* The client leaves, or the socket fails.
Leave(p) ==
  /\ Open(p)
  /\ peers' = Shut(p)
  /\ UNCHANGED <<identity, log, passes, up>>

\* No pong comes back any more.
FallSilent(p) ==
  /\ Open(p) /\ ~peers[p].silent
  /\ peers' = [peers EXCEPT ![p].silent = TRUE]
  /\ UNCHANGED <<identity, log, passes, up>>

\* The heartbeat timer finds the last pong too old.
Heartbeat(p) ==
  /\ Open(p) /\ peers[p].silent
  /\ peers' = Shut(p)
  /\ UNCHANGED <<identity, log, passes, up>>
-----------------------------------------------------------------------------
(* A pass: poll(), and pollPeer() for one peer after the other *)

Goes(k, pass) == passes' = [passes EXCEPT ![k] = pass]
Onward(k) == Goes(k, [step |-> "next", todo |-> passes[k].todo])

\* The timer fires whether or not the pass before it is over.
StartPass(k) ==
  /\ up /\ passes[k].step = "idle"
  /\ \E p \in Sockets : Open(p)
  /\ Goes(k, [step |-> "next", todo |-> {p \in Sockets : Open(p)}])
  /\ UNCHANGED <<identity, log, peers, up>>

EndPass(k) ==
  /\ passes[k].step = "next" /\ passes[k].todo = {}
  /\ Goes(k, Idle)
  /\ UNCHANGED <<identity, log, peers, up>>

\* Seeded bug: the session is only looked at when the socket is opened.
DismissedNever(p) == peers[p].silent

\* The session ended, or the last pong is too old.
Dismissed(p) == ~Active(peers[p].session) \/ peers[p].silent

\* The peer's turn: it may be dismissed for its session, its silence or its backlog, or
\* be up to date. Otherwise the end of the outbox bounds what is read.
Visit(k) ==
  LET pass == passes[k]
  IN /\ pass.step = "next"
     /\ \E p \in pass.todo :
          LET rest == [step |-> "next", todo |-> pass.todo \ {p}]
          IN \/ /\ peers[p].state # "live"
                /\ Goes(k, rest) /\ UNCHANGED peers
             \/ /\ peers[p].state = "live" /\ Dismissed(p)
                /\ peers' = Shut(p) /\ Goes(k, rest)
             \/ /\ peers[p].state = "live" /\ ~Dismissed(p)
                /\ up /\ Len(log) <= peers[p].position
                /\ Goes(k, rest) /\ UNCHANGED peers
             \/ /\ peers[p].state = "live" /\ ~Dismissed(p)
                /\ up /\ Len(log) > peers[p].position
                /\ Goes(k, [step |-> "scan", todo |-> rest.todo, peer |-> p,
                            through |-> Len(log)])
                /\ UNCHANGED peers
     /\ UNCHANGED <<identity, log, up>>

\* Anything that throws, as the tables do once they are closed, closes the peer.
Fail(k) ==
  /\ peers' = Shut(passes[k].peer)
  /\ Onward(k)

\* scan(): at most Batch events after the position as it is now.
Scan(k) ==
  LET pass == passes[k]
      after == peers[pass.peer].position
  IN /\ pass.step = "scan"
     /\ \/ ~up /\ Fail(k)
        \/ /\ up
           /\ Goes(k, [step |-> "row", todo |-> pass.todo, peer |-> pass.peer, at |-> after + 1,
                       end |-> Max({after, Min({after + Batch, pass.through})})])
           /\ UNCHANGED peers
     /\ UNCHANGED <<identity, log, up>>

\* Seeded bug: an event is hydrated by what the socket's user may see, without a session.
HydratesAnyway(s) == TRUE

\* hydrate() finds the session active, or throws.
Hydrates(s) == Active(s)

\* A row: hydrated if the user may see it, skipped if not.
Hydrate(k) ==
  LET pass == passes[k]
  IN /\ pass.step = "row" /\ pass.at <= pass.end
     /\ \/ /\ ~up \/ ~Hydrates(peers[pass.peer].session)
           /\ Fail(k)
        \/ /\ up /\ Hydrates(peers[pass.peer].session)
           /\ Goes(k, IF Holder(pass.peer) \in log[pass.at] THEN [pass EXCEPT !.step = "send"]
                      ELSE [pass EXCEPT !.at = @ + 1])
           /\ UNCHANGED peers
     /\ UNCHANGED <<identity, log, up>>

\* Sent, unless the peer is closed or its buffer full: then the pass leaves it where it was.
Send(k) ==
  LET pass == passes[k]
      p == pass.peer
  IN /\ pass.step = "send"
     /\ \/ /\ Open(p)
           /\ peers' = [peers EXCEPT ![p].sent = @ \cup {pass.at},
                                     ![p].late = @ + (IF Active(peers[p].session) THEN 0 ELSE 1)]
           /\ Goes(k, [pass EXCEPT !.step = "row", !.at = @ + 1])
        \/ peers' = Shut(p) /\ Onward(k)
     /\ UNCHANGED <<identity, log, up>>

\* Seeded bug: the position is that of the last event in the outbox.
ReachedAhead(pass) == Len(log)

\* scannedThrough.
Reached(pass) == pass.end

\* The page is through: the position follows what this pass scanned, even back.
Settle(k) ==
  LET pass == passes[k]
  IN /\ pass.step = "row" /\ pass.at > pass.end
     /\ peers' = [peers EXCEPT ![pass.peer].position = Reached(pass)]
     /\ Onward(k)
     /\ UNCHANGED <<identity, log, up>>

Pass(k) == Visit(k) \/ Scan(k) \/ Hydrate(k) \/ Send(k) \/ Settle(k) \/ EndPass(k)
-----------------------------------------------------------------------------
\* Transactions of other requests.
Commit ==
  /\ Len(log) < MaxEvents
  /\ \E A \in SUBSET Known : log' = Append(log, A)
  /\ UNCHANGED <<identity, peers, passes, up>>

People ==
  /\ \E s \in SessionIds : Login(s) \/ End(s)
  /\ UNCHANGED <<log, peers, passes, up>>

\* close(): the timer stops, every peer is closed; passes under way run on.
Shutdown ==
  /\ up
  /\ up' = FALSE
  /\ peers' = [p \in Sockets |-> Shut(p)[p]]
  /\ UNCHANGED <<identity, log, passes>>

Init ==
  /\ SessionsInit
  /\ log = <<>>
  /\ peers = [p \in Sockets |-> NoPeer]
  /\ passes = [k \in Passes |-> Idle]
  /\ up = TRUE

Next ==
  \/ \E p \in Sockets :
       Connect(p) \/ Mark(p) \/ Ready(p) \/ Leave(p) \/ FallSilent(p) \/ Heartbeat(p)
  \/ \E k \in Passes : StartPass(k) \/ Pass(k)
  \/ Commit \/ People \/ Shutdown

Spec == Init /\ [][Next]_vars

\* The timers fire and the event loop runs what is queued.
FairSpec ==
  /\ Spec
  /\ \A p \in Sockets : WF_vars(Mark(p)) /\ WF_vars(Ready(p)) /\ WF_vars(Heartbeat(p))
  /\ \A k \in Passes : WF_vars(StartPass(k)) /\ WF_vars(Pass(k))
-----------------------------------------------------------------------------
(* Properties *)

\* What a peer should have been sent of the events up to n.
Owed(p, n) == {i \in DOMAIN log : peers[p].since < i /\ i <= n /\ Holder(p) \in log[i]}

\* A socket has been sent every event its user may see between its ready frame and its
\* position, and what it has been sent has no hole, although passes overlap, re-read
\* positions and take them back (pollPeer).
NoHole ==
  \A p \in Sockets : peers[p] # NoPeer =>
    /\ peers[p].state = "live" => Owed(p, peers[p].position) \subseteq peers[p].sent
    /\ \A i \in peers[p].sent : Owed(p, i) \subseteq peers[p].sent

\* Once its session ended a socket is sent no more than the event each pass under way had
\* already hydrated (sessionActive in pollPeer, assertContext in hydrate).
LastWords ==
  \A p \in Sockets : peers[p] # NoPeer => peers[p].late <= Cardinality(Passes)

\* A socket whose session ended, or that fell silent, is closed some time.
DeadCloses ==
  \A p \in Sockets :
    Open(p) /\ (~Active(peers[p].session) \/ peers[p].silent) ~> ~Open(p)

\* A socket that stays open gets every event its user may see after its ready frame.
Delivers ==
  \A p \in Sockets : \A i \in 1..MaxEvents :
    (Open(p) /\ peers[p].state # "joining" /\ i \in Owed(p, Len(log))) ~> (~Open(p) \/ i \in peers[p].sent)
=============================================================================
