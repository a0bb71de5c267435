-------------------------- MODULE Realtime_proofs --------------------------
(***************************************************************************)
(* Theorems about Realtime, for any number of sockets, of overlapping      *)
(* passes and of events, and any size of a scan.                           *)
(***************************************************************************)
EXTENDS Realtime, FiniteSetTheorems, TLAPS

Peer == [state : {"joining", "marked", "live", "closed"}, session : SessionIds,
         position : Nat, since : Nat, sent : SUBSET Nat, late : Nat, silent : BOOLEAN]

Waiting == [step : {"idle", "next"}, todo : SUBSET Sockets]
Scanning == [step : {"scan"}, todo : SUBSET Sockets, peer : Sockets, through : Nat]
Reading == [step : {"row", "send"}, todo : SUBSET Sockets, peer : Sockets, at : Nat, end : Nat]

Typed ==
  /\ users \in Seq(Accounts)
  /\ log \in Seq(SUBSET Accounts)
  /\ peers \in [Sockets -> {NoPeer} \cup Peer]
  /\ passes \in [Passes -> Waiting \cup Scanning \cup Reading]

\* What a socket has been sent, against its position and the outbox.
PeerOK(p) ==
  peers[p] \in Peer =>
    /\ peers[p].position <= Len(log)
    /\ peers[p].since <= Len(log)
    /\ peers[p].sent \subseteq 1..Len(log)
    /\ peers[p].state \in {"joining", "marked"} => peers[p].sent = {}
    /\ peers[p].state = "live" => Owed(p, peers[p].position) \subseteq peers[p].sent
    /\ \A i \in peers[p].sent : Owed(p, i) \subseteq peers[p].sent

\* A pass at work on a socket that is open has sent it all before the row it is at.
\* Whatever other passes did to the position meanwhile does not matter.
PassOK(k) ==
  LET pass == passes[k]
      peer == peers[pass.peer]
  IN /\ pass \in Scanning \cup Reading =>
          peer \in Peer /\ peer.state \in {"live", "closed"}
     /\ pass \in Scanning => pass.through <= Len(log)
     /\ pass \in Reading =>
          /\ pass.at \in 1..(Len(log) + 1) /\ pass.end <= Len(log)
          /\ pass.step = "send" => pass.at <= pass.end
          /\ peer.state = "live" => Owed(pass.peer, pass.at - 1) \subseteq peer.sent

IInv == Typed /\ (\A p \in Sockets : PeerOK(p)) /\ (\A k \in Passes : PassOK(k))
-----------------------------------------------------------------------------
LEMMA MaxOfTwo ==
  ASSUME NEW a \in Nat, NEW b \in Nat
  PROVE  Max({a, b}) \in {a, b} /\ Max({a, b}) >= a /\ Max({a, b}) >= b
<1>1. \E x \in {a, b} : \A y \in {a, b} : x >= y
  <2>1. CASE a >= b
    BY <2>1
  <2>2. CASE b >= a
    BY <2>2
  <2> QED
    BY <2>1, <2>2
<1> QED
  BY <1>1 DEF Max

LEMMA MinOfTwo ==
  ASSUME NEW a \in Nat, NEW b \in Nat
  PROVE  Min({a, b}) \in {a, b} /\ Min({a, b}) <= a /\ Min({a, b}) <= b
<1>1. \E x \in {a, b} : \A y \in {a, b} : x <= y
  <2>1. CASE a >= b
    BY <2>1
  <2>2. CASE b >= a
    BY <2>2
  <2> QED
    BY <2>1, <2>2
<1> QED
  BY <1>1 DEF Min

\* The record of a socket says by its state whether there is one.
LEMMA States ==
  ASSUME Typed, NEW p \in Sockets
  PROVE  /\ Open(p) => peers[p] \in Peer
         /\ peers[p].state = "live" => peers[p] \in Peer
         /\ peers[p].state \in {"joining", "marked"} => peers[p] \in Peer
         /\ peers[p] # NoPeer <=> peers[p] \in Peer
<1>1. NoPeer.state = "none"
  BY DEF NoPeer
<1>2. \A q \in Peer : q.state # "none"
  BY DEF Peer
<1> QED
  BY <1>1, <1>2 DEF Typed, Open

\* And the record of a pass by its step.
LEMMA StepsOf ==
  ASSUME Typed, NEW k \in Passes
  PROVE  /\ passes[k].step \in {"row", "send"} => passes[k] \in Reading
         /\ passes[k].step = "scan" => passes[k] \in Scanning
         /\ passes[k].step \in {"idle", "next"} => passes[k] \in Waiting
         /\ passes[k].todo \in SUBSET Sockets
BY DEF Typed, Waiting, Scanning, Reading

LEMMA Apart ==
  ASSUME NEW w \in Waiting
  PROVE  w \notin Scanning \cup Reading
BY DEF Waiting, Scanning, Reading

LEMMA ScanApart ==
  ASSUME NEW w \in Scanning
  PROVE  w \notin Reading
BY DEF Scanning, Reading

LEMMA RowApart ==
  ASSUME NEW w \in Reading
  PROVE  w \notin Scanning
BY DEF Scanning, Reading
-----------------------------------------------------------------------------
(* What leaves the invariant alone *)

\* A socket that a pass may be working on is still there, with all it was sent.
Kept(q) ==
  peers[q] \in Peer /\ peers[q].state \in {"live", "closed"} =>
    /\ peers'[q] \in Peer /\ peers'[q].state \in {"live", "closed"}
    /\ peers'[q].state = "live" => peers[q].state = "live"
    /\ peers'[q].session = peers[q].session /\ peers'[q].since = peers[q].since
    /\ peers[q].sent \subseteq peers'[q].sent

LEMMA OwedFrame ==
  ASSUME NEW p \in Sockets, NEW n, log' = log,
         peers'[p].session = peers[p].session, peers'[p].since = peers[p].since
  PROVE  Owed(p, n)' = Owed(p, n)
BY DEF Owed, Holder

LEMMA PassFrame ==
  ASSUME Typed, log' = log, \A q \in Sockets : Kept(q),
         NEW k \in Passes, PassOK(k), passes'[k] = passes[k]
  PROVE  PassOK(k)'
<1> DEFINE p == passes[k].peer
<1>1. CASE passes[k] \notin Scanning \cup Reading
  BY <1>1 DEF PassOK
<1>2. CASE passes[k] \in Scanning \cup Reading
  <2>1. p \in Sockets /\ peers[p] \in Peer /\ peers[p].state \in {"live", "closed"}
    BY <1>2 DEF PassOK, Scanning, Reading
  <2>2. Kept(p)
    BY <2>1
  <2>3. \A n : Owed(p, n)' = Owed(p, n)
    BY <2>1, <2>2, OwedFrame DEF Kept
  <2> QED
    BY <1>2, <2>1, <2>2, <2>3 DEF PassOK, Kept
<1> QED
  BY <1>1, <1>2

LEMMA PeerFrame ==
  ASSUME log' = log, NEW p \in Sockets, PeerOK(p), peers'[p] = peers[p]
  PROVE  PeerOK(p)' /\ Kept(p)
<1>1. \A n : Owed(p, n)' = Owed(p, n)
  BY OwedFrame
<1> QED
  BY <1>1 DEF PeerOK, Kept

\* A socket is closed, or falls silent.
LEMMA Fading ==
  ASSUME Typed, log' = log, NEW p \in Sockets, PeerOK(p), Open(p),
         \/ peers'[p] = [peers[p] EXCEPT !.state = "closed"]
         \/ peers'[p] = [peers[p] EXCEPT !.silent = TRUE]
  PROVE  PeerOK(p)' /\ Kept(p) /\ peers'[p] \in Peer
<1>1. peers[p] \in Peer
  BY States
<1>2. peers'[p] \in Peer
  BY <1>1 DEF Peer
<1>3. /\ peers'[p].session = peers[p].session /\ peers'[p].since = peers[p].since
      /\ peers'[p].sent = peers[p].sent /\ peers'[p].position = peers[p].position
      /\ peers'[p].state \in {peers[p].state, "closed"}
  BY <1>1 DEF Peer
<1>4. \A n : Owed(p, n)' = Owed(p, n)
  BY <1>3, OwedFrame
<1> QED
  BY <1>1, <1>2, <1>3, <1>4 DEF PeerOK, Kept

LEMMA ShutFrame ==
  ASSUME Typed, log' = log, \A q \in Sockets : PeerOK(q), NEW p \in Sockets,
         peers' = Shut(p)
  PROVE  /\ peers' \in [Sockets -> {NoPeer} \cup Peer]
         /\ \A q \in Sockets : PeerOK(q)' /\ Kept(q)
<1>1. ASSUME NEW q \in Sockets
      PROVE  PeerOK(q)' /\ Kept(q) /\ peers'[q] \in {NoPeer} \cup Peer
  <2>1. CASE q = p /\ Open(p)
    <3>1. peers'[p] = [peers[p] EXCEPT !.state = "closed"]
      BY <2>1 DEF Shut, Typed
    <3> QED
      BY <2>1, <3>1, Fading
  <2>2. CASE ~(q = p /\ Open(p))
    <3>1. peers'[q] = peers[q]
      <4>1. CASE q # p
        BY <4>1 DEF Shut, Typed
      <4>2. CASE q = p /\ ~Open(p)
        <5>1. peers'[p] = [peers[p] EXCEPT !.state = peers[p].state]
          BY <4>2 DEF Shut, Typed
        <5>2. peers[p] \in {NoPeer} \cup Peer
          BY DEF Typed
        <5>3. [peers[p] EXCEPT !.state = peers[p].state] = peers[p]
          BY <5>2 DEF NoPeer, Peer
        <5> QED
          BY <4>2, <5>1, <5>3
      <4> QED
        BY <2>2, <4>1, <4>2
    <3> QED
      BY <3>1, PeerFrame DEF Typed
  <2> QED
    BY <2>1, <2>2
<1> QED
  BY <1>1 DEF Shut, Typed

LEMMA SamePeers ==
  ASSUME log' = log, \A q \in Sockets : PeerOK(q), peers' = peers
  PROVE  \A q \in Sockets : PeerOK(q)' /\ Kept(q)
BY PeerFrame

LEMMA WaitingOK ==
  ASSUME NEW k \in Passes, passes'[k] \in Waiting
  PROVE  PassOK(k)'
<1>1. passes'[k] \notin Scanning \cup Reading
  BY Apart
<1> QED
  BY <1>1 DEF PassOK

\* The pass k goes on, the others stay where they are.
LEMMA PassMoves ==
  ASSUME IInv, UNCHANGED <<users, log>>, NEW k \in Passes,
         NEW w \in Waiting \cup Scanning \cup Reading, Goes(k, w),
         peers' \in [Sockets -> {NoPeer} \cup Peer],
         \A q \in Sockets : PeerOK(q)' /\ Kept(q),
         passes'[k] = w => PassOK(k)'
  PROVE  IInv'
<1>1. passes'[k] = w /\ \A j \in Passes \ {k} : passes'[j] = passes[j]
  BY DEF Goes, IInv, Typed
<1>2. \A j \in Passes : PassOK(j)'
  <2> TAKE j \in Passes
  <2>1. CASE j = k
    BY <2>1, <1>1
  <2>2. CASE j # k
    BY <2>2, <1>1, PassFrame DEF IInv
  <2> QED
    BY <2>1, <2>2
<1>3. Typed'
  BY DEF IInv, Typed, Goes
<1> QED
  BY <1>2, <1>3 DEF IInv
-----------------------------------------------------------------------------
(* The connections *)

\* One socket changes while no pass moves.
LEMMA SocketMoves ==
  ASSUME IInv, UNCHANGED <<users, log, passes>>, NEW p \in Sockets,
         peers' \in [Sockets -> {NoPeer} \cup Peer],
         \A q \in Sockets \ {p} : peers'[q] = peers[q],
         PeerOK(p)', Kept(p)
  PROVE  IInv'
<1>1. \A q \in Sockets : PeerOK(q)' /\ Kept(q)
  BY PeerFrame DEF IInv
<1>2. \A k \in Passes : PassOK(k)'
  BY <1>1, PassFrame DEF IInv
<1> QED
  BY <1>1, <1>2 DEF IInv, Typed

LEMMA ConnectKeeps ==
  ASSUME IInv, NEW p \in Sockets, Connect(p)
  PROVE  IInv'
<1>1. PICK s \in SessionIds :
        peers' = [peers EXCEPT ![p] = [state |-> "joining", session |-> s, position |-> 0,
                                       since |-> 0, sent |-> {}, late |-> 0, silent |-> FALSE]]
  BY DEF Connect
<1>2. peers'[p] = [state |-> "joining", session |-> s, position |-> 0,
                   since |-> 0, sent |-> {}, late |-> 0, silent |-> FALSE]
  BY <1>1 DEF IInv, Typed
<1>3. peers'[p] \in Peer
  BY <1>2 DEF Peer
<1>4. peers' \in [Sockets -> {NoPeer} \cup Peer] /\ \A q \in Sockets \ {p} : peers'[q] = peers[q]
  BY <1>1, <1>2, <1>3 DEF IInv, Typed
<1>5. Len(log') \in Nat
  BY DEF Connect, IInv, Typed
<1>6. PeerOK(p)'
  BY <1>2, <1>5 DEF PeerOK
<1>7. peers[p] \notin Peer
  BY States DEF Connect, IInv
<1>8. Kept(p)
  BY <1>7 DEF Kept
<1> QED
  BY <1>4, <1>6, <1>8, SocketMoves DEF Connect, identity

LEMMA MarkKeeps ==
  ASSUME IInv, NEW p \in Sockets, Mark(p)
  PROVE  IInv'
<1>1. peers[p] \in Peer /\ peers[p].sent = {} /\ peers[p].position <= Len(log)
  BY States DEF Mark, IInv, PeerOK
<1>2. peers'[p] = [peers[p] EXCEPT !.state = "marked", !.since = Len(log)]
  BY DEF Mark, IInv, Typed
<1>3. Len(log) \in Nat
  BY DEF IInv, Typed
<1>4. /\ peers'[p] \in Peer /\ peers'[p].state = "marked" /\ peers'[p].sent = {}
      /\ peers'[p].since = Len(log) /\ peers'[p].position <= Len(log)
  BY <1>1, <1>2, <1>3 DEF Peer
<1>5. peers' \in [Sockets -> {NoPeer} \cup Peer] /\ \A q \in Sockets \ {p} : peers'[q] = peers[q]
  BY <1>4 DEF Mark, IInv, Typed
<1>6. PeerOK(p)'
  <2>1. log' = log
    BY DEF Mark
  <2>2. Len(log) <= Len(log) /\ {} \subseteq 1..Len(log)
    BY <1>3
  <2> QED
    BY <1>4, <2>1, <2>2 DEF PeerOK
<1>7. Kept(p)
  BY DEF Kept, Mark
<1> QED
  BY <1>5, <1>6, <1>7, SocketMoves DEF Mark, identity

LEMMA ReadyKeeps ==
  ASSUME IInv, NEW p \in Sockets, Ready(p)
  PROVE  IInv'
<1>1. peers[p] \in Peer /\ peers[p].sent = {} /\ peers[p].since <= Len(log)
  BY States DEF Ready, IInv, PeerOK
<1>2. peers'[p] = [peers[p] EXCEPT !.state = "live", !.position = peers[p].since]
  BY DEF Ready, IInv, Typed
<1>3. /\ peers'[p] \in Peer /\ peers'[p].state = "live" /\ peers'[p].sent = {}
      /\ peers'[p].since = peers[p].since /\ peers'[p].position = peers[p].since
  BY <1>1, <1>2 DEF Peer
<1>4. peers' \in [Sockets -> {NoPeer} \cup Peer] /\ \A q \in Sockets \ {p} : peers'[q] = peers[q]
  BY <1>3 DEF Ready, IInv, Typed
<1>5. log' = log /\ Len(log) \in Nat /\ peers'[p].since \in Nat /\ DOMAIN log = 1..Len(log)
  <2>1. log \in Seq(SUBSET Accounts) /\ log' = log
    BY DEF Ready, IInv, Typed
  <2>2. peers'[p].since \in Nat
    BY <1>3 DEF Peer
  <2> QED
    BY <2>1, <2>2
<1>6. Owed(p, peers[p].position)' = {}
  BY <1>3, <1>5 DEF Owed
<1>7. PeerOK(p)'
  BY <1>1, <1>3, <1>5, <1>6 DEF PeerOK
<1>8. Kept(p)
  BY DEF Kept, Ready
<1> QED
  BY <1>4, <1>7, <1>8, SocketMoves DEF Ready, identity

LEMMA ShutKeeps ==
  ASSUME IInv, UNCHANGED <<users, log, passes>>, NEW p \in Sockets, peers' = Shut(p)
  PROVE  IInv'
<1>1. /\ peers' \in [Sockets -> {NoPeer} \cup Peer]
      /\ \A q \in Sockets : PeerOK(q)' /\ Kept(q)
  BY ShutFrame DEF IInv
<1>2. \A q \in Sockets \ {p} : peers'[q] = peers[q]
  BY DEF Shut, IInv, Typed
<1> QED
  BY <1>1, <1>2, SocketMoves

LEMMA SilentKeeps ==
  ASSUME IInv, NEW p \in Sockets, FallSilent(p)
  PROVE  IInv'
<1>1. peers'[p] = [peers[p] EXCEPT !.silent = TRUE]
  BY DEF FallSilent, IInv, Typed
<1>2. PeerOK(p)' /\ Kept(p) /\ peers'[p] \in Peer
  BY <1>1, Fading DEF FallSilent, IInv
<1>3. peers' \in [Sockets -> {NoPeer} \cup Peer] /\ \A q \in Sockets \ {p} : peers'[q] = peers[q]
  BY <1>2 DEF FallSilent, IInv, Typed
<1> QED
  BY <1>2, <1>3, SocketMoves DEF FallSilent, identity

LEMMA ShutdownKeeps ==
  ASSUME IInv, Shutdown
  PROVE  IInv'
<1>1. peers' = [p \in Sockets |-> Shut(p)[p]] /\ UNCHANGED <<users, log, passes>>
  BY DEF Shutdown, identity
<1>2. ASSUME NEW q \in Sockets
      PROVE  PeerOK(q)' /\ Kept(q) /\ peers'[q] \in {NoPeer} \cup Peer
  <2>1. peers'[q] = [peers[q] EXCEPT !.state = IF Open(q) THEN "closed" ELSE peers[q].state]
    BY <1>1 DEF Shut, IInv, Typed
  <2>2. CASE Open(q)
    <3>1. peers'[q] = [peers[q] EXCEPT !.state = "closed"]
      BY <2>1, <2>2
    <3> QED
      BY <1>1, <2>2, <3>1, Fading DEF IInv
  <2>3. CASE ~Open(q)
    <3>1. peers'[q] = [peers[q] EXCEPT !.state = peers[q].state]
      BY <2>1, <2>3
    <3>2. peers[q] \in {NoPeer} \cup Peer
      BY DEF IInv, Typed
    <3>3. peers'[q] = peers[q]
      BY <3>1, <3>2 DEF NoPeer, Peer
    <3> QED
      BY <1>1, <3>2, <3>3, PeerFrame DEF IInv
  <2> QED
    BY <2>2, <2>3
<1>3. Typed'
  BY <1>1, <1>2 DEF IInv, Typed
<1>4. \A k \in Passes : PassOK(k)'
  BY <1>1, <1>2, PassFrame DEF IInv
<1> QED
  BY <1>2, <1>3, <1>4 DEF IInv
-----------------------------------------------------------------------------
(* The outbox and the sessions *)

LEMMA CommitKeeps ==
  ASSUME IInv, Commit
  PROVE  IInv'
<1>1. PICK A \in SUBSET Known : log' = Append(log, A)
  BY DEF Commit
<1>2. UNCHANGED <<users, peers, passes>>
  BY DEF Commit, identity
<1>3. A \in SUBSET Accounts
  BY DEF Known, Range, IInv, Typed
<1>4. /\ log' \in Seq(SUBSET Accounts) /\ Len(log') = Len(log) + 1 /\ Len(log) \in Nat
      /\ \A i \in 1..Len(log) : log'[i] = log[i]
      /\ DOMAIN log = 1..Len(log) /\ DOMAIN log' = 1..Len(log')
  BY <1>1, <1>3 DEF IInv, Typed
<1>5. ASSUME NEW p \in Sockets, NEW n \in Nat, n <= Len(log)
      PROVE  Owed(p, n)' = Owed(p, n)
  <2>1. Holder(p)' = Holder(p) /\ peers'[p].since = peers[p].since
    BY <1>2 DEF Holder
  <2>2. \A i \in 1..Len(log) : log'[i] = log[i]
    BY <1>4
  <2> QED
    BY <2>1, <2>2, <1>4, <1>5 DEF Owed
<1>6. ASSUME NEW p \in Sockets, peers[p] \in Peer
      PROVE  PeerOK(p)'
  <2>1. PeerOK(p) /\ peers'[p] = peers[p]
    BY <1>2 DEF IInv
  <2>2. peers[p].position \in Nat /\ peers[p].sent \subseteq 1..Len(log)
    BY <1>6, <2>1 DEF Peer, PeerOK
  <2>3. \A i \in peers[p].sent : i \in Nat /\ i <= Len(log)
    BY <2>2, <1>4
  <2>4. Owed(p, peers[p].position)' = Owed(p, peers[p].position)
    BY <1>2, <1>5, <2>1, <2>2, <1>6 DEF PeerOK
  <2>5. \A i \in peers[p].sent : Owed(p, i)' = Owed(p, i)
    BY <2>3, <1>5
  <2>6. peers[p].since \in Nat
    BY <1>6 DEF Peer
  <2> QED
    BY <1>4, <1>6, <2>1, <2>2, <2>4, <2>5, <2>6 DEF PeerOK
<1>7. ASSUME NEW k \in Passes
      PROVE  PassOK(k)'
  <2>1. PassOK(k) /\ passes'[k] = passes[k] /\ passes[k] \in Waiting \cup Scanning \cup Reading
    BY <1>2 DEF IInv, Typed
  <2>2. CASE passes[k] \in Waiting
    BY <2>1, <2>2, WaitingOK
  <2>3. CASE passes[k] \in Scanning
    <3>1. passes[k].through \in Nat /\ passes[k] \notin Reading
      BY <2>3, ScanApart DEF Scanning
    <3> QED
      BY <1>2, <1>4, <2>1, <2>3, <3>1 DEF PassOK
  <2>4. CASE passes[k] \in Reading
    <3>1. /\ passes[k].at \in Nat /\ passes[k].end \in Nat /\ passes[k].peer \in Sockets
          /\ passes[k] \notin Scanning
      BY <2>4, RowApart DEF Reading
    <3>2. passes[k].at \in 1..(Len(log) + 1)
      BY <2>1, <2>4 DEF PassOK
    <3>3. Owed(passes[k].peer, passes[k].at - 1)' = Owed(passes[k].peer, passes[k].at - 1)
      <4>1. passes[k].at - 1 \in Nat /\ passes[k].at - 1 <= Len(log)
        BY <1>4, <3>1, <3>2
      <4> QED
        BY <1>2, <1>5, <3>1, <4>1
    <3> QED
      BY <1>2, <1>4, <2>1, <2>4, <3>1, <3>2, <3>3 DEF PassOK
  <2> QED
    BY <2>1, <2>2, <2>3, <2>4
<1>8. \A p \in Sockets : PeerOK(p)'
  BY <1>2, <1>6 DEF PeerOK
<1> QED
  BY <1>2, <1>4, <1>7, <1>8 DEF IInv, Typed

LEMMA PeopleKeep ==
  ASSUME IInv, People
  PROVE  IInv'
<1>1. UNCHANGED <<log, peers, passes>>
  BY DEF People
<1>2. users' \in Seq(Accounts)
  <2>1. PICK s \in SessionIds : Login(s) \/ End(s)
    BY DEF People
  <2>2. HolderOf[s] \in Accounts /\ users \in Seq(Accounts)
    BY SessionAssumption DEF IInv, Typed
  <2>3. users' = users \/ users' = Append(users, HolderOf[s])
    BY <2>1 DEF Login, End
  <2> QED
    BY <2>2, <2>3
<1>3. \A p \in Sockets : PeerOK(p)' /\ Kept(p)
  BY <1>1, SamePeers DEF IInv
<1>4. \A k \in Passes : PassOK(k)'
  BY <1>1, <1>3, PassFrame DEF IInv
<1> QED
  BY <1>1, <1>2, <1>3, <1>4 DEF IInv, Typed
-----------------------------------------------------------------------------
(* The passes *)

\* A pass at work on a row, and what there is to show of it.
LEMMA RowOK ==
  ASSUME NEW k \in Passes, NEW w \in Reading, passes'[k] = w,
         peers'[w.peer] \in Peer, peers'[w.peer].state \in {"live", "closed"},
         w.at \in 1..(Len(log') + 1), w.end <= Len(log'),
         w.step = "send" => w.at <= w.end,
         peers'[w.peer].state = "live" =>
           Owed(w.peer, w.at - 1)' \subseteq peers'[w.peer].sent
  PROVE  PassOK(k)'
<1>1. passes'[k] \notin Scanning
  BY RowApart
<1> QED
  BY <1>1 DEF PassOK

LEMMA StartPassKeeps ==
  ASSUME IInv, NEW k \in Passes, StartPass(k)
  PROVE  IInv'
<1> DEFINE w == [step |-> "next", todo |-> {p \in Sockets : Open(p)}]
<1>1. w \in Waiting /\ Goes(k, w)
  BY DEF StartPass, Waiting
<1>2. UNCHANGED <<users, log, peers>> /\ peers' \in [Sockets -> {NoPeer} \cup Peer]
  BY DEF StartPass, identity, IInv, Typed
<1>3. \A q \in Sockets : PeerOK(q)' /\ Kept(q)
  BY <1>2, SamePeers DEF IInv
<1> HIDE DEF w
<1> QED
  BY <1>1, <1>2, <1>3, PassMoves, WaitingOK

LEMMA EndPassKeeps ==
  ASSUME IInv, NEW k \in Passes, EndPass(k)
  PROVE  IInv'
<1>1. Idle \in Waiting /\ Goes(k, Idle)
  BY DEF EndPass, Waiting, Idle
<1>2. UNCHANGED <<users, log, peers>> /\ peers' \in [Sockets -> {NoPeer} \cup Peer]
  BY DEF EndPass, identity, IInv, Typed
<1>3. \A q \in Sockets : PeerOK(q)' /\ Kept(q)
  BY <1>2, SamePeers DEF IInv
<1> QED
  BY <1>1, <1>2, <1>3, PassMoves, WaitingOK

\* Whatever a pass goes on with when it is done with a peer, closed or not.
LEMMA OnwardKeeps ==
  ASSUME IInv, NEW k \in Passes, NEW w \in Waiting, Goes(k, w), UNCHANGED <<users, log>>,
         peers' = peers \/ \E p \in Sockets : peers' = Shut(p)
  PROVE  IInv'
<1>1. /\ peers' \in [Sockets -> {NoPeer} \cup Peer]
      /\ \A q \in Sockets : PeerOK(q)' /\ Kept(q)
  <2>1. CASE peers' = peers
    BY <2>1, SamePeers DEF IInv, Typed
  <2>2. CASE \E p \in Sockets : peers' = Shut(p)
    BY <2>2, ShutFrame DEF IInv
  <2> QED
    BY <2>1, <2>2
<1> QED
  BY <1>1, PassMoves, WaitingOK

LEMMA VisitKeeps ==
  ASSUME IInv, NEW k \in Passes, Visit(k)
  PROVE  IInv'
<1>1. UNCHANGED <<users, log>>
  BY DEF Visit, identity
<1>2. PICK p \in passes[k].todo :
        LET rest == [step |-> "next", todo |-> passes[k].todo \ {p}]
        IN \/ /\ Goes(k, rest) /\ (peers' = peers \/ peers' = Shut(p))
           \/ /\ peers[p].state = "live"
              /\ Goes(k, [step |-> "scan", todo |-> rest.todo, peer |-> p, through |-> Len(log)])
              /\ peers' = peers
  BY DEF Visit
<1>3. passes[k].todo \in SUBSET Sockets /\ p \in Sockets
  BY <1>2, StepsOf DEF IInv
<1> DEFINE rest == [step |-> "next", todo |-> passes[k].todo \ {p}]
           scan == [step |-> "scan", todo |-> passes[k].todo \ {p}, peer |-> p,
                    through |-> Len(log)]
<1>4. rest \in Waiting
  BY <1>3 DEF Waiting
<1>5. CASE Goes(k, rest) /\ (peers' = peers \/ peers' = Shut(p))
  <2> HIDE DEF rest
  <2> QED
    BY <1>1, <1>3, <1>4, <1>5, OnwardKeeps
<1>6. CASE peers[p].state = "live" /\ Goes(k, scan) /\ peers' = peers
  <2>1. Len(log) \in Nat
    BY DEF IInv, Typed
  <2>2. scan \in Scanning
    BY <1>3, <2>1 DEF Scanning
  <2>3. scan.peer = p /\ scan.through = Len(log) /\ scan \notin Reading
    BY <2>2, ScanApart
  <2>4. peers[p] \in Peer
    BY <1>3, <1>6, States DEF IInv
  <2>5. \A q \in Sockets : PeerOK(q)' /\ Kept(q)
    BY <1>1, <1>6, SamePeers DEF IInv
  <2> HIDE DEF scan
  <2>6. passes'[k] = scan => PassOK(k)'
    BY <1>1, <1>6, <2>1, <2>3, <2>4 DEF PassOK
  <2> QED
    BY <1>1, <1>6, <2>2, <2>5, <2>6, PassMoves DEF IInv, Typed
<1> QED
  BY <1>2, <1>5, <1>6

LEMMA FailKeeps ==
  ASSUME IInv, NEW k \in Passes, passes[k] \in Scanning \cup Reading, Fail(k),
         UNCHANGED <<users, log>>
  PROVE  IInv'
<1> DEFINE w == [step |-> "next", todo |-> passes[k].todo]
<1>1. w \in Waiting /\ passes[k].peer \in Sockets
  BY DEF Waiting, Scanning, Reading
<1>2. Goes(k, w) /\ peers' = Shut(passes[k].peer)
  BY DEF Fail, Onward
<1> HIDE DEF w
<1> QED
  BY <1>1, <1>2, OnwardKeeps

\* What is known of a pass that reads: it holds a socket, and all rows before `at` were
\* sent to that.
LEMMA AtRow ==
  ASSUME IInv, NEW k \in Passes, NEW pass \in Reading, pass = passes[k]
  PROVE  /\ pass.peer \in Sockets /\ pass.todo \in SUBSET Sockets
         /\ pass.at \in 1..(Len(log) + 1) /\ pass.end \in Nat /\ pass.end <= Len(log)
         /\ pass.step = "send" => pass.at <= pass.end
         /\ peers[pass.peer] \in Peer /\ peers[pass.peer].state \in {"live", "closed"}
         /\ peers[pass.peer].state = "live" =>
              Owed(pass.peer, pass.at - 1) \subseteq peers[pass.peer].sent
         /\ Len(log) \in Nat /\ DOMAIN log = 1..Len(log)
<1>1. PassOK(k)
  BY DEF IInv
<1>2. pass.peer \in Sockets /\ pass.todo \in SUBSET Sockets /\ pass.end \in Nat
  BY DEF Reading
<1>3. Len(log) \in Nat /\ DOMAIN log = 1..Len(log)
  BY DEF IInv, Typed
<1> QED
  BY <1>1, <1>2, <1>3 DEF PassOK

LEMMA ScanKeeps ==
  ASSUME IInv, NEW k \in Passes, Scan(k)
  PROVE  IInv'
<1>1. UNCHANGED <<users, log>>
  BY DEF Scan, identity
<1>2. PICK pass \in Scanning : pass = passes[k]
  BY StepsOf DEF Scan, IInv
<1>3. CASE Fail(k)
  BY <1>1, <1>2, <1>3, FailKeeps
<1>4. CASE ~Fail(k)
  <2>1. /\ pass.peer \in Sockets /\ pass.todo \in SUBSET Sockets /\ pass.through \in Nat
        /\ pass.through <= Len(log)
        /\ peers[pass.peer] \in Peer /\ peers[pass.peer].state \in {"live", "closed"}
    BY <1>2 DEF Scanning, IInv, PassOK
  <2>2. Len(log) \in Nat
    BY DEF IInv, Typed
  <2>3. PICK p \in Sockets : p = pass.peer
    BY <2>1
  <2>4. PICK after \in Nat : after = peers[p].position
    BY <2>1, <2>3 DEF Peer
  <2>5. after <= Len(log) /\ (peers[p].state = "live" => Owed(p, after) \subseteq peers[p].sent)
    BY <2>1, <2>3, <2>4 DEF IInv, PeerOK
  <2>6. PICK top \in Nat : top = Min({after + Batch, pass.through}) /\ top <= Len(log)
    BY <2>1, <2>2, MinOfTwo, RealtimeAssumption
  <2>7. PICK end \in Nat : end = Max({after, top}) /\ end <= Len(log)
    BY <2>2, <2>5, <2>6, MaxOfTwo
  <2> DEFINE row == [step |-> "row", todo |-> pass.todo, peer |-> p, at |-> after + 1, end |-> end]
  <2>8. Goes(k, row) /\ peers' = peers
    BY <1>2, <1>4, <2>3, <2>4, <2>6, <2>7 DEF Scan
  <2>9. row \in Reading
    BY <2>1 DEF Reading
  <2>10. /\ row.peer = p /\ row.at = after + 1 /\ row.step = "row" /\ row.end = end
         /\ row.at - 1 = after
    OBVIOUS
  <2>11. Owed(p, after)' = Owed(p, after)
    BY <1>1, <2>8, OwedFrame
  <2> HIDE DEF row
  <2>12. passes'[k] = row => PassOK(k)'
    <3>1. row.at \in 1..(Len(log') + 1) /\ row.end <= Len(log')
      BY <1>1, <2>2, <2>5, <2>7, <2>10
    <3>2. Owed(row.peer, row.at - 1)' = Owed(p, after)
      BY <2>10, <2>11
    <3> QED
      BY <2>1, <2>3, <2>5, <2>8, <2>9, <2>10, <3>1, <3>2, RowOK
  <2>13. \A q \in Sockets : PeerOK(q)' /\ Kept(q)
    BY <1>1, <2>8, SamePeers DEF IInv
  <2>14. peers' \in [Sockets -> {NoPeer} \cup Peer]
    BY <2>8 DEF IInv, Typed
  <2> QED
    BY <1>1, <2>8, <2>9, <2>12, <2>13, <2>14, PassMoves
<1> QED
  BY <1>3, <1>4

LEMMA HydrateKeeps ==
  ASSUME IInv, NEW k \in Passes, Hydrate(k)
  PROVE  IInv'
<1>1. UNCHANGED <<users, log>>
  BY DEF Hydrate, identity
<1>2. PICK pass \in Reading : pass = passes[k]
  BY StepsOf DEF Hydrate, IInv
<1>3. CASE Fail(k)
  BY <1>1, <1>2, <1>3, FailKeeps
<1>4. CASE ~Fail(k)
  <2>1. PICK p \in Sockets : p = pass.peer
    BY <1>2 DEF Reading
  <2>2. pass.step = "row" /\ pass.at <= pass.end
    BY <1>2 DEF Hydrate
  <2>3. /\ Goes(k, IF Holder(p) \in log[pass.at] THEN [pass EXCEPT !.step = "send"]
                   ELSE [pass EXCEPT !.at = @ + 1])
        /\ peers' = peers
    BY <1>2, <1>4, <2>1 DEF Hydrate
  <2>4. /\ pass.at \in 1..(Len(log) + 1) /\ pass.end \in Nat /\ pass.end <= Len(log)
        /\ peers[p] \in Peer /\ peers[p].state \in {"live", "closed"}
        /\ peers[p].state = "live" => Owed(p, pass.at - 1) \subseteq peers[p].sent
        /\ Len(log) \in Nat /\ DOMAIN log = 1..Len(log)
    BY <1>2, <2>1, AtRow
  <2>5. \A q \in Sockets : PeerOK(q)' /\ Kept(q)
    BY <1>1, <2>3, SamePeers DEF IInv
  <2>6. peers' \in [Sockets -> {NoPeer} \cup Peer]
    BY <2>3 DEF IInv, Typed
  <2>7. PICK at \in Nat : at = pass.at
    BY <2>4
  <2>8. Owed(p, at - 1)' = Owed(p, at - 1) /\ Owed(p, at)' = Owed(p, at)
    BY <1>1, <2>3, OwedFrame
  <2>9. ASSUME NEW w \in Reading, w.peer = p, w.end = pass.end, Goes(k, w),
               w.at \in 1..(Len(log) + 1), w.step = "send" => w.at <= w.end,
               peers[p].state = "live" => Owed(p, w.at - 1) \subseteq peers[p].sent
        PROVE  IInv'
    <3>1. Owed(p, w.at - 1)' = Owed(p, w.at - 1)
      BY <1>1, <2>3, OwedFrame
    <3>2. passes'[k] = w => PassOK(k)'
      BY <1>1, <2>3, <2>4, <2>9, <3>1, RowOK
    <3> QED
      BY <1>1, <2>5, <2>6, <2>9, <3>2, PassMoves
  <2>10. CASE Holder(p) \in log[pass.at]
    <3> DEFINE w == [pass EXCEPT !.step = "send"]
    <3>1. w \in Reading
      BY DEF Reading
    <3>2. w.peer = p /\ w.at = pass.at /\ w.end = pass.end
      BY <2>1 DEF Reading
    <3>3. Goes(k, w)
      BY <2>3, <2>10
    <3> HIDE DEF w
    <3> QED
      BY <2>2, <2>4, <2>9, <3>1, <3>2, <3>3
  <2>11. CASE Holder(p) \notin log[pass.at]
    <3> DEFINE w == [pass EXCEPT !.at = @ + 1]
    <3>1. w \in Reading
      BY <2>4 DEF Reading
    <3>2. w.peer = p /\ w.at = at + 1 /\ w.end = pass.end /\ w.step = "row" /\ w.at - 1 = at
      BY <2>1, <2>2, <2>7 DEF Reading
    <3>3. Goes(k, w)
      BY <2>3, <2>11
    <3>4. Owed(p, at) \subseteq Owed(p, at - 1)
      <4>1. \A i \in 1..Len(log) : i <= at /\ i # at => i <= at - 1
        BY <2>4
      <4> QED
        BY <2>4, <2>7, <2>11, <4>1 DEF Owed
    <3>5. w.at \in 1..(Len(log) + 1)
      BY <2>2, <2>4, <2>7, <3>2
    <3>6. peers[p].state = "live" => Owed(p, w.at - 1) \subseteq peers[p].sent
      BY <2>4, <2>7, <3>2, <3>4
    <3> HIDE DEF w
    <3> QED
      BY <2>9, <3>1, <3>2, <3>3, <3>5, <3>6
  <2> QED
    BY <2>10, <2>11
<1> QED
  BY <1>3, <1>4

LEMMA SendKeeps ==
  ASSUME IInv, NEW k \in Passes, Send(k)
  PROVE  IInv'
<1>1. UNCHANGED <<users, log>>
  BY DEF Send, identity
<1>2. PICK pass \in Reading : pass = passes[k]
  BY StepsOf DEF Send, IInv
<1>3. PICK p \in Sockets : p = pass.peer
  BY <1>2 DEF Reading
<1>4. CASE peers' = Shut(p) /\ Onward(k)
  BY <1>1, <1>2, <1>3, <1>4, FailKeeps DEF Fail
<1>5. CASE ~(peers' = Shut(p) /\ Onward(k))
  <2>1. /\ Open(p) /\ pass.step = "send"
        /\ peers' = [peers EXCEPT ![p].sent = @ \cup {pass.at},
                                  ![p].late = @ + (IF Active(peers[p].session) THEN 0 ELSE 1)]
        /\ Goes(k, [pass EXCEPT !.step = "row", !.at = @ + 1])
    BY <1>2, <1>3, <1>5 DEF Send
  <2>2. /\ pass.at \in 1..(Len(log) + 1) /\ pass.end \in Nat /\ pass.end <= Len(log)
        /\ pass.at <= pass.end
        /\ peers[p] \in Peer /\ peers[p].state \in {"live", "closed"}
        /\ peers[p].state = "live" => Owed(p, pass.at - 1) \subseteq peers[p].sent
        /\ Len(log) \in Nat /\ DOMAIN log = 1..Len(log)
    BY <1>2, <1>3, <2>1, AtRow
  <2>3. peers[p].state = "live"
    BY <2>1, <2>2 DEF Open
  <2>4. PICK at \in Nat : at = pass.at
    BY <2>2
  <2>5. PICK late \in Nat : late = peers[p].late + (IF Active(peers[p].session) THEN 0 ELSE 1)
    BY <2>2 DEF Peer
  <2>5a. PICK seen \in SUBSET Nat : seen = peers[p].sent \cup {at}
    <3>1. peers[p].sent \in SUBSET Nat
      BY <2>2 DEF Peer
    <3> QED
      BY <2>4, <3>1
  <2>6. peers'[p] = [peers[p] EXCEPT !.sent = seen, !.late = late]
    BY <2>1, <2>4, <2>5, <2>5a DEF IInv, Typed
  <2>7. /\ peers'[p] \in Peer /\ peers'[p].state = "live"
        /\ peers'[p].session = peers[p].session /\ peers'[p].since = peers[p].since
        /\ peers'[p].position = peers[p].position /\ peers'[p].sent = peers[p].sent \cup {at}
    <3>1. /\ peers'[p] \in Peer /\ peers'[p].state = "live"
          /\ peers'[p].session = peers[p].session /\ peers'[p].since = peers[p].since
          /\ peers'[p].position = peers[p].position /\ peers'[p].sent = seen
      BY <2>2, <2>3, <2>6 DEF Peer
    <3> QED
      BY <2>5a, <3>1
  <2>8. peers' \in [Sockets -> {NoPeer} \cup Peer] /\ \A q \in Sockets \ {p} : peers'[q] = peers[q]
    BY <2>1, <2>7 DEF IInv, Typed
  <2>9. \A n : Owed(p, n)' = Owed(p, n)
    BY <1>1, <2>7, OwedFrame
  <2>10. Kept(p)
    BY <2>3, <2>7 DEF Kept
  <2>11. Owed(p, at) \subseteq peers[p].sent \cup {at}
    <3>1. \A i \in 1..Len(log) : i <= at /\ i # at => i <= at - 1
      BY <2>2
    <3>2. Owed(p, at) \subseteq Owed(p, at - 1) \cup {at}
      BY <2>2, <3>1 DEF Owed
    <3> QED
      BY <2>2, <2>3, <2>4, <3>2
  <2>12. PeerOK(p)'
    <3>1. PeerOK(p)
      BY DEF IInv
    <3>2. at \in 1..Len(log)
      BY <2>2, <2>4
    <3>3. \A i \in peers'[p].sent : Owed(p, i)' \subseteq peers'[p].sent
      BY <2>2, <2>7, <2>9, <2>11, <3>1 DEF PeerOK
    <3> QED
      BY <1>1, <2>2, <2>3, <2>7, <2>9, <3>1, <3>2, <3>3 DEF PeerOK
  <2>13. \A q \in Sockets : PeerOK(q)' /\ Kept(q)
    BY <1>1, <2>8, <2>10, <2>12, PeerFrame DEF IInv
  <2>13a. PICK next \in Nat : next = at + 1
    OBVIOUS
  <2> DEFINE w == [pass EXCEPT !.step = "row", !.at = next]
  <2>14. w \in Reading
    BY DEF Reading
  <2>15. w.peer = p /\ w.at = at + 1 /\ w.end = pass.end /\ w.step = "row" /\ w.at - 1 = at
    BY <1>3, <2>13a DEF Reading
  <2>16. Goes(k, w)
    BY <2>1, <2>4, <2>13a
  <2> HIDE DEF w
  <2>17. passes'[k] = w => PassOK(k)'
    <3>1. w.at \in 1..(Len(log') + 1) /\ w.end <= Len(log')
      BY <1>1, <2>2, <2>4, <2>15
    <3>2. Owed(w.peer, w.at - 1)' \subseteq peers'[w.peer].sent
      BY <2>7, <2>9, <2>11, <2>15
    <3> QED
      BY <2>7, <2>14, <2>15, <3>1, <3>2, RowOK
  <2> QED
    BY <1>1, <2>8, <2>13, <2>14, <2>16, <2>17, PassMoves
<1> QED
  BY <1>4, <1>5

LEMMA SettleKeeps ==
  ASSUME IInv, NEW k \in Passes, Settle(k)
  PROVE  IInv'
<1>1. UNCHANGED <<users, log>>
  BY DEF Settle, identity
<1>2. PICK pass \in Reading : pass = passes[k]
  BY StepsOf DEF Settle, IInv
<1>3. PICK p \in Sockets : p = pass.peer
  BY <1>2 DEF Reading
<1>4. /\ pass.at > pass.end /\ peers' = [peers EXCEPT ![p].position = pass.end] /\ Onward(k)
  BY <1>2, <1>3 DEF Settle, Reached
<1>5. /\ pass.at \in 1..(Len(log) + 1) /\ pass.end \in Nat /\ pass.end <= Len(log)
      /\ pass.todo \in SUBSET Sockets
      /\ peers[p] \in Peer /\ peers[p].state \in {"live", "closed"}
      /\ peers[p].state = "live" => Owed(p, pass.at - 1) \subseteq peers[p].sent
      /\ Len(log) \in Nat /\ DOMAIN log = 1..Len(log)
  BY <1>2, <1>3, AtRow
<1>6. PICK end \in Nat : end = pass.end
  BY <1>5
<1>7. peers'[p] = [peers[p] EXCEPT !.position = end]
  BY <1>4, <1>6 DEF IInv, Typed
<1>8. /\ peers'[p] \in Peer /\ peers'[p].state = peers[p].state
      /\ peers'[p].session = peers[p].session /\ peers'[p].since = peers[p].since
      /\ peers'[p].position = end /\ peers'[p].sent = peers[p].sent
  BY <1>5, <1>7 DEF Peer
<1>9. peers' \in [Sockets -> {NoPeer} \cup Peer] /\ \A q \in Sockets \ {p} : peers'[q] = peers[q]
  BY <1>4, <1>8 DEF IInv, Typed
<1>10. \A n : Owed(p, n)' = Owed(p, n)
  BY <1>1, <1>8, OwedFrame
<1>11. Kept(p)
  BY <1>8 DEF Kept
<1>12. peers[p].state = "live" => Owed(p, end) \subseteq peers[p].sent
  <2>1. \A i \in 1..Len(log) : i <= end => i <= pass.at - 1
    BY <1>4, <1>5, <1>6
  <2>2. Owed(p, end) \subseteq Owed(p, pass.at - 1)
    BY <1>5, <2>1 DEF Owed
  <2> QED
    BY <1>5, <2>2
<1>13. PeerOK(p)'
  <2>1. PeerOK(p) /\ end <= Len(log)
    BY <1>5, <1>6 DEF IInv
  <2> QED
    BY <1>1, <1>5, <1>8, <1>10, <1>12, <2>1 DEF PeerOK
<1>14. \A q \in Sockets : PeerOK(q)' /\ Kept(q)
  BY <1>1, <1>9, <1>11, <1>13, PeerFrame DEF IInv
<1> DEFINE w == [step |-> "next", todo |-> pass.todo]
<1>15. w \in Waiting /\ Goes(k, w)
  BY <1>2, <1>4, <1>5 DEF Waiting, Onward
<1> HIDE DEF w
<1> QED
  BY <1>1, <1>9, <1>14, <1>15, PassMoves, WaitingOK
-----------------------------------------------------------------------------
LEMMA Start ==
  ASSUME Init
  PROVE  IInv
<1>1. users \in Seq(Accounts)
  BY SessionAssumption DEF Init, SessionsInit
<1>2. log \in Seq(SUBSET Accounts)
  BY DEF Init
<1>3. \A p \in Sockets : peers[p] = NoPeer
  BY DEF Init
<1>4. NoPeer \notin Peer
  <2>1. NoPeer.state = "none"
    BY DEF NoPeer
  <2> QED
    BY <2>1 DEF Peer
<1>5. Idle \in Waiting
  BY DEF Idle, Waiting
<1>6. Typed
  BY <1>1, <1>2, <1>5 DEF Typed, Init
<1>7. \A p \in Sockets : PeerOK(p)
  BY <1>3, <1>4 DEF PeerOK
<1>8. ASSUME NEW k \in Passes
      PROVE  PassOK(k)
  <2>1. passes[k] = Idle /\ Idle \notin Scanning \cup Reading
    BY <1>5, Apart DEF Init
  <2> QED
    BY <2>1 DEF PassOK
<1> QED
  BY <1>6, <1>7, <1>8 DEF IInv

LEMMA Steps ==
  ASSUME IInv, [Next]_vars
  PROVE  IInv'
<1>1. CASE UNCHANGED vars
  <2>1. UNCHANGED <<users, log, peers, passes>>
    BY <1>1 DEF vars, identity
  <2>2. \A q \in Sockets : PeerOK(q)' /\ Kept(q)
    BY <2>1, SamePeers DEF IInv
  <2>3. \A k \in Passes : PassOK(k)'
    BY <2>1, <2>2, PassFrame DEF IInv
  <2> QED
    BY <2>1, <2>2, <2>3 DEF IInv, Typed
<1>2. ASSUME NEW p \in Sockets,
             Connect(p) \/ Mark(p) \/ Ready(p) \/ Leave(p) \/ FallSilent(p) \/ Heartbeat(p)
      PROVE  IInv'
  <2>1. CASE Leave(p) \/ Heartbeat(p)
    BY <2>1, ShutKeeps DEF Leave, Heartbeat, identity
  <2> QED
    BY <1>2, <2>1, ConnectKeeps, MarkKeeps, ReadyKeeps, SilentKeeps
<1>3. ASSUME NEW k \in Passes, StartPass(k) \/ Pass(k)
      PROVE  IInv'
  BY <1>3, StartPassKeeps, VisitKeeps, ScanKeeps, HydrateKeeps, SendKeeps, SettleKeeps, EndPassKeeps
     DEF Pass
<1> QED
  BY <1>1, <1>2, <1>3, CommitKeeps, PeopleKeep, ShutdownKeeps DEF Next

\* The types of sockets and passes, and what was sent against both (pollPeer, send).
THEOREM Inductive == Spec => []IInv
<1>1. Init => IInv
  BY Start
<1>2. IInv /\ [Next]_vars => IInv'
  BY Steps
<1> QED
  BY <1>1, <1>2, PTL DEF Spec

\* No socket is sent its events with a hole, however many passes overlap.
THEOREM NoHoles == Spec => []NoHole
<1>1. IInv => NoHole
  <2> SUFFICES ASSUME IInv, NEW p \in Sockets, peers[p] # NoPeer
               PROVE  /\ peers[p].state = "live" => Owed(p, peers[p].position) \subseteq peers[p].sent
                      /\ \A i \in peers[p].sent : Owed(p, i) \subseteq peers[p].sent
    BY DEF NoHole
  <2>1. peers[p] \in Peer /\ PeerOK(p)
    BY States DEF IInv
  <2> QED
    BY <2>1 DEF PeerOK
<1> QED
  BY <1>1, Inductive, PTL
-----------------------------------------------------------------------------
(* What is sent after a session ended *)

Senders(p) == {k \in Passes : passes[k].step = "send" /\ passes[k].peer = p}

\* Every event sent too late used up a pass that had hydrated it while the session ran.
Words(p) ==
  peers[p] \in Peer =>
    /\ sessions[peers[p].session] \in {"active", "over"}
    /\ IF Active(peers[p].session) THEN peers[p].late = 0
       ELSE peers[p].late + Cardinality(Senders(p)) <= Cardinality(Passes)

WInv ==
  /\ sessions \in [SessionIds -> {"none", "active", "over"}]
  /\ \A p \in Sockets : Words(p)

LEMMA SendersCount ==
  ASSUME NEW p
  PROVE  /\ Cardinality(Senders(p)) \in Nat /\ IsFiniteSet(Senders(p))
         /\ Cardinality(Passes) \in Nat
         /\ Cardinality(Senders(p)) <= Cardinality(Passes)
<1>1. Senders(p) \in SUBSET Passes
  BY DEF Senders
<1> QED
  BY <1>1, RealtimeAssumption, FS_Subset, FS_CardinalityType

\* The record of a socket goes on, and no further pass is about to send it something.
Quiet(p) ==
  /\ peers'[p] \in Peer =>
       /\ peers[p] \in Peer
       /\ peers'[p].session = peers[p].session /\ peers'[p].late = peers[p].late
  /\ Senders(p)' \subseteq Senders(p)

\* Sessions only ever begin once and end once.
Lapse ==
  \A s \in SessionIds :
    /\ sessions[s] \in {"active", "over"} => sessions'[s] \in {"active", "over"}
    /\ sessions[s] = "over" => sessions'[s] = "over"

LEMMA QuietKeeps ==
  ASSUME WInv, NEW p \in Sockets, Quiet(p), Lapse, peers'[p] \in Peer
  PROVE  Words(p)'
<1>1. /\ peers[p] \in Peer /\ Words(p)
      /\ peers'[p].session = peers[p].session /\ peers'[p].late = peers[p].late
  BY DEF Quiet, WInv
<1>2. peers[p].session \in SessionIds /\ peers[p].late \in Nat
  BY <1>1 DEF Peer
<1>3. PICK s \in SessionIds : s = peers[p].session
  BY <1>2
<1>4. sessions[s] \in {"active", "over"} /\ sessions'[s] \in {"active", "over"}
  BY <1>1, <1>3 DEF Words, Lapse
<1>5. PICK few \in Nat, all \in Nat :
        few = Cardinality(Senders(p)) /\ all = Cardinality(Passes) /\ few <= all
  BY SendersCount
<1>6. PICK fewer \in Nat : fewer = Cardinality(Senders(p)') /\ fewer <= few
  <2>1. IsFiniteSet(Senders(p)) /\ Senders(p)' \in SUBSET Senders(p)
    BY SendersCount DEF Quiet
  <2>2. Cardinality(Senders(p)') <= Cardinality(Senders(p)) /\ IsFiniteSet(Senders(p)')
    BY <2>1, FS_Subset
  <2>3. Cardinality(Senders(p)') \in Nat
    BY <2>2, FS_CardinalityType
  <2> QED
    BY <1>5, <2>2, <2>3
<1>7. Cardinality(Senders(p))' = fewer
  BY <1>6
<1>8. CASE sessions[s] = "active"
  <2>1. peers[p].late = 0
    BY <1>1, <1>3, <1>8 DEF Words, Active
  <2>2. 0 + fewer <= all
    BY <1>5, <1>6
  <2> QED
    BY <1>1, <1>3, <1>4, <1>5, <1>7, <2>1, <2>2 DEF Words, Active
<1>9. CASE sessions[s] = "over"
  <2>1. peers[p].late + few <= all
    BY <1>1, <1>3, <1>5, <1>9 DEF Words, Active
  <2>2. sessions'[s] = "over"
    BY <1>9 DEF Lapse
  <2>3. peers[p].late + fewer <= all
    BY <1>2, <1>5, <1>6, <2>1
  <2> QED
    BY <1>1, <1>3, <1>5, <1>7, <2>2, <2>3 DEF Words, Active
<1> QED
  BY <1>4, <1>8, <1>9

LEMMA ShutQuiet ==
  ASSUME Typed, NEW p \in Sockets, NEW q \in Sockets
  PROVE  Shut(p)[q] \in Peer =>
           /\ peers[q] \in Peer
           /\ Shut(p)[q].session = peers[q].session /\ Shut(p)[q].late = peers[q].late
<1>1. CASE q # p
  BY <1>1 DEF Shut, Typed
<1>2. CASE q = p
  <2>1. Shut(p)[p] = [peers[p] EXCEPT !.state = IF Open(p) THEN "closed" ELSE peers[p].state]
    BY DEF Shut, Typed
  <2>2. peers[p] \in {NoPeer} \cup Peer
    BY DEF Typed
  <2>3. CASE peers[p] \in Peer
    BY <1>2, <2>1, <2>3 DEF Peer
  <2>4. CASE peers[p] = NoPeer
    <3>1. ~Open(p)
      BY <2>4 DEF Open, NoPeer
    <3>2. Shut(p)[p] = NoPeer
      BY <2>1, <2>4, <3>1 DEF NoPeer
    <3>3. NoPeer \notin Peer
      BY DEF NoPeer, Peer
    <3> QED
      BY <1>2, <3>2, <3>3
  <2> QED
    BY <2>2, <2>3, <2>4
<1> QED
  BY <1>1, <1>2

LEMMA GoesQuiet ==
  ASSUME Typed, NEW k \in Passes, NEW w, Goes(k, w), w.step # "send", NEW q \in Sockets
  PROVE  Senders(q)' \subseteq Senders(q)
<1>1. passes'[k] = w /\ \A j \in Passes \ {k} : passes'[j] = passes[j]
  BY DEF Goes, Typed
<1> QED
  BY <1>1 DEF Senders

\* A pass goes on and may close a socket.
LEMMA OnwardQuiet ==
  ASSUME Typed, NEW k \in Passes, NEW w, Goes(k, w), w.step # "send",
         peers' = peers \/ \E p \in Sockets : peers' = Shut(p)
  PROVE  \A q \in Sockets : Quiet(q)
<1> TAKE q \in Sockets
<1>1. peers'[q] \in Peer =>
        peers[q] \in Peer /\ peers'[q].session = peers[q].session /\ peers'[q].late = peers[q].late
  <2>1. CASE peers' = peers
    BY <2>1
  <2>2. CASE \E p \in Sockets : peers' = Shut(p)
    BY <2>2, ShutQuiet
  <2> QED
    BY <2>1, <2>2
<1> QED
  BY <1>1, GoesQuiet DEF Quiet

LEMMA QuietAll ==
  ASSUME WInv, UNCHANGED sessions, \A q \in Sockets : Quiet(q)
  PROVE  WInv'
<1>1. Lapse
  BY DEF Lapse
<1>2. ASSUME NEW p \in Sockets
      PROVE  Words(p)'
  <2>1. CASE peers'[p] \in Peer
    BY <1>1, <2>1, QuietKeeps
  <2>2. CASE peers'[p] \notin Peer
    BY <2>2 DEF Words
  <2> QED
    BY <2>1, <2>2
<1> QED
  BY <1>2 DEF WInv

\* One socket's record changes while no pass moves.
LEMMA AloneQuiet ==
  ASSUME Typed, UNCHANGED passes, NEW p \in Sockets,
         \A q \in Sockets \ {p} : peers'[q] = peers[q],
         peers[p] \in Peer, peers'[p].session = peers[p].session, peers'[p].late = peers[p].late
  PROVE  \A q \in Sockets : Quiet(q)
BY DEF Quiet, Senders

LEMMA ConnectWords ==
  ASSUME Typed, WInv, NEW p \in Sockets, Connect(p)
  PROVE  WInv'
<1>1. PICK s \in SessionIds :
        /\ Active(s)
        /\ peers' = [peers EXCEPT ![p] = [state |-> "joining", session |-> s, position |-> 0,
                                          since |-> 0, sent |-> {}, late |-> 0,
                                          silent |-> FALSE]]
  BY DEF Connect
<1>2. UNCHANGED <<sessions, passes>>
  BY DEF Connect, identity
<1>3. peers'[p].session = s /\ peers'[p].late = 0
  BY <1>1 DEF Typed
<1>4. Words(p)'
  BY <1>1, <1>2, <1>3 DEF Words, Active
<1>5. ASSUME NEW q \in Sockets \ {p}
      PROVE  Words(q)'
  <2>1. peers'[q] = peers[q]
    BY <1>1 DEF Typed
  <2>2. Words(q)
    BY DEF WInv
  <2> QED
    BY <1>2, <2>1, <2>2 DEF Words, Active, Senders
<1> QED
  BY <1>2, <1>4, <1>5 DEF WInv

LEMMA FadeWords ==
  ASSUME Typed, WInv, NEW p \in Sockets, Mark(p) \/ Ready(p) \/ FallSilent(p)
  PROVE  WInv'
<1>1. UNCHANGED <<sessions, passes>>
  BY DEF Mark, Ready, FallSilent, identity
<1>2. peers[p] \in Peer
  BY States DEF Mark, Ready, FallSilent
<1>3. PICK end \in Nat : end = Len(log)
  BY DEF Typed
<1>4. PICK since \in Nat : since = peers[p].since
  BY <1>2 DEF Peer
<1>5. /\ \A q \in Sockets \ {p} : peers'[q] = peers[q]
      /\ \/ peers'[p] = [peers[p] EXCEPT !.state = "marked", !.since = end]
         \/ peers'[p] = [peers[p] EXCEPT !.state = "live", !.position = since]
         \/ peers'[p] = [peers[p] EXCEPT !.silent = TRUE]
  BY <1>3, <1>4 DEF Mark, Ready, FallSilent, Typed
<1>6. peers'[p].session = peers[p].session /\ peers'[p].late = peers[p].late
  BY <1>2, <1>5 DEF Peer
<1> QED
  BY <1>1, <1>2, <1>5, <1>6, AloneQuiet, QuietAll

\* Sockets are closed while no pass moves.
LEMMA ShutWords ==
  ASSUME Typed, WInv, UNCHANGED <<sessions, passes>>,
         \/ \E p \in Sockets : peers' = Shut(p)
         \/ peers' = [p \in Sockets |-> Shut(p)[p]]
  PROVE  WInv'
<1>1. \A q \in Sockets : Quiet(q)
  BY ShutQuiet DEF Quiet, Senders
<1> QED
  BY <1>1, QuietAll

LEMMA PeopleWords ==
  ASSUME WInv, People
  PROVE  WInv'
<1>1. UNCHANGED <<peers, passes>>
  BY DEF People
<1>2. PICK s \in SessionIds : Login(s) \/ End(s)
  BY DEF People
<1>3. sessions' \in [SessionIds -> {"none", "active", "over"}] /\ Lapse
  BY <1>2 DEF Login, End, Active, Lapse, WInv
<1>4. \A p \in Sockets : Quiet(p)
  BY <1>1 DEF Quiet, Senders
<1>5. ASSUME NEW p \in Sockets
      PROVE  Words(p)'
  <2>1. CASE peers'[p] \in Peer
    BY <1>3, <1>4, <2>1, QuietKeeps
  <2>2. CASE peers'[p] \notin Peer
    BY <2>2 DEF Words
  <2> QED
    BY <2>1, <2>2
<1> QED
  BY <1>3, <1>5 DEF WInv

LEMMA StartWords ==
  ASSUME Typed, WInv, NEW k \in Passes, StartPass(k) \/ EndPass(k)
  PROVE  WInv'
<1>1. UNCHANGED <<sessions, peers>>
  BY DEF StartPass, EndPass, identity
<1>2. PICK w : Goes(k, w) /\ w.step # "send"
  BY DEF StartPass, EndPass, Idle
<1> QED
  BY <1>1, <1>2, OnwardQuiet, QuietAll

LEMMA VisitWords ==
  ASSUME Typed, WInv, NEW k \in Passes, Visit(k)
  PROVE  WInv'
<1>1. UNCHANGED sessions
  BY DEF Visit, identity
<1>2. PICK p \in passes[k].todo :
        LET rest == [step |-> "next", todo |-> passes[k].todo \ {p}]
        IN \/ /\ Goes(k, rest) /\ (peers' = peers \/ peers' = Shut(p))
           \/ /\ Goes(k, [step |-> "scan", todo |-> rest.todo, peer |-> p, through |-> Len(log)])
              /\ peers' = peers
  BY DEF Visit
<1>3. p \in Sockets
  BY <1>2, StepsOf
<1>4. PICK w : /\ Goes(k, w) /\ w.step # "send"
               /\ peers' = peers \/ peers' = Shut(p)
  BY <1>2
<1> QED
  BY <1>1, <1>3, <1>4, OnwardQuiet, QuietAll

LEMMA FailWords ==
  ASSUME Typed, WInv, NEW k \in Passes, passes[k].peer \in Sockets, Fail(k), UNCHANGED sessions
  PROVE  WInv'
<1>1. PICK w : Goes(k, w) /\ w.step # "send"
  BY DEF Fail, Onward
<1>2. \E p \in Sockets : peers' = Shut(p)
  BY DEF Fail
<1> QED
  BY <1>1, <1>2, OnwardQuiet, QuietAll

LEMMA ScanWords ==
  ASSUME Typed, WInv, NEW k \in Passes, Scan(k)
  PROVE  WInv'
<1>1. UNCHANGED sessions
  BY DEF Scan, identity
<1>2. passes[k].peer \in Sockets
  BY StepsOf DEF Scan, Scanning
<1>3. CASE Fail(k)
  BY <1>1, <1>2, <1>3, FailWords
<1>4. CASE ~Fail(k)
  <2>1. PICK w : Goes(k, w) /\ w.step # "send" /\ peers' = peers
    BY <1>4 DEF Scan
  <2> QED
    BY <1>1, <2>1, OnwardQuiet, QuietAll
<1> QED
  BY <1>3, <1>4

LEMMA SettleWords ==
  ASSUME Typed, WInv, NEW k \in Passes, Settle(k), peers[passes[k].peer] \in Peer
  PROVE  WInv'
<1>1. UNCHANGED sessions
  BY DEF Settle, identity
<1>2. PICK p \in Sockets : p = passes[k].peer
  BY StepsOf DEF Settle, Reading
<1>3. PICK end \in Nat : end = passes[k].end
  BY StepsOf DEF Settle, Reading
<1>4. /\ peers'[p] = [peers[p] EXCEPT !.position = end]
      /\ \A q \in Sockets \ {p} : peers'[q] = peers[q]
  BY <1>2, <1>3 DEF Settle, Reached, Typed
<1>5. peers'[p].session = peers[p].session /\ peers'[p].late = peers[p].late
  BY <1>2, <1>4 DEF Peer
<1>6. \A q \in Sockets : Senders(q)' \subseteq Senders(q)
  <2>1. PICK w : Goes(k, w) /\ w.step # "send"
    BY DEF Settle, Onward
  <2> QED
    BY <2>1, GoesQuiet
<1>7. \A q \in Sockets : Quiet(q)
  BY <1>2, <1>4, <1>5, <1>6 DEF Quiet
<1> QED
  BY <1>1, <1>7, QuietAll

\* Only for a session that runs does a pass get something to send.
LEMMA HydrateWords ==
  ASSUME Typed, WInv, NEW k \in Passes, Hydrate(k)
  PROVE  WInv'
<1>1. UNCHANGED sessions
  BY DEF Hydrate, identity
<1>2. PICK p \in Sockets : p = passes[k].peer
  BY StepsOf DEF Hydrate, Reading
<1>3. CASE Fail(k)
  BY <1>1, <1>2, <1>3, FailWords
<1>4. CASE ~Fail(k)
  <2>1. /\ Active(peers[p].session) /\ peers' = peers
        /\ \E w : Goes(k, w) /\ w.peer = p
    <3>1. passes[k] \in Reading
      BY StepsOf DEF Hydrate
    <3>2. /\ [passes[k] EXCEPT !.step = "send"].peer = p
          /\ [passes[k] EXCEPT !.at = @ + 1].peer = p
      BY <1>2, <3>1 DEF Reading
    <3> QED
      BY <1>2, <1>4, <3>2 DEF Hydrate, Hydrates
  <2>2. PICK w : Goes(k, w) /\ w.peer = p
    BY <2>1
  <2>3. passes'[k] = w /\ \A j \in Passes \ {k} : passes'[j] = passes[j]
    BY <2>2 DEF Goes, Typed
  <2>4. Words(p)'
    <3>1. Words(p)
      BY DEF WInv
    <3> QED
      BY <1>1, <2>1, <3>1 DEF Words, Active
  <2>5. ASSUME NEW q \in Sockets \ {p}
        PROVE  Words(q)'
    <3>1. Quiet(q) /\ Lapse
      BY <1>1, <2>1, <2>2, <2>3 DEF Quiet, Senders, Lapse
    <3>2. CASE peers'[q] \in Peer
      BY <3>1, <3>2, QuietKeeps
    <3>3. CASE peers'[q] \notin Peer
      BY <3>3 DEF Words
    <3> QED
      BY <3>2, <3>3
  <2> QED
    BY <1>1, <2>4, <2>5 DEF WInv
<1> QED
  BY <1>3, <1>4

LEMMA SendWords ==
  ASSUME Typed, WInv, NEW k \in Passes, Send(k), peers[passes[k].peer] \in Peer
  PROVE  WInv'
<1>1. UNCHANGED sessions
  BY DEF Send, identity
<1>2. passes[k] \in Reading /\ passes[k].step = "send"
  BY StepsOf DEF Send
<1>3. PICK p \in Sockets : p = passes[k].peer
  BY <1>2 DEF Reading
<1>4. CASE Fail(k)
  BY <1>1, <1>3, <1>4, FailWords
<1>5. CASE ~Fail(k)
  <2>1. /\ peers' = [peers EXCEPT ![p].sent = @ \cup {passes[k].at},
                                  ![p].late = @ + (IF Active(peers[p].session) THEN 0 ELSE 1)]
        /\ Goes(k, [passes[k] EXCEPT !.step = "row", !.at = @ + 1])
    BY <1>3, <1>5 DEF Send, Fail
  <2>2. PICK seen : seen = peers[p].sent \cup {passes[k].at}
    OBVIOUS
  <2>3. PICK old \in Nat : old = peers[p].late
    BY <1>3 DEF Peer
  <2>4. PICK late \in Nat : late = old + (IF Active(peers[p].session) THEN 0 ELSE 1)
    OBVIOUS
  <2>5. /\ peers'[p] = [peers[p] EXCEPT !.sent = seen, !.late = late]
        /\ \A q \in Sockets \ {p} : peers'[q] = peers[q]
    BY <2>1, <2>2, <2>3, <2>4 DEF Typed
  <2>6. peers'[p].session = peers[p].session /\ peers'[p].late = late
    BY <1>3, <2>5 DEF Peer
  <2>7. PICK next \in Nat : next = passes[k].at + 1
    BY <1>2 DEF Reading
  <2> DEFINE w == [passes[k] EXCEPT !.step = "row", !.at = next]
  <2>8. PICK row : Goes(k, row) /\ row.step = "row"
    <3>1. Goes(k, w)
      BY <2>1, <2>7
    <3>2. w.step = "row"
      BY <1>2 DEF Reading
    <3> QED
      BY <3>1, <3>2
  <2>9. passes'[k] = row /\ \A j \in Passes \ {k} : passes'[j] = passes[j]
    BY <2>8 DEF Goes, Typed
  <2>10. Senders(p)' = Senders(p) \ {k} /\ k \in Senders(p)
    BY <1>2, <1>3, <2>8, <2>9 DEF Senders
  <2>11. ASSUME peers[p] \in Peer
         PROVE  Words(p)'
    <3>1. Words(p)
      BY DEF WInv
    <3>2. CASE Active(peers[p].session)
      <4>1. late = 0
        BY <2>3, <2>4, <2>11, <3>1, <3>2 DEF Words
      <4> QED
        BY <1>1, <2>6, <2>11, <3>1, <3>2, <4>1 DEF Words, Active
    <3>3. CASE ~Active(peers[p].session)
      <4>1. PICK few \in Nat, all \in Nat :
              few = Cardinality(Senders(p)) /\ all = Cardinality(Passes)
        BY SendersCount
      <4>2. Cardinality(Senders(p) \ {k}) = few - 1
        BY <2>10, <4>1, SendersCount, FS_RemoveElement
      <4>3. old + few <= all
        BY <2>3, <2>11, <3>1, <3>3, <4>1 DEF Words
      <4>4. late = old + 1
        BY <2>4, <3>3
      <4>5. late + (few - 1) <= all
        BY <4>3, <4>4
      <4>6. Cardinality(Senders(p))' = few - 1
        BY <2>10, <4>2
      <4>7. ~Active(peers[p].session)' /\ Cardinality(Passes)' = all
        BY <1>1, <2>6, <3>3, <4>1 DEF Active
      <4> QED
        BY <1>1, <2>6, <2>11, <3>1, <4>5, <4>6, <4>7 DEF Words
    <3> QED
      BY <3>2, <3>3
  <2>12. ASSUME NEW q \in Sockets \ {p}
         PROVE  Words(q)'
    <3>1. Quiet(q) /\ Lapse
      BY <1>1, <2>5, <2>8, <2>9 DEF Quiet, Senders, Lapse
    <3>2. CASE peers'[q] \in Peer
      BY <3>1, <3>2, QuietKeeps
    <3>3. CASE peers'[q] \notin Peer
      BY <3>3 DEF Words
    <3> QED
      BY <3>2, <3>3
  <2> QED
    BY <1>1, <1>3, <2>11, <2>12 DEF WInv
<1> QED
  BY <1>4, <1>5

LEMMA WordsStart ==
  ASSUME Init
  PROVE  WInv
<1>1. sessions \in [SessionIds -> {"none", "active", "over"}]
  BY DEF Init, SessionsInit
<1>2. NoPeer \notin Peer
  BY DEF NoPeer, Peer
<1> QED
  BY <1>1, <1>2 DEF WInv, Words, Init

LEMMA WordsSteps ==
  ASSUME IInv, WInv, [Next]_vars
  PROVE  WInv'
<1> USE DEF IInv
<1>1. CASE UNCHANGED vars \/ Commit
  <2>1. UNCHANGED <<sessions, peers, passes>>
    BY <1>1 DEF vars, identity, Commit
  <2>2. \A q \in Sockets : Quiet(q)
    BY <2>1 DEF Quiet, Senders
  <2> QED
    BY <2>1, <2>2, QuietAll
<1>2. ASSUME NEW p \in Sockets,
             Connect(p) \/ Mark(p) \/ Ready(p) \/ Leave(p) \/ FallSilent(p) \/ Heartbeat(p)
      PROVE  WInv'
  <2>1. CASE Leave(p) \/ Heartbeat(p)
    BY <2>1, ShutWords DEF Leave, Heartbeat, identity
  <2> QED
    BY <1>2, <2>1, ConnectWords, FadeWords
<1>3. ASSUME NEW k \in Passes, StartPass(k) \/ Pass(k)
      PROVE  WInv'
  <2>1. CASE Send(k) \/ Settle(k)
    <3>1. passes[k] \in Reading /\ PassOK(k)
      BY <2>1, StepsOf DEF Send, Settle
    <3>2. peers[passes[k].peer] \in Peer
      BY <3>1 DEF PassOK
    <3> QED
      BY <2>1, <3>2, SendWords, SettleWords
  <2> QED
    BY <1>3, <2>1, StartWords, VisitWords, ScanWords, HydrateWords DEF Pass
<1>4. CASE Shutdown
  BY <1>4, ShutWords DEF Shutdown, identity
<1> QED
  BY <1>1, <1>2, <1>3, <1>4, PeopleWords DEF Next

\* After its session ended a socket is sent at most one event for each pass.
THEOREM FewLastWords == Spec => []LastWords
<1>1. Init => WInv
  BY WordsStart
<1>2. IInv /\ WInv /\ [Next]_vars => WInv'
  BY WordsSteps
<1>3. IInv /\ WInv => LastWords
  <2> SUFFICES ASSUME IInv, WInv, NEW p \in Sockets, peers[p] # NoPeer
               PROVE  peers[p].late <= Cardinality(Passes)
    BY DEF LastWords
  <2>1. peers[p] \in Peer /\ Words(p)
    BY States DEF IInv, WInv
  <2>2. peers[p].late \in Nat
    BY <2>1 DEF Peer
  <2> QED
    BY <2>1, <2>2, SendersCount DEF Words
<1> QED
  BY <1>1, <1>2, <1>3, Inductive, PTL DEF Spec
=============================================================================
