---------------------------- MODULE EventStream ----------------------------
(***************************************************************************)
(* The server's event outbox as its readers see it: commits append to it,  *)
(* the realtime poller and GET /sync read ranges of it, hydrating each     *)
(* record from the tables as they are at that moment, and the list routes  *)
(* answer with the tables and the position they were read at. Cursors are  *)
(* signed [position, issue time] pairs that expire.                        *)
(*                                                                         *)
(* One conversation that the reader is a member of. A message has a text   *)
(* until retention expires it. Nothing prunes the outbox and nothing       *)
(* rotates its epoch while the server runs.                                *)
(***************************************************************************)
EXTENDS Naturals, Sequences

CONSTANTS
  MaxMessages,   \* bound on the messages created
  Regimes,       \* the bounds of the behaviours explored; each has one of them
  Null

\* A position and when it was issued.
Cursors == [at : Nat, week : Nat]

\* A regime's bounds. messages: the messages created; page: events of a sync page
\* (100) and of a poll (100); weeks: the times every issued cursor expires; drops:
\* connection losses; fails: requests that fail or time out; timers: whether the
\* timer and the window's activation sync too; lists: whether the screen also
\* lists older messages.
ASSUME StreamAssumption ==
  /\ MaxMessages \in Nat
  /\ Null \notin Cursors
  /\ Regimes \subseteq [messages : 0..MaxMessages, page : Nat \ {0}, weeks : Nat,
                        drops : Nat, fails : Nat, timers : BOOLEAN, lists : BOOLEAN]

VARIABLES
  log,           \* event_outbox, in id order
  week,          \* the clock, in cursor lifetimes (7 days)
  regime         \* the bounds of this behaviour

stream == <<log, week, regime>>

Messages == 1..MaxMessages
-----------------------------------------------------------------------------
Created == {m \in Messages : \E i \in DOMAIN log : log[i].msg = m}

Expired ==
  {m \in Messages : \E i \in DOMAIN log :
     log[i].msg = m /\ log[i].type = "deleted"}

\* What the tables hold of a message.
Content(m) ==
  IF m \in Expired THEN "expired" ELSE IF m \in Created THEN "text" ELSE "none"

\* hydrateEvent(): a created event carries the message as it is now.
Hydrated(i) ==
  [id |-> i, type |-> log[i].type, msg |-> log[i].msg,
   content |-> IF log[i].type = "created" THEN Content(log[i].msg) ELSE "expired"]

Upto(after, through) == IF after + regime.page < through THEN after + regime.page ELSE through

\* The answers to the list routes: rows and position of one transaction.
Listing == [rows |-> [m \in Messages |-> Content(m)], at |-> Len(log)]

\* ready(), nextCursor, snapshotCursor.
Issued(at) == [at |-> at, week |-> week]

Valid(token) == token.week = week

\* Seeded bug: the cursor of a page names its upper bound, not where it ended.
SyncAnswerAhead(after, through) ==
  LET top == IF through = Null THEN Issued(Len(log)) ELSE through
      end == Upto(after.at, top.at)
  IN IF ~Valid(after) \/ ~Valid(top) THEN [status |-> "reset"]
     ELSE IF after.at > top.at THEN [status |-> "bad"]
     ELSE [status |-> "ok", events |-> {Hydrated(i) : i \in (after.at + 1)..end},
           next |-> Issued(top.at), through |-> top, more |-> end < top.at]

\* GET /sync?after&through.
SyncAnswer(after, through) ==
  LET top == IF through = Null THEN Issued(Len(log)) ELSE through
      end == Upto(after.at, top.at)
  IN IF ~Valid(after) \/ ~Valid(top) THEN [status |-> "reset"]
     ELSE IF after.at > top.at THEN [status |-> "bad"]
     ELSE [status |-> "ok", events |-> {Hydrated(i) : i \in (after.at + 1)..end},
           next |-> Issued(end), through |-> top, more |-> end < top.at]
-----------------------------------------------------------------------------
\* A message is committed with its event.
Create ==
  \E m \in Messages \ Created :
    /\ m <= regime.messages /\ \A n \in Messages : n < m => n \in Created
    /\ log' = Append(log, [type |-> "created", msg |-> m])
    /\ UNCHANGED <<week, regime>>

\* Retention expires a message's content, with its event.
Expire ==
  \E m \in Created \ Expired :
    /\ log' = Append(log, [type |-> "deleted", msg |-> m])
    /\ UNCHANGED <<week, regime>>

\* Seven days pass.
Pass ==
  /\ week < regime.weeks
  /\ week' = week + 1
  /\ UNCHANGED <<log, regime>>

StreamInit == log = <<>> /\ week = 0 /\ regime \in Regimes
=============================================================================
