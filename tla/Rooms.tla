------------------------------- MODULE Rooms -------------------------------
(***************************************************************************)
(* modules/conversations and modules/receipts over modules/identity:       *)
(* conversations are created once per pair of users or per request of a    *)
(* group's creator, listed page by page, and read by several devices of    *)
(* one user. A request looks at the session and the membership, awaits,    *)
(* and commits in one transaction; sessions end in between, and the        *)
(* process may die before it answers.                                      *)
(*                                                                         *)
(* Conversation and message ids are the places in `rooms` and `messages`.  *)
(* A message may have expired whenever it is asked for. last_message_at is *)
(* left out.                                                               *)
(***************************************************************************)
EXTENDS Sessions, FiniteSetsExt

CONSTANTS
  Calls,         \* requests that create a conversation or move a read position
  Keys,          \* clientRequestIds of groups
  Titles,        \* titles of groups
  Page,          \* conversations of a page of the list
  MaxRooms, MaxMessages,  \* bounds on the rows
  Null

ASSUME RoomsAssumption ==
  /\ Page \in Nat \ {0} /\ MaxRooms \in Nat /\ MaxMessages \in Nat
  /\ Null \notin [status : {"refused"}] \cup [status : {"ok"}, upto : Nat]
                 \cup [status : {"ok"}, room : Nat, created : BOOLEAN]

VARIABLES
  rooms,         \* conversations with their members: [kind, members, title]
  requests,      \* conversation_requests: [from, key, what, room]
  messages,      \* the conversation of each message
  reads,         \* read_cursors: the last message of a room a user read, or 0
  position,      \* the last position of event_outbox
  announced,     \* the position of each conversation's event
  calls,         \* requests under way and over
  answers,       \* what they were answered
  listing        \* one client's walk through the pages of the list

store == <<rooms, requests, messages, reads, position, announced>>
vars == <<identity, store, calls, answers, listing>>

RoomIds == 1..Len(rooms)
MessageIds == 1..Len(messages)
Rows(u) == {r \in RoomIds : u \in rooms[r].members}

\* Direct conversations have no title.
What == [kind : {"direct"}, members : SUBSET Accounts, title : {Null}]
        \cup [kind : {"group"}, members : SUBSET Accounts, title : Titles]

NoCall == [step |-> "free"]
NoList == [step |-> "idle"]
Refused == [status |-> "refused"]
From(q) == HolderOf[q.session]

\* Seeded bug: the rows are written without their event.
EmitNothing == position' = position

\* append(): an event in the outbox.
Emit == position' = position + 1

Answer(c, a) ==
  /\ calls' = [calls EXCEPT ![c].step = "answered"]
  /\ answers' = [answers EXCEPT ![c] = a]
-----------------------------------------------------------------------------
(* conversations.create *)

\* assertContext(), the shape of the request and requireSameServer() for each member.
\* A request that fails here changes nothing.
AskCreate(c) ==
  \E s \in SessionIds, w \in What, key \in Keys :
    /\ calls[c] = NoCall
    /\ Admitted(s)
    /\ HolderOf[s] \in w.members /\ w.members \subseteq Neighbours(HolderOf[s])
    /\ IF w.kind = "direct" THEN Cardinality(w.members) = 2 ELSE Cardinality(w.members) >= 2
    /\ calls' = [calls EXCEPT ![c] = [step |-> "asked", op |-> "create", session |-> s,
                                      what |-> w, key |-> key]]
    /\ UNCHANGED <<identity, store, answers, listing>>

SameRequest(q) == {t \in requests : t.from = From(q) /\ t.key = q.key}

\* A group's request id that was used for something else.
Conflicts(q) ==
  q.what.kind = "group" /\ \E t \in SameRequest(q) : t.what # q.what

\* Seeded bug: direct conversations are deduplicated like groups.
ExistingByRequest(q) == {t.room : t \in SameRequest(q)}

\* The conversation that was created for the same pair or by the same request.
Existing(q) ==
  IF q.what.kind = "direct" THEN {r \in RoomIds : rooms[r] = q.what}
  ELSE {t.room : t \in SameRequest(q)}

\* The transaction: the lookups and the rows. It does not look at the session again.
Create(c) ==
  LET q == calls[c]
      id == Len(rooms) + 1
      Found(r, created) == [status |-> "ok", room |-> r, created |-> created]
  IN /\ q.step = "asked" /\ q.op = "create"
     /\ \/ /\ Conflicts(q)
           /\ Answer(c, Refused)
           /\ UNCHANGED store
        \/ /\ ~Conflicts(q)
           /\ \E r \in Existing(q) : Answer(c, Found(r, FALSE))
           /\ UNCHANGED store
        \/ /\ ~Conflicts(q) /\ Existing(q) = {}
           /\ id <= MaxRooms
           /\ rooms' = Append(rooms, q.what)
           /\ requests' = IF q.what.kind = "direct" THEN requests
                          ELSE requests \cup {[from |-> From(q), key |-> q.key,
                                               what |-> q.what, room |-> id]}
           /\ Emit /\ announced' = Append(announced, position')
           /\ Answer(c, Found(id, TRUE))
           /\ UNCHANGED <<messages, reads>>
     /\ UNCHANGED <<identity, listing>>
-----------------------------------------------------------------------------
(* receipts.advance *)

\* requireMember().
Member(s, r) == Active(s) /\ r \in Rows(HolderOf[s])

AskRead(c) ==
  \E s \in SessionIds, r \in RoomIds, m \in MessageIds :
    /\ calls[c] = NoCall
    /\ Admitted(s)
    /\ Member(s, r)
    /\ calls' = [calls EXCEPT ![c] = [step |-> "asked", op |-> "read", session |-> s,
                                      room |-> r, msg |-> m]]
    /\ UNCHANGED <<identity, store, answers, listing>>

\* Seeded bug: the transaction trusts the check made before it.
RecheckRoom(s, r) == r \in Rows(HolderOf[s])

\* recheckMember(), inside the transaction.
Recheck(s, r) == Active(s) /\ r \in Rows(HolderOf[s])

\* Seeded bug: any other position replaces the stored one.
AdvancesAnyhow(old, m) == m # old

Advances(old, m) == m > old

\* Retention may have expired the message, or removed it, by now.
Read(c) ==
  LET q == calls[c]
      u == From(q)
      old == reads[q.room][u]
      accepted == Recheck(q.session, q.room) /\ messages[q.msg] = q.room
      At(m) == [status |-> "ok", upto |-> m]
  IN /\ q.step = "asked" /\ q.op = "read"
     /\ \/ Answer(c, Refused) /\ UNCHANGED store   \* not_found, message_expired
        \/ accepted /\ ~Advances(old, q.msg) /\ Answer(c, At(old)) /\ UNCHANGED store
        \/ /\ accepted /\ Advances(old, q.msg)
           /\ reads' = [reads EXCEPT ![q.room][u] = q.msg]
           /\ Emit
           /\ Answer(c, At(q.msg))
           /\ UNCHANGED <<rooms, requests, messages, announced>>
     /\ UNCHANGED <<identity, listing>>
-----------------------------------------------------------------------------
(* The lists, page by page: conversations.list and identity.listSameServer *)

\* Seeded bug: every page carries the position it was read at.
ListedAtPage(first, at) == position

\* The walk keeps the position of its first page.
ListedAt(first, at) == IF first THEN position ELSE at

Walk(kind, s, max) == [kind |-> kind, step |-> "more", session |-> s, at |-> 0, max |-> max,
                       after |-> 0, got |-> {}]

DueRooms(w) == {r \in Rows(HolderOf[w.session]) : w.after < r /\ r <= w.max}

\* The users have no such bound: those who sign in meanwhile come last.
DueUsers(w) ==
  {i \in DOMAIN users : w.after < i /\ ServerOf[users[i]] = ServerOf[HolderOf[w.session]]}

\* A page of what is due, in id order; the cursor to the next one names its last row.
TakePage(w, due, at) ==
  LET page == {r \in due : Cardinality({q \in due : q < r}) < Page}
  IN listing' = [w EXCEPT !.step = IF page = due THEN "done" ELSE "more", !.at = at,
                          !.after = IF page = {} THEN @ ELSE Max(page), !.got = @ \cup page]

ListFirst ==
  /\ listing = NoList
  /\ \E s \in {t \in SessionIds : Admitted(t)} :
       LET w == Walk("rooms", s, Max({0} \cup Rows(HolderOf[s])))
       IN TakePage(w, DueRooms(w), ListedAt(TRUE, 0))
  /\ UNCHANGED <<identity, store, calls, answers>>

\* The cursor carries the position, the bound and the last row of the page before.
ListMore ==
  /\ listing.step = "more" /\ listing.kind = "rooms"
  /\ Admitted(listing.session)
  /\ TakePage(listing, DueRooms(listing), ListedAt(FALSE, listing.at))
  /\ UNCHANGED <<identity, store, calls, answers>>

\* `max` is history here: the users there were when the walk began. The position that
\* comes with each page is left out.
ListUsers ==
  /\ \/ /\ listing = NoList
        /\ \E s \in {t \in SessionIds : Admitted(t)} :
             LET w == Walk("users", s, Len(users)) IN TakePage(w, DueUsers(w), 0)
     \/ /\ listing.step = "more" /\ listing.kind = "users"
        /\ Admitted(listing.session)
        /\ TakePage(listing, DueUsers(listing), 0)
  /\ UNCHANGED <<identity, store, calls, answers>>

\* The session or the cursor is over: the client starts again.
ListRefused ==
  /\ listing.step = "more"
  /\ listing' = NoList
  /\ UNCHANGED <<identity, store, calls, answers>>
-----------------------------------------------------------------------------
\* messages.create, with recordMessage(): MessageStore has its own deduplication.
Post ==
  /\ Len(messages) < MaxMessages
  /\ \E s \in SessionIds, r \in RoomIds :
       /\ Recheck(s, r)
       /\ messages' = Append(messages, r)
  /\ Emit
  /\ UNCHANGED <<identity, rooms, requests, reads, announced, calls, answers, listing>>

\* The process dies; requests under way are never answered.
Crash ==
  /\ \E c \in Calls : calls[c].step = "asked"
  /\ calls' = [c \in Calls |-> IF calls[c].step = "asked" THEN NoCall ELSE calls[c]]
  /\ UNCHANGED <<identity, store, answers, listing>>

People ==
  /\ \E s \in SessionIds : Login(s) \/ End(s)
  /\ UNCHANGED <<store, calls, answers, listing>>

Init ==
  /\ SessionsInit
  /\ rooms = <<>> /\ requests = {} /\ messages = <<>>
  /\ position = 0 /\ announced = <<>>
  /\ reads = [r \in 1..MaxRooms |-> [u \in Accounts |-> 0]]
  /\ calls = [c \in Calls |-> NoCall] /\ answers = [c \in Calls |-> Null]
  /\ listing = NoList

Next ==
  \/ People
  \/ \E c \in Calls : AskCreate(c) \/ Create(c) \/ AskRead(c) \/ Read(c)
  \/ ListFirst \/ ListMore \/ ListUsers \/ ListRefused
  \/ Post \/ Crash

Spec == Init /\ [][Next]_vars
-----------------------------------------------------------------------------
(* Properties *)

Request == [from : Accounts, key : Keys, what : What, room : 1..MaxRooms]
CreateCall == [step : {"asked", "answered"}, op : {"create"}, session : SessionIds,
               what : What, key : Keys]
ReadCall == [step : {"asked", "answered"}, op : {"read"}, session : SessionIds,
             room : 1..MaxRooms, msg : 1..MaxMessages]
Answers == {Null, Refused} \cup [status : {"ok"}, room : 1..MaxRooms, created : BOOLEAN]
           \cup [status : {"ok"}, upto : 0..MaxMessages]

TypeOK ==
  /\ SessionsTypeOK
  /\ rooms \in Seq(What) /\ Len(rooms) <= MaxRooms
  /\ requests \subseteq Request
  /\ messages \in Seq(1..MaxRooms)
  /\ Len(messages) <= MaxMessages
  /\ reads \in [1..MaxRooms -> [Accounts -> 0..MaxMessages]]
  /\ position \in Nat
  /\ announced \in Seq(1..position) /\ Len(announced) = Len(rooms)
  /\ calls \in [Calls -> {NoCall} \cup CreateCall \cup ReadCall]
  /\ answers \in [Calls -> Answers]
  /\ \A c \in Calls : answers[c] # Null <=> calls[c].step = "answered"

Granted(c, op) ==
  /\ calls[c].step = "answered" /\ calls[c].op = op
  /\ answers[c].status = "ok"

\* However requests for the same pair or the same group are repeated, interleaved or
\* cut off by a crash, there is one conversation for them, each answer names it, and
\* one answer at most says it was created (create: direct_pair, conversation_requests).
AskedOnce ==
  /\ \A r, q \in RoomIds :
       rooms[r].kind = "direct" /\ rooms[r] = rooms[q] => r = q
  /\ \A c \in Calls : Granted(c, "create") =>
       rooms[answers[c].room] = calls[c].what
  /\ \A c, d \in Calls : Granted(c, "create") /\ Granted(d, "create") =>
       /\ From(calls[c]) = From(calls[d]) /\ calls[c].key = calls[d].key
            /\ calls[c].what.kind = "group" /\ calls[d].what.kind = "group"
            => answers[c].room = answers[d].room
       /\ answers[c].room = answers[d].room /\ answers[c].created /\ answers[d].created
            => c = d

\* A user's read position is the furthest message any of their devices was told it had
\* read, in whatever order the requests arrive (advance).
ReadsHeld ==
  \A r \in RoomIds, u \in Accounts :
    reads[r][u] = Max({0} \cup {answers[c].upto : c \in
                        {d \in Calls : Granted(d, "read") /\ calls[d].room = r
                                         /\ From(calls[d]) = u}})

\* No read position moves for a session that ended while its request was under way, nor
\* outside the conversations of its user (recheckMember inside the transaction).
EndedMovesNothing ==
  [][\A c \in Calls : ~Granted(c, "read") /\ Granted(c, "read")' =>
       /\ Active(calls[c].session)
       /\ From(calls[c]) \in rooms[calls[c].room].members]_vars

\* A finished walk through the pages leaves nothing out, although rows are added between
\* them: of the conversations those that the events after its position do not tell of
\* (list), of the users those that had signed in when it began (listSameServer).
ListingCovers ==
  listing.step = "done" =>
    IF listing.kind = "rooms"
    THEN Rows(HolderOf[listing.session]) \subseteq
           listing.got \cup {r \in RoomIds : announced[r] > listing.at}
    ELSE {i \in 1..listing.max : ServerOf[users[i]] = ServerOf[HolderOf[listing.session]]}
           \subseteq listing.got
=============================================================================
