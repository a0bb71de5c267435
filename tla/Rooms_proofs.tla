---------------------------- MODULE Rooms_proofs ----------------------------
(***************************************************************************)
(* Theorems about Rooms, for any accounts, sessions, requests under way,   *)
(* and any size of a page.                                                 *)
(***************************************************************************)
EXTENDS Rooms, FiniteSetTheorems, NaturalsInduction, TLAPS

CreateOkay == [status : {"ok"}, room : 1..MaxRooms, created : BOOLEAN]
ReadOkay == [status : {"ok"}, upto : 0..MaxMessages]

\* One row for a pair of users and for a request of a group.
RowsOK ==
  /\ \A r, q \in RoomIds : rooms[r].kind = "direct" /\ rooms[r] = rooms[q] => r = q
  /\ \A t \in requests : t.room \in RoomIds /\ rooms[t.room] = t.what /\ t.what.kind = "group"
  /\ \A t, u \in requests : t.from = u.from /\ t.key = u.key => t = u

\* Each answer names a row that was made for it, and is the only one to have made it.
CreationsOK ==
  /\ \A c \in Calls : Granted(c, "create") =>
       /\ answers[c] \in CreateOkay /\ answers[c].room \in RoomIds
       /\ rooms[answers[c].room] = calls[c].what
       /\ calls[c].what.kind = "group" =>
            \E t \in requests : /\ t.from = From(calls[c]) /\ t.key = calls[c].key
                                /\ t.room = answers[c].room
  /\ \A c, d \in Calls : /\ Granted(c, "create") /\ Granted(d, "create")
                         /\ answers[c].room = answers[d].room
                         /\ answers[c].created /\ answers[d].created
                         => c = d

\* What the devices of u were told about the room r.
Readers(r, u) == {d \in Calls : Granted(d, "read") /\ calls[d].room = r /\ From(calls[d]) = u}
Told(r, u) == {0} \cup {answers[c].upto : c \in Readers(r, u)}

ReadsOK ==
  /\ \A c \in Calls : Granted(c, "read") => answers[c] \in ReadOkay
  /\ \A r \in 1..MaxRooms, u \in Accounts :
       reads[r][u] \in Told(r, u) /\ \A m \in Told(r, u) : m <= reads[r][u]

\* A walk has left behind nothing it must show: it is there, it is yet to come, or its
\* event comes after the walk's position.
Walking == [kind : {"rooms", "users"}, step : {"more", "done"}, session : SessionIds,
            at : Nat, max : Nat, after : Nat, got : SUBSET Nat]
Ahead(r) == listing.step = "more" /\ listing.after < r /\ r <= listing.max
ListOK ==
  /\ listing \in {NoList} \cup Walking
  /\ listing \in Walking /\ listing.kind = "rooms" =>
       /\ listing.at <= position
       /\ \A r \in Rows(HolderOf[listing.session]) :
            r \in listing.got \/ announced[r] > listing.at \/ Ahead(r)
  /\ listing \in Walking /\ listing.kind = "users" =>
       /\ listing.max <= Len(users)
       /\ \A i \in 1..listing.max : ServerOf[users[i]] = ServerOf[HolderOf[listing.session]] =>
            i \in listing.got \/ Ahead(i)

IInv == TypeOK /\ RowsOK /\ CreationsOK /\ ReadsOK /\ ListOK
-----------------------------------------------------------------------------
(* Finite sets of numbers *)

LEMMA Least ==
  ASSUME NEW T, T \subseteq Nat, T # {}
  PROVE  \E x \in T : \A y \in T : x <= y
<1>1. \E x \in T : \A y \in T : ~ (<<y, x>> \in OpToRel(<, Nat))
  BY NatLessThanWellFounded, WFMin
<1>2. PICK x \in T : \A y \in T : ~ (<<y, x>> \in OpToRel(<, Nat))
  BY <1>1
<1>3. ASSUME NEW y \in T
      PROVE  x <= y
  <2>1. x \in Nat /\ y \in Nat /\ ~ (<<y, x>> \in OpToRel(<, Nat))
    BY <1>2
  <2>2. ~ (y < x)
    BY <2>1 DEF OpToRel
  <2>3. x \in Nat /\ y \in Nat
    BY <2>1
  <2> QED
    BY <2>2, <2>3
<1> QED
  BY <1>3

LEMMA MaxIs ==
  ASSUME NEW S, NEW n \in Nat, S \subseteq 0..n, S # {}
  PROVE  Max(S) \in S /\ \A y \in S : y <= Max(S)
<1> DEFINE T == {n - x : x \in S}
<1>1. T \subseteq Nat /\ T # {}
  <2>1. \A x \in S : n - x \in Nat
    OBVIOUS
  <2> QED
    BY <2>1
<1>2. PICK t \in T : \A y \in T : t <= y
  BY <1>1, Least
<1>3. PICK x \in S : t = n - x
  OBVIOUS
<1>4. \A y \in S : x >= y
  <2>1. TAKE y \in S
  <2>2. t <= n - y
    BY <1>2
  <2> QED
    BY <1>3, <2>2
<1>5. \E z \in S : \A y \in S : z >= y
  BY <1>4
<1>6. Max(S) \in S /\ \A y \in S : Max(S) >= y
  BY <1>5 DEF Max
<1> QED
  BY <1>6

LEMMA MaxOnly ==
  ASSUME NEW S, S \subseteq Nat, NEW m \in S, \A y \in S : y <= m
  PROVE  Max(S) = m
<1>1. \E z \in S : \A y \in S : z >= y
  OBVIOUS
<1>2. Max(S) \in S /\ \A y \in S : Max(S) >= y
  BY <1>1 DEF Max
<1>3. Max(S) \in Nat /\ m \in Nat /\ Max(S) >= m /\ Max(S) <= m
  BY <1>2
<1> QED
  BY <1>3

PageOf(due) == {r \in due : Cardinality({q \in due : q < r}) < Page}

\* A page has everything that is due up to its last row.
LEMMA PageIsHead ==
  ASSUME NEW n \in Nat, NEW due, due \subseteq 0..n
  PROVE  /\ PageOf(due) \subseteq due
         /\ PageOf(due) # {} =>
              /\ Max(PageOf(due)) \in Nat
              /\ \A r \in due : r <= Max(PageOf(due)) => r \in PageOf(due)
<1>1. PageOf(due) \subseteq due
  BY DEF PageOf
<1>5. \A q \in due : q \in Nat
  <2>1. \A q \in 0..n : q \in Nat
    OBVIOUS
  <2> QED
    BY <2>1
<1>2. ASSUME PageOf(due) # {}, NEW r \in due, r <= Max(PageOf(due))
      PROVE  r \in PageOf(due)
  <2>1. PICK m \in PageOf(due) : m = Max(PageOf(due)) /\ r <= m
    BY <1>1, <1>2, MaxIs
  <2> DEFINE A == {q \in due : q < r}
             B == {q \in due : q < m}
  <2>2. IsFiniteSet(0..n)
    BY FS_Interval
  <2>3. IsFiniteSet(B)
    BY <2>2, FS_Subset
  <2>4. A \subseteq B
    <3>1. m \in Nat /\ r \in Nat /\ \A q \in due : q \in Nat
      BY <1>5, <1>1, <2>1
    <3>2. \A q \in due : q < r => q < m
      BY <2>1, <3>1
    <3> QED
      BY <3>2
  <2>5. IsFiniteSet(A) /\ Cardinality(A) <= Cardinality(B)
    BY <2>3, <2>4, FS_Subset
  <2>6. Cardinality(A) \in Nat /\ Cardinality(B) \in Nat
    BY <2>3, <2>5, FS_CardinalityType
  <2>7. Cardinality(B) < Page
    BY <2>1 DEF PageOf
  <2>8. Cardinality(A) < Page
    BY <2>5, <2>6, <2>7, RoomsAssumption
  <2> QED
    BY <2>8 DEF PageOf
<1>3. PageOf(due) # {} => Max(PageOf(due)) \in PageOf(due)
  BY <1>1, MaxIs
<1>4. PageOf(due) # {} => Max(PageOf(due)) \in Nat
  <2>1. \A q \in PageOf(due) : q \in Nat
    BY <1>5, <1>1
  <2> QED
    BY <1>3, <2>1
<1> QED
  BY <1>1, <1>2, <1>4
-----------------------------------------------------------------------------
(* Steps that answer nothing, or only refuse *)

\* No answer is given, but for refusals, and none changes.
Quiet ==
  \A c \in Calls, op \in {"create", "read"} :
    /\ Granted(c, op)' <=> Granted(c, op)
    /\ Granted(c, op) => calls'[c] = calls[c] /\ answers'[c] = answers[c]

LEMMA StillQuiet ==
  ASSUME UNCHANGED <<calls, answers>>
  PROVE  Quiet
BY DEF Quiet, Granted

\* What Answer leaves of the call it answers, and of the others.
LEMMA Answered ==
  ASSUME TypeOK, NEW c \in Calls, NEW a, Answer(c, a), calls[c].step = "asked",
         calls[c] \in CreateCall \cup ReadCall
  PROVE  /\ calls'[c].step = "answered" /\ calls'[c].op = calls[c].op
         /\ calls'[c].session = calls[c].session
         /\ calls[c] \in CreateCall =>
              calls'[c] \in CreateCall /\ calls'[c].what = calls[c].what /\ calls'[c].key = calls[c].key
         /\ calls[c] \in ReadCall =>
              calls'[c] \in ReadCall /\ calls'[c].room = calls[c].room /\ calls'[c].msg = calls[c].msg
         /\ answers'[c] = a
         /\ \A d \in Calls \ {c} : calls'[d] = calls[d] /\ answers'[d] = answers[d]
         /\ calls' \in [Calls -> {NoCall} \cup CreateCall \cup ReadCall]
         /\ a \in Answers => answers' \in [Calls -> Answers]
<1>1. PICK q : q = [calls[c] EXCEPT !.step = "answered"]
  OBVIOUS
<1>2. /\ q.step = "answered" /\ q.op = calls[c].op /\ q.session = calls[c].session
      /\ calls[c] \in CreateCall =>
           q \in CreateCall /\ q.what = calls[c].what /\ q.key = calls[c].key
      /\ calls[c] \in ReadCall =>
           q \in ReadCall /\ q.room = calls[c].room /\ q.msg = calls[c].msg
  BY <1>1 DEF CreateCall, ReadCall
<1>3. calls' = [calls EXCEPT ![c] = q] /\ answers' = [answers EXCEPT ![c] = a]
  BY <1>1 DEF Answer
<1>4. calls \in [Calls -> {NoCall} \cup CreateCall \cup ReadCall] /\ answers \in [Calls -> Answers]
  BY DEF TypeOK
<1> QED
  BY <1>2, <1>3, <1>4

LEMMA RefusedTyped == Refused \in Answers /\ Refused # Null /\ Refused.status = "refused"
BY RoomsAssumption DEF Refused, Answers

LEMMA AnswerTyped ==
  ASSUME TypeOK, NEW c \in Calls, NEW a \in Answers, a # Null, Answer(c, a),
         calls[c].step = "asked", calls[c] \in CreateCall \cup ReadCall
  PROVE  /\ calls' \in [Calls -> {NoCall} \cup CreateCall \cup ReadCall]
         /\ answers' \in [Calls -> Answers]
         /\ \A d \in Calls : answers'[d] # Null <=> calls'[d].step = "answered"
<1>1. calls'[c].step = "answered" /\ answers'[c] = a
  BY Answered
<1>2. \A d \in Calls \ {c} : calls'[d] = calls[d] /\ answers'[d] = answers[d]
  BY Answered
<1>3. \A d \in Calls : answers[d] # Null <=> calls[d].step = "answered"
  BY DEF TypeOK
<1>4. /\ calls' \in [Calls -> {NoCall} \cup CreateCall \cup ReadCall]
      /\ answers' \in [Calls -> Answers]
  BY Answered
<1> QED
  BY <1>1, <1>2, <1>3, <1>4

LEMMA RefuseKeeps ==
  ASSUME IInv, NEW c \in Calls, Answer(c, Refused), calls[c].step = "asked",
         calls[c] \in CreateCall \cup ReadCall, UNCHANGED <<identity, store, listing>>
  PROVE  TypeOK' /\ Quiet
<1>1. TypeOK'
  BY RefusedTyped, AnswerTyped DEF IInv, TypeOK, SessionsTypeOK, identity, store
<1>2. ~Granted(c, "create") /\ ~Granted(c, "read")
  BY DEF Granted
<1>3. ~Granted(c, "create")' /\ ~Granted(c, "read")'
  BY Answered, RefusedTyped DEF Granted, IInv
<1>4. \A d \in Calls \ {c} : calls'[d] = calls[d] /\ answers'[d] = answers[d]
  BY Answered DEF IInv
<1> QED
  BY <1>1, <1>2, <1>3, <1>4 DEF Quiet, Granted

LEMMA AskKeeps ==
  ASSUME IInv, NEW c \in Calls, NEW q \in CreateCall \cup ReadCall, q.step = "asked",
         calls[c] = NoCall, calls' = [calls EXCEPT ![c] = q], UNCHANGED <<identity, store, answers>>
  PROVE  TypeOK' /\ Quiet
<1>1. NoCall.step = "free" /\ calls'[c] = q /\ \A d \in Calls \ {c} : calls'[d] = calls[d]
  BY DEF IInv, TypeOK, NoCall
<1>2. TypeOK'
  <2>1. calls' \in [Calls -> {NoCall} \cup CreateCall \cup ReadCall]
    BY DEF IInv, TypeOK
  <2>2. \A d \in Calls : answers[d] # Null <=> calls'[d].step = "answered"
    BY <1>1 DEF IInv, TypeOK
  <2> QED
    BY <2>1, <2>2 DEF IInv, TypeOK, SessionsTypeOK, identity, store
<1> QED
  BY <1>1, <1>2 DEF Quiet, Granted

QuietReads ==
  \A d \in Calls :
    /\ Granted(d, "read")' <=> Granted(d, "read")
    /\ Granted(d, "read") => calls'[d] = calls[d] /\ answers'[d] = answers[d]

LEMMA ReadsStay ==
  ASSUME IInv, UNCHANGED reads, QuietReads
  PROVE  ReadsOK'
<1>1. ASSUME NEW r \in 1..MaxRooms, NEW u \in Accounts
      PROVE  Told(r, u)' = Told(r, u)
  <2>1. Readers(r, u)' = Readers(r, u)
    BY DEF Readers, From, QuietReads
  <2>2. \A c \in Readers(r, u) : answers'[c] = answers[c]
    BY DEF Readers, QuietReads
  <2> QED
    BY <2>1, <2>2 DEF Told
<1>2. \A c \in Calls : Granted(c, "read")' => answers'[c] \in ReadOkay
  BY DEF IInv, ReadsOK, QuietReads
<1>3. ASSUME NEW r \in 1..MaxRooms, NEW u \in Accounts
      PROVE  reads'[r][u] \in Told(r, u)' /\ \A m \in Told(r, u)' : m <= reads'[r][u]
  BY <1>1 DEF IInv, ReadsOK
<1> QED
  BY <1>2, <1>3 DEF ReadsOK, ReadOkay

LEMMA QuietKeeps ==
  ASSUME IInv, Quiet, UNCHANGED <<rooms, requests, reads>>
  PROVE  RowsOK' /\ CreationsOK' /\ ReadsOK'
<1>1. RowsOK'
  BY DEF IInv, RowsOK, RoomIds
<1>2. CreationsOK'
  <2>1. ASSUME NEW c \in Calls, Granted(c, "create")'
        PROVE  Granted(c, "create") /\ calls'[c] = calls[c] /\ answers'[c] = answers[c]
    BY <2>1 DEF Quiet
  <2>2. ASSUME NEW c \in Calls, Granted(c, "create")'
        PROVE  /\ answers'[c] \in CreateOkay /\ answers'[c].room \in RoomIds'
               /\ rooms'[answers'[c].room] = calls'[c].what
               /\ calls'[c].what.kind = "group" =>
                    \E t \in requests' : /\ t.from = From(calls'[c]) /\ t.key = calls'[c].key
                                         /\ t.room = answers'[c].room
    BY <2>1, <2>2 DEF IInv, CreationsOK, RoomIds, From
  <2>3. ASSUME NEW c \in Calls, NEW d \in Calls, Granted(c, "create")', Granted(d, "create")',
               answers'[c].room = answers'[d].room, answers'[c].created, answers'[d].created
        PROVE  c = d
    BY <2>1, <2>3 DEF IInv, CreationsOK
  <2> QED
    BY <2>2, <2>3 DEF CreationsOK, From, CreateOkay
<1>3. ReadsOK'
  BY ReadsStay DEF Quiet, QuietReads
<1> QED
  BY <1>1, <1>2, <1>3

\* Rows that come after do not spoil a walk.
LEMMA WalkGoesOn ==
  ASSUME IInv, UNCHANGED listing, position' \in Nat, position' >= position,
         \/ UNCHANGED <<rooms, announced>>
         \/ \E w \in What : /\ rooms' = Append(rooms, w)
                            /\ announced' = Append(announced, position') /\ position' = position + 1,
         \/ UNCHANGED users
         \/ \E u \in Accounts : users' = Append(users, u)
  PROVE  ListOK'
<1>1. listing' \in {NoList} \cup Walking
  BY DEF IInv, ListOK
<1>2. ASSUME listing' \in Walking, listing'.kind = "rooms"
      PROVE  /\ listing'.at <= position'
             /\ \A r \in Rows(HolderOf[listing.session])' :
                  r \in listing'.got \/ announced'[r] > listing'.at \/ Ahead(r)'
  <2>1. listing.at <= position /\ position \in Nat /\ listing.at \in Nat
    BY <1>2 DEF IInv, ListOK, TypeOK, Walking
  <2>2. ASSUME NEW r \in Rows(HolderOf[listing.session])'
        PROVE  r \in listing'.got \/ announced'[r] > listing'.at \/ Ahead(r)'
    <3>1. CASE UNCHANGED <<rooms, announced>>
      <4>1. r \in Rows(HolderOf[listing.session])
        BY <2>2, <3>1 DEF Rows, RoomIds
      <4> QED
        BY <1>2, <3>1, <4>1 DEF IInv, ListOK, Ahead
    <3>2. ASSUME NEW w \in What, rooms' = Append(rooms, w),
                 announced' = Append(announced, position'), position' = position + 1
          PROVE  r \in listing'.got \/ announced'[r] > listing'.at \/ Ahead(r)'
      <4>1. /\ rooms \in Seq(What) /\ announced \in Seq(1..position)
            /\ Len(announced) = Len(rooms)
        BY DEF IInv, TypeOK
      <4>2. r \in 1..(Len(rooms) + 1)
        BY <2>2, <3>2, <4>1 DEF Rows, RoomIds
      <4>3. CASE r = Len(rooms) + 1
        <5>1. announced'[r] = position'
          BY <3>2, <4>1, <4>3
        <5>2. position' > listing.at
          BY <2>1, <3>2
        <5> QED
          BY <5>1, <5>2
      <4>4. CASE r \in 1..Len(rooms)
        <5>1. rooms'[r] = rooms[r] /\ announced'[r] = announced[r]
          BY <3>2, <4>1, <4>4
        <5>2. r \in Rows(HolderOf[listing.session])
          BY <2>2, <4>4, <5>1 DEF Rows, RoomIds
        <5> QED
          BY <1>2, <5>1, <5>2 DEF IInv, ListOK, Ahead
      <4> QED
        BY <4>1, <4>2, <4>3, <4>4
    <3> QED
      BY <3>1, <3>2
  <2> QED
    BY <2>1, <2>2 DEF IInv, TypeOK
<1>3. ASSUME listing' \in Walking, listing'.kind = "users"
      PROVE  /\ listing'.max <= Len(users')
             /\ \A i \in 1..listing'.max :
                  ServerOf[users'[i]] = ServerOf[HolderOf[listing'.session]] =>
                    i \in listing'.got \/ Ahead(i)'
  <2>1. listing.max <= Len(users) /\ users \in Seq(Accounts) /\ listing.max \in Nat
    BY <1>3 DEF IInv, ListOK, TypeOK, SessionsTypeOK, Walking
  <2>2. listing.max <= Len(users') /\ \A i \in 1..listing.max : users'[i] = users[i]
    BY <2>1
  <2> QED
    BY <1>3, <2>1, <2>2 DEF IInv, ListOK, Ahead
<1> QED
  BY <1>1, <1>2, <1>3 DEF ListOK, Walking, NoList
-----------------------------------------------------------------------------
(* The actions *)

LEMMA SeqWidens ==
  ASSUME NEW n \in Nat, NEW s \in Seq(1..n)
  PROVE  s \in Seq(1..(n + 1)) /\ Append(s, n + 1) \in Seq(1..(n + 1))
<1>1. \A i \in 1..Len(s) : s[i] \in 1..(n + 1)
  OBVIOUS
<1>2. s \in Seq(1..(n + 1))
  BY <1>1
<1> QED
  BY <1>2

LEMMA PeopleKeeps ==
  ASSUME IInv, People
  PROVE  IInv'
<1>1. PICK s \in SessionIds : Login(s) \/ End(s)
  BY DEF People
<1>2. HolderOf[s] \in Accounts
  BY SessionAssumption
<1>3. users \in Seq(Accounts) /\ IsInjective(users) /\ sessions \in [SessionIds -> {"none", "active", "over"}]
  BY DEF IInv, TypeOK, SessionsTypeOK
<1>4. sessions' \in [SessionIds -> {"none", "active", "over"}]
  BY <1>1, <1>3 DEF Login, End
<1>5. UNCHANGED users \/ (HolderOf[s] \notin Known /\ users' = Append(users, HolderOf[s]))
  BY <1>1 DEF Login, End
<1>6. users' \in Seq(Accounts) /\ IsInjective(users')
  <2>1. CASE UNCHANGED users
    BY <1>3, <2>1
  <2>2. CASE HolderOf[s] \notin Known /\ users' = Append(users, HolderOf[s])
    <3>1. users' \in Seq(Accounts)
      BY <1>2, <1>3, <2>2
    <3>2. \A i \in 1..Len(users) : users[i] # HolderOf[s]
      BY <1>3, <2>2 DEF Known, Range
    <3>3. ASSUME NEW i \in DOMAIN users', NEW j \in DOMAIN users', users'[i] = users'[j]
          PROVE  i = j
      <4>1. DOMAIN users' = 1..(Len(users) + 1) /\ Len(users) \in Nat /\ DOMAIN users = 1..Len(users)
        BY <1>2, <1>3, <2>2
      <4>2. /\ \A k \in 1..Len(users) : users'[k] = users[k]
            /\ users'[Len(users) + 1] = HolderOf[s]
        BY <1>2, <1>3, <2>2
      <4>3. i \in 1..Len(users) \/ i = Len(users) + 1
        BY <4>1
      <4>4. j \in 1..Len(users) \/ j = Len(users) + 1
        BY <4>1
      <4> QED
        BY <1>3, <3>2, <3>3, <4>1, <4>2, <4>3, <4>4 DEF IsInjective
    <3> QED
      BY <3>1, <3>3 DEF IsInjective
  <2> QED
    BY <1>5, <2>1, <2>2
<1>7. UNCHANGED <<rooms, requests, messages, reads, position, announced, calls, answers, listing>>
  BY DEF People, store
<1>8. TypeOK'
  BY <1>4, <1>6, <1>7 DEF IInv, TypeOK, SessionsTypeOK
<1>9. ListOK'
  BY <1>2, <1>5, <1>7, WalkGoesOn DEF IInv, TypeOK
<1> QED
  BY <1>7, <1>8, <1>9, StillQuiet, QuietKeeps DEF IInv

LEMMA AskCreateKeeps ==
  ASSUME IInv, NEW c \in Calls, AskCreate(c)
  PROVE  IInv'
<1>1. PICK s \in SessionIds, w \in What, key \in Keys :
        /\ calls[c] = NoCall
        /\ calls' = [calls EXCEPT ![c] = [step |-> "asked", op |-> "create", session |-> s,
                                          what |-> w, key |-> key]]
        /\ UNCHANGED <<identity, store, answers, listing>>
  BY DEF AskCreate
<1>2. PICK q : q = [step |-> "asked", op |-> "create", session |-> s, what |-> w, key |-> key]
  OBVIOUS
<1>3. q \in CreateCall /\ q.step = "asked" /\ calls' = [calls EXCEPT ![c] = q]
  BY <1>1, <1>2 DEF CreateCall
<1>4. TypeOK' /\ Quiet
  BY <1>1, <1>3, AskKeeps
<1>5. ListOK'
  BY <1>1, WalkGoesOn DEF IInv, TypeOK, identity, store
<1> QED
  BY <1>1, <1>4, <1>5, QuietKeeps DEF IInv, store

LEMMA AskReadKeeps ==
  ASSUME IInv, NEW c \in Calls, AskRead(c)
  PROVE  IInv'
<1>1. PICK s \in SessionIds, r \in RoomIds, m \in MessageIds :
        /\ calls[c] = NoCall
        /\ calls' = [calls EXCEPT ![c] = [step |-> "asked", op |-> "read", session |-> s,
                                          room |-> r, msg |-> m]]
        /\ UNCHANGED <<identity, store, answers, listing>>
  BY DEF AskRead
<1>2. PICK q : q = [step |-> "asked", op |-> "read", session |-> s, room |-> r, msg |-> m]
  OBVIOUS
<1>3. r \in 1..MaxRooms /\ m \in 1..MaxMessages
  BY RoomsAssumption DEF IInv, TypeOK, RoomIds, MessageIds
<1>4. q \in ReadCall /\ q.step = "asked" /\ calls' = [calls EXCEPT ![c] = q]
  BY <1>1, <1>2, <1>3 DEF ReadCall
<1>5. TypeOK' /\ Quiet
  BY <1>1, <1>4, AskKeeps
<1>6. ListOK'
  BY <1>1, WalkGoesOn DEF IInv, TypeOK, identity, store
<1> QED
  BY <1>1, <1>5, <1>6, QuietKeeps DEF IInv, store

LEMMA PostKeeps ==
  ASSUME IInv, Post
  PROVE  IInv'
<1>1. PICK r \in RoomIds : messages' = Append(messages, r)
  BY DEF Post
<1>2. /\ UNCHANGED <<identity, rooms, requests, reads, announced, calls, answers, listing>>
      /\ position' = position + 1 /\ Len(messages) < MaxMessages
  BY DEF Post, Emit
<1>3. r \in 1..MaxRooms
  BY RoomsAssumption DEF IInv, TypeOK, RoomIds
<1>4. messages' \in Seq(1..MaxRooms) /\ Len(messages') <= MaxMessages
  BY <1>1, <1>2, <1>3, RoomsAssumption DEF IInv, TypeOK
<1>5. position' \in Nat /\ announced' \in Seq(1..position')
  BY <1>2, SeqWidens DEF IInv, TypeOK
<1>6. TypeOK'
  BY <1>2, <1>4, <1>5 DEF IInv, TypeOK, SessionsTypeOK, identity
<1>7. ListOK'
  BY <1>2, <1>5, WalkGoesOn DEF IInv, TypeOK, identity
<1> QED
  BY <1>2, <1>6, <1>7, StillQuiet, QuietKeeps DEF IInv

LEMMA CrashKeeps ==
  ASSUME IInv, Crash
  PROVE  IInv'
<1>1. UNCHANGED <<identity, store, answers, listing>>
  BY DEF Crash
<1>2. \A c \in Calls : calls'[c] = IF calls[c].step = "asked" THEN NoCall ELSE calls[c]
  BY DEF Crash
<1>3. calls' \in [Calls -> {NoCall} \cup CreateCall \cup ReadCall]
  BY <1>2 DEF Crash, IInv, TypeOK
<1>4. \A c \in Calls : NoCall.step = "free" /\ (calls'[c].step = "answered" <=> calls[c].step = "answered")
  BY <1>2 DEF NoCall
<1>5. TypeOK'
  BY <1>1, <1>3, <1>4 DEF IInv, TypeOK, SessionsTypeOK, identity, store
<1>6. Quiet
  BY <1>1, <1>2, <1>4 DEF Quiet, Granted
<1>7. ListOK'
  BY <1>1, WalkGoesOn DEF IInv, TypeOK, identity, store
<1> QED
  BY <1>1, <1>5, <1>6, <1>7, QuietKeeps DEF IInv, store
-----------------------------------------------------------------------------
LEMMA AskedTyped ==
  ASSUME TypeOK, NEW c \in Calls, calls[c].step = "asked"
  PROVE  /\ calls[c] \in CreateCall \cup ReadCall
         /\ calls[c].op = "create" => calls[c] \in CreateCall
         /\ calls[c].op = "read" => calls[c] \in ReadCall
BY DEF TypeOK, NoCall, CreateCall, ReadCall

LEMMA WhatTyped ==
  ASSUME NEW w \in What
  PROVE  w.kind \in {"direct", "group"}
BY DEF What

LEMMA Holders ==
  ASSUME NEW q \in CreateCall \cup ReadCall
  PROVE  From(q) \in Accounts
BY SessionAssumption DEF From, CreateCall, ReadCall

\* A creation that finds its row.
LEMMA FoundKeeps ==
  ASSUME IInv, NEW c \in Calls, NEW q \in CreateCall, q = calls[c], q.step = "asked",
         q.op = "create", ~Conflicts(q), NEW r \in Existing(q),
         Answer(c, [status |-> "ok", room |-> r, created |-> FALSE]),
         UNCHANGED <<identity, store, listing>>
  PROVE  IInv'
<1>1. /\ r \in RoomIds /\ rooms[r] = q.what /\ r \in 1..MaxRooms
      /\ q.what.kind = "group" => \E t \in requests : t.from = From(q) /\ t.key = q.key /\ t.room = r
  <2>1. q.what \in What
    BY DEF CreateCall
  <2>2. RoomIds \subseteq 1..MaxRooms
    BY RoomsAssumption DEF IInv, TypeOK, RoomIds
  <2>3. CASE q.what.kind = "direct"
    BY <2>2, <2>3 DEF Existing
  <2>4. CASE q.what.kind = "group"
    <3>1. PICK t \in SameRequest(q) : r = t.room
      BY <2>4 DEF Existing
    <3>2. t \in requests /\ t.from = From(q) /\ t.key = q.key
      BY <3>1 DEF SameRequest
    <3>3. t.what = q.what
      BY <2>4, <3>1 DEF Conflicts
    <3> QED
      BY <2>2, <2>4, <3>1, <3>2, <3>3 DEF IInv, RowsOK
  <2> QED
    BY <2>1, <2>3, <2>4, WhatTyped
<1>2. PICK a : a = [status |-> "ok", room |-> r, created |-> FALSE]
  OBVIOUS
<1>3. /\ a \in CreateOkay /\ a.status = "ok" /\ a.room = r /\ ~a.created
      /\ a \in Answers
  BY <1>1, <1>2 DEF Answers, CreateOkay
<1>4. a # Null
  <2>1. a \in [status : {"ok"}, room : Nat, created : BOOLEAN]
    BY <1>1, <1>2, RoomsAssumption
  <2> QED
    BY <2>1, RoomsAssumption
<1>5. Answer(c, a) /\ TypeOK
  BY <1>2 DEF IInv
<1>6. TypeOK'
  BY <1>3, <1>4, <1>5, AnswerTyped DEF IInv, TypeOK, SessionsTypeOK, identity, store
<1>7. /\ calls'[c].step = "answered" /\ calls'[c].op = "create" /\ answers'[c] = a
      /\ calls'[c].what = q.what /\ calls'[c].key = q.key /\ From(calls'[c]) = From(q)
      /\ \A d \in Calls \ {c} : calls'[d] = calls[d] /\ answers'[d] = answers[d]
  BY <1>5, Answered DEF From
<1>8. UNCHANGED <<rooms, requests, reads, announced, position, users>>
  BY DEF store, identity
<1>9. RowsOK'
  BY <1>8 DEF IInv, RowsOK, RoomIds
<1>10. CreationsOK'
  <2>1. ASSUME NEW d \in Calls, Granted(d, "create")'
        PROVE  /\ answers'[d] \in CreateOkay /\ answers'[d].room \in RoomIds'
               /\ rooms'[answers'[d].room] = calls'[d].what
               /\ calls'[d].what.kind = "group" =>
                    \E t \in requests' : /\ t.from = From(calls'[d]) /\ t.key = calls'[d].key
                                         /\ t.room = answers'[d].room
    <3>1. CASE d = c
      BY <1>1, <1>3, <1>7, <1>8, <3>1 DEF RoomIds
    <3>2. CASE d # c
      <4>1. Granted(d, "create")
        BY <1>7, <2>1, <3>2 DEF Granted
      <4> QED
        BY <1>7, <1>8, <3>2, <4>1 DEF IInv, CreationsOK, RoomIds, From
    <3> QED
      BY <3>1, <3>2
  <2>2. ASSUME NEW d \in Calls, NEW e \in Calls, Granted(d, "create")', Granted(e, "create")',
               answers'[d].room = answers'[e].room, answers'[d].created, answers'[e].created
        PROVE  d = e
    <3>1. d # c /\ e # c
      BY <1>3, <1>7, <2>2
    <3>2. Granted(d, "create") /\ Granted(e, "create")
      BY <1>7, <2>2, <3>1 DEF Granted
    <3> QED
      BY <1>7, <2>2, <3>1, <3>2 DEF IInv, CreationsOK
  <2> QED
    BY <2>1, <2>2 DEF CreationsOK, From, CreateOkay
<1>11. ReadsOK'
  <2>1. \A d \in Calls : Granted(d, "read")' <=> Granted(d, "read")
    BY <1>7 DEF Granted
  <2>2. ~Granted(c, "read")
    BY DEF Granted
  <2> QED
    BY <1>7, <1>8, <2>1, <2>2, ReadsStay DEF QuietReads
<1>12. ListOK'
  BY <1>8, WalkGoesOn DEF IInv, TypeOK
<1> QED
  BY <1>6, <1>9, <1>10, <1>11, <1>12 DEF IInv

\* A creation that makes its row.
LEMMA MadeKeeps ==
  ASSUME IInv, NEW c \in Calls, NEW q \in CreateCall, q = calls[c], q.step = "asked",
         q.op = "create", ~Conflicts(q), Existing(q) = {},
         NEW id, id = Len(rooms) + 1, id <= MaxRooms,
         rooms' = Append(rooms, q.what),
         requests' = IF q.what.kind = "direct" THEN requests
                     ELSE requests \cup {[from |-> From(q), key |-> q.key,
                                          what |-> q.what, room |-> id]},
         position' = position + 1, announced' = Append(announced, position'),
         Answer(c, [status |-> "ok", room |-> id, created |-> TRUE]),
         UNCHANGED <<identity, messages, reads, listing>>
  PROVE  IInv'
<1>1. /\ rooms \in Seq(What) /\ announced \in Seq(1..position) /\ Len(announced) = Len(rooms)
      /\ position \in Nat /\ requests \subseteq Request
  BY DEF IInv, TypeOK
<1>2. q.what \in What /\ q.key \in Keys /\ From(q) \in Accounts
  BY Holders DEF CreateCall
<1>3. id \in 1..MaxRooms /\ id \in Nat /\ id \notin RoomIds
  BY <1>1, RoomsAssumption DEF RoomIds
<1>4. /\ rooms' \in Seq(What) /\ Len(rooms') = id /\ rooms'[id] = q.what
      /\ \A r \in RoomIds : rooms'[r] = rooms[r] /\ r \in RoomIds'
      /\ id \in RoomIds' /\ RoomIds' = RoomIds \cup {id}
  BY <1>1, <1>2 DEF RoomIds
<1>5. PICK t : t = [from |-> From(q), key |-> q.key, what |-> q.what, room |-> id]
  OBVIOUS
<1>6. t \in Request /\ t.from = From(q) /\ t.key = q.key /\ t.what = q.what /\ t.room = id
  BY <1>2, <1>3, <1>5 DEF Request
<1>7. requests' = IF q.what.kind = "direct" THEN requests ELSE requests \cup {t}
  BY <1>5
<1>8. PICK a : a = [status |-> "ok", room |-> id, created |-> TRUE]
  OBVIOUS
<1>9. a \in CreateOkay /\ a.status = "ok" /\ a.room = id /\ a.created /\ a \in Answers
  BY <1>3, <1>8 DEF Answers, CreateOkay
<1>10. a # Null
  <2>1. a \in [status : {"ok"}, room : Nat, created : BOOLEAN]
    BY <1>3, <1>8
  <2> QED
    BY <2>1, RoomsAssumption
<1>11. Answer(c, a) /\ TypeOK
  BY <1>8 DEF IInv
<1>12. TypeOK'
  <2>1. /\ calls' \in [Calls -> {NoCall} \cup CreateCall \cup ReadCall]
        /\ answers' \in [Calls -> Answers]
        /\ \A d \in Calls : answers'[d] # Null <=> calls'[d].step = "answered"
    BY <1>9, <1>10, <1>11, AnswerTyped
  <2>2. position' \in Nat /\ announced' \in Seq(1..position') /\ Len(announced') = Len(rooms')
    BY <1>1, <1>4, SeqWidens
  <2>3. requests' \subseteq Request
    BY <1>1, <1>6, <1>7
  <2>4. SessionsTypeOK'
    BY DEF IInv, TypeOK, SessionsTypeOK, identity
  <2>5. Len(rooms') <= MaxRooms /\ rooms' \in Seq(What)
    BY <1>4
  <2>6. /\ messages' \in Seq(1..MaxRooms) /\ Len(messages') <= MaxMessages
        /\ reads' \in [1..MaxRooms -> [Accounts -> 0..MaxMessages]]
    BY DEF IInv, TypeOK
  <2> QED
    BY <2>1, <2>2, <2>3, <2>4, <2>5, <2>6 DEF TypeOK, Request, What, CreateCall, ReadCall, Answers
<1>13. /\ calls'[c].step = "answered" /\ calls'[c].op = "create" /\ answers'[c] = a
       /\ calls'[c].what = q.what /\ calls'[c].key = q.key /\ From(calls'[c]) = From(q)
       /\ \A d \in Calls \ {c} : calls'[d] = calls[d] /\ answers'[d] = answers[d]
  BY <1>11, Answered DEF From
<1>14. RowsOK'
  <2>1. ASSUME NEW r \in RoomIds', NEW s \in RoomIds', rooms'[r].kind = "direct",
               rooms'[r] = rooms'[s]
        PROVE  r = s
    <3>1. ASSUME NEW x \in RoomIds, q.what.kind = "direct"
          PROVE  rooms[x] # q.what
      BY <3>1 DEF Existing
    <3>2. r \in RoomIds \/ r = id
      BY <1>4
    <3>3. s \in RoomIds \/ s = id
      BY <1>4
    <3>4. CASE r \in RoomIds /\ s \in RoomIds
      <4>1. rooms[r].kind = "direct" /\ rooms[r] = rooms[s]
        BY <1>4, <2>1, <3>4
      <4> QED
        BY <3>4, <4>1 DEF IInv, RowsOK
    <3>5. CASE r = id /\ s \in RoomIds
      BY <1>4, <2>1, <3>1, <3>5
    <3>6. CASE r \in RoomIds /\ s = id
      BY <1>4, <2>1, <3>1, <3>6
    <3> QED
      BY <3>2, <3>3, <3>4, <3>5, <3>6
  <2>2. ASSUME NEW x \in requests'
        PROVE  x.room \in RoomIds' /\ rooms'[x.room] = x.what /\ x.what.kind = "group"
    <3>1. CASE x \in requests
      BY <1>4, <3>1 DEF IInv, RowsOK
    <3>2. CASE x = t /\ q.what.kind # "direct"
      BY <1>2, <1>4, <1>6, <3>2, WhatTyped
    <3> QED
      BY <1>7, <2>2, <3>1, <3>2
  <2>3. ASSUME NEW x \in requests', NEW y \in requests', x.from = y.from, x.key = y.key
        PROVE  x = y
    <3>1. ASSUME q.what.kind # "direct", NEW z \in requests
          PROVE  ~(z.from = From(q) /\ z.key = q.key)
      BY <3>1 DEF Existing, SameRequest
    <3>2. (x \in requests \/ x = t) /\ (y \in requests \/ y = t)
      BY <1>7
    <3> QED
      BY <1>6, <1>7, <2>3, <3>1, <3>2 DEF IInv, RowsOK
  <2>4. \A r, s \in RoomIds' : rooms'[r].kind = "direct" /\ rooms'[r] = rooms'[s] => r = s
    BY <2>1
  <2>5. \A x, y \in requests' : x.from = y.from /\ x.key = y.key => x = y
    BY <2>3
  <2>6. \A x \in requests' :
          x.room \in RoomIds' /\ rooms'[x.room] = x.what /\ x.what.kind = "group"
    BY <2>2
  <2> QED
    BY <2>4, <2>5, <2>6 DEF RowsOK
<1>15. CreationsOK'
  <2>1. ASSUME NEW d \in Calls, Granted(d, "create")', d # c
        PROVE  Granted(d, "create") /\ answers[d].room \in RoomIds
    <3>1. Granted(d, "create")
      BY <1>13, <2>1 DEF Granted
    <3> QED
      BY <3>1 DEF IInv, CreationsOK
  <2>2. ASSUME NEW d \in Calls, Granted(d, "create")'
        PROVE  /\ answers'[d] \in CreateOkay /\ answers'[d].room \in RoomIds'
               /\ rooms'[answers'[d].room] = calls'[d].what
               /\ calls'[d].what.kind = "group" =>
                    \E x \in requests' : /\ x.from = From(calls'[d]) /\ x.key = calls'[d].key
                                         /\ x.room = answers'[d].room
    <3>1. CASE d = c
      BY <1>4, <1>6, <1>7, <1>9, <1>13, <3>1
    <3>2. CASE d # c
      <4>1. /\ Granted(d, "create") /\ answers'[d] = answers[d] /\ calls'[d] = calls[d]
            /\ answers[d].room \in RoomIds
        BY <1>13, <2>1, <2>2, <3>2
      <4>2. /\ answers[d] \in CreateOkay /\ rooms[answers[d].room] = calls[d].what
            /\ calls[d].what.kind = "group" =>
                 \E x \in requests : /\ x.from = From(calls[d]) /\ x.key = calls[d].key
                                     /\ x.room = answers[d].room
        BY <4>1 DEF IInv, CreationsOK
      <4>3. requests \subseteq requests' /\ From(calls'[d]) = From(calls[d])
        BY <1>7, <4>1
      <4> QED
        BY <1>4, <4>1, <4>2, <4>3
    <3> QED
      BY <3>1, <3>2
  <2>3. ASSUME NEW d \in Calls, NEW e \in Calls, Granted(d, "create")', Granted(e, "create")',
               answers'[d].room = answers'[e].room, answers'[d].created, answers'[e].created
        PROVE  d = e
    <3>1. CASE d # c /\ e # c
      BY <1>13, <2>1, <2>3, <3>1 DEF IInv, CreationsOK
    <3>2. CASE d = c \/ e = c
      BY <1>3, <1>9, <1>13, <2>1, <2>3, <3>2
    <3> QED
      BY <3>1, <3>2
  <2> QED
    BY <2>2, <2>3 DEF CreationsOK, From, CreateOkay
<1>16. ReadsOK'
  <2>1. \A d \in Calls : Granted(d, "read")' <=> Granted(d, "read")
    BY <1>13 DEF Granted
  <2>2. ~Granted(c, "read")
    BY DEF Granted
  <2> QED
    BY <1>13, <2>1, <2>2, ReadsStay DEF QuietReads
<1>17. ListOK'
  BY <1>1, <1>2, WalkGoesOn DEF identity
<1> QED
  BY <1>12, <1>14, <1>15, <1>16, <1>17 DEF IInv

LEMMA CreateKeeps ==
  ASSUME IInv, NEW c \in Calls, Create(c)
  PROVE  IInv'
<1>1. PICK q : q = calls[c] /\ q.step = "asked" /\ q.op = "create" /\ q \in CreateCall
  BY AskedTyped DEF Create, IInv
<1>2. UNCHANGED <<identity, listing>>
  BY DEF Create
<1>3. CASE Answer(c, Refused) /\ UNCHANGED store
  <2>1. TypeOK' /\ Quiet
    BY <1>1, <1>2, <1>3, RefuseKeeps
  <2>2. ListOK'
    BY <1>2, <1>3, WalkGoesOn DEF IInv, TypeOK, identity, store
  <2> QED
    BY <1>3, <2>1, <2>2, QuietKeeps DEF IInv, store
<1>4. ASSUME ~Conflicts(q), UNCHANGED store, NEW r \in Existing(q),
             Answer(c, [status |-> "ok", room |-> r, created |-> FALSE])
      PROVE  IInv'
  BY <1>1, <1>2, <1>4, FoundKeeps
<1>5. CASE /\ ~Conflicts(q) /\ Existing(q) = {}
           /\ Len(rooms) + 1 <= MaxRooms
           /\ rooms' = Append(rooms, q.what)
           /\ requests' = IF q.what.kind = "direct" THEN requests
                          ELSE requests \cup {[from |-> From(q), key |-> q.key,
                                               what |-> q.what, room |-> Len(rooms) + 1]}
           /\ Emit /\ announced' = Append(announced, position')
           /\ Answer(c, [status |-> "ok", room |-> Len(rooms) + 1, created |-> TRUE])
           /\ UNCHANGED <<messages, reads>>
  BY <1>1, <1>2, <1>5, MadeKeeps DEF Emit
<1> QED
  BY <1>1, <1>3, <1>4, <1>5 DEF Create

\* A message further than what any device of the user has read.
LEMMA AdvanceKeeps ==
  ASSUME IInv, NEW c \in Calls, NEW q \in ReadCall, q = calls[c], q.step = "asked",
         q.op = "read", NEW upto \in 0..MaxMessages,
         upto >= reads[q.room][From(q)],
         reads' = [reads EXCEPT ![q.room][From(q)] = upto],
         position' \in {position, position + 1},
         Answer(c, [status |-> "ok", upto |-> upto]),
         UNCHANGED <<identity, rooms, requests, messages, announced, listing>>
  PROVE  IInv'
<1>1. q.room \in 1..MaxRooms /\ From(q) \in Accounts
  BY Holders DEF ReadCall
<1>2. PICK a : a = [status |-> "ok", upto |-> upto]
  OBVIOUS
<1>3. a \in ReadOkay /\ a \in Answers /\ a.status = "ok" /\ a.upto = upto
  BY <1>2 DEF ReadOkay, Answers
<1>4. a # Null
  <2>1. upto \in Nat
    BY RoomsAssumption
  <2>2. a \in [status : {"ok"}, upto : Nat]
    BY <1>2, <2>1
  <2> QED
    BY <2>2, RoomsAssumption
<1>5. Answer(c, a) /\ TypeOK
  BY <1>2 DEF IInv
<1>6. /\ calls'[c].step = "answered" /\ calls'[c].op = "read" /\ answers'[c] = a
      /\ calls'[c].room = q.room /\ From(calls'[c]) = From(q)
      /\ \A d \in Calls \ {c} : calls'[d] = calls[d] /\ answers'[d] = answers[d]
  BY <1>5, Answered DEF From
<1>7. /\ reads \in [1..MaxRooms -> [Accounts -> 0..MaxMessages]]
      /\ reads' \in [1..MaxRooms -> [Accounts -> 0..MaxMessages]]
      /\ reads'[q.room][From(q)] = upto
      /\ \A r \in 1..MaxRooms, u \in Accounts :
           ~(r = q.room /\ u = From(q)) => reads'[r][u] = reads[r][u]
  BY <1>1 DEF IInv, TypeOK
<1>8. position \in Nat /\ position' \in Nat /\ position' >= position
      /\ announced \in Seq(1..position) /\ announced' \in Seq(1..position')
  <2>1. position \in Nat /\ announced \in Seq(1..position)
    BY DEF IInv, TypeOK
  <2>2. announced \in Seq(1..(position + 1))
    BY <2>1, SeqWidens
  <2> QED
    BY <2>1, <2>2
<1>9. TypeOK'
  <2>1. /\ calls' \in [Calls -> {NoCall} \cup CreateCall \cup ReadCall]
        /\ answers' \in [Calls -> Answers]
        /\ \A d \in Calls : answers'[d] # Null <=> calls'[d].step = "answered"
    BY <1>3, <1>4, <1>5, AnswerTyped
  <2> QED
    BY <1>7, <1>8, <2>1 DEF IInv, TypeOK, SessionsTypeOK, identity
<1>10. ~Granted(c, "read") /\ ~Granted(c, "create") /\ ~Granted(c, "create")' /\ Granted(c, "read")'
  BY <1>3, <1>6 DEF Granted
<1>11. \A d \in Calls \ {c} : /\ Granted(d, "read")' <=> Granted(d, "read")
                              /\ Granted(d, "create")' <=> Granted(d, "create")
  BY <1>6 DEF Granted
<1>12. RowsOK' /\ CreationsOK'
  <2>1. RowsOK'
    BY DEF IInv, RowsOK, RoomIds
  <2>2. ASSUME NEW d \in Calls, Granted(d, "create")'
        PROVE  Granted(d, "create") /\ calls'[d] = calls[d] /\ answers'[d] = answers[d]
    BY <1>6, <1>10, <1>11, <2>2
  <2>3. ASSUME NEW d \in Calls, Granted(d, "create")'
        PROVE  /\ answers'[d] \in CreateOkay /\ answers'[d].room \in RoomIds'
               /\ rooms'[answers'[d].room] = calls'[d].what
               /\ calls'[d].what.kind = "group" =>
                    \E t \in requests' : /\ t.from = From(calls'[d]) /\ t.key = calls'[d].key
                                         /\ t.room = answers'[d].room
    BY <2>2, <2>3 DEF IInv, CreationsOK, RoomIds, From
  <2>4. ASSUME NEW d \in Calls, NEW e \in Calls, Granted(d, "create")', Granted(e, "create")',
               answers'[d].room = answers'[e].room, answers'[d].created, answers'[e].created
        PROVE  d = e
    BY <2>2, <2>4 DEF IInv, CreationsOK
  <2> QED
    BY <2>1, <2>3, <2>4 DEF CreationsOK, From, CreateOkay
<1>13. ASSUME NEW r \in 1..MaxRooms, NEW u \in Accounts, ~(r = q.room /\ u = From(q))
       PROVE  Told(r, u)' = Told(r, u)
  <2>1. Readers(r, u)' = Readers(r, u) /\ c \notin Readers(r, u)
    BY <1>6, <1>10, <1>11, <1>13 DEF Readers, From
  <2>2. \A d \in Readers(r, u) : answers'[d] = answers[d]
    BY <1>6, <2>1 DEF Readers
  <2> QED
    BY <2>1, <2>2 DEF Told
<1>14. Told(q.room, From(q))' = Told(q.room, From(q)) \cup {upto}
  <2>1. Readers(q.room, From(q))' = Readers(q.room, From(q)) \cup {c} /\ c \notin Readers(q.room, From(q))
    BY <1>6, <1>10, <1>11 DEF Readers, From
  <2>2. \A d \in Readers(q.room, From(q)) : answers'[d] = answers[d]
    BY <1>6, <2>1 DEF Readers
  <2>3. answers'[c].upto = upto
    BY <1>3, <1>6
  <2> QED
    BY <2>1, <2>2, <2>3 DEF Told
<1>15. ReadsOK'
  <2>1. ASSUME NEW d \in Calls, Granted(d, "read")'
        PROVE  answers'[d] \in ReadOkay
    BY <1>3, <1>6, <1>11, <2>1 DEF IInv, ReadsOK
  <2>2. ASSUME NEW r \in 1..MaxRooms, NEW u \in Accounts
        PROVE  reads'[r][u] \in Told(r, u)' /\ \A m \in Told(r, u)' : m <= reads'[r][u]
    <3>1. CASE ~(r = q.room /\ u = From(q))
      BY <1>7, <1>13, <3>1 DEF IInv, ReadsOK
    <3>2. CASE r = q.room /\ u = From(q)
      <4>1. Told(r, u)' = Told(r, u) \cup {upto} /\ reads'[r][u] = upto
        BY <1>7, <1>14, <3>2
      <4>2. \A m \in Told(r, u) : m <= reads[r][u]
        BY DEF IInv, ReadsOK
      <4>3. \A m \in Told(r, u) : m \in Nat
        <5>1. \A d \in Readers(r, u) : answers[d] \in ReadOkay
          BY DEF Readers, IInv, ReadsOK
        <5>2. \A d \in Readers(r, u) : answers[d].upto \in Nat
          BY <5>1 DEF ReadOkay
        <5> QED
          BY <5>2 DEF Told
      <4>4. reads[r][u] \in Nat /\ upto \in Nat /\ reads[r][u] <= upto
        BY <1>7, <3>2
      <4>5. \A m \in Told(r, u) : m <= upto
        BY <4>2, <4>3, <4>4
      <4> QED
        BY <4>1, <4>4, <4>5
    <3> QED
      BY <3>1, <3>2
  <2> QED
    BY <2>1, <2>2 DEF ReadsOK, ReadOkay
<1>16. ListOK'
  BY <1>8, WalkGoesOn DEF identity
<1> QED
  BY <1>9, <1>12, <1>15, <1>16 DEF IInv

LEMMA ReadKeeps ==
  ASSUME IInv, NEW c \in Calls, Read(c)
  PROVE  IInv'
<1>1. PICK q : q = calls[c] /\ q.step = "asked" /\ q.op = "read" /\ q \in ReadCall
  BY AskedTyped DEF Read, IInv
<1>2. UNCHANGED <<identity, listing>>
  BY DEF Read
<1>3. CASE Answer(c, Refused) /\ UNCHANGED store
  <2>1. TypeOK' /\ Quiet
    BY <1>1, <1>2, <1>3, RefuseKeeps
  <2>2. ListOK'
    BY <1>2, <1>3, WalkGoesOn DEF IInv, TypeOK, identity, store
  <2> QED
    BY <1>3, <2>1, <2>2, QuietKeeps DEF IInv, store
<1>4. PICK old : old = reads[q.room][From(q)]
  OBVIOUS
<1>5. /\ old \in 0..MaxMessages /\ old \in Nat /\ q.msg \in 0..MaxMessages /\ q.msg \in Nat
      /\ q.room \in 1..MaxRooms /\ From(q) \in Accounts
      /\ reads \in [1..MaxRooms -> [Accounts -> 0..MaxMessages]]
  BY <1>1, <1>4, Holders DEF ReadCall, IInv, TypeOK
<1>6. CASE Answer(c, [status |-> "ok", upto |-> old]) /\ UNCHANGED store
  <2>1. reads' = [reads EXCEPT ![q.room][From(q)] = old]
    BY <1>4, <1>5, <1>6 DEF store
  <2>2. /\ UNCHANGED <<identity, rooms, requests, messages, announced, listing>>
        /\ position' \in {position, position + 1}
    BY <1>2, <1>6 DEF store
  <2>3. old >= reads[q.room][From(q)]
    BY <1>4, <1>5
  <2> QED
    BY <1>1, <1>5, <1>6, <2>1, <2>2, <2>3, AdvanceKeeps
<1>7. CASE /\ Advances(old, q.msg)
           /\ reads' = [reads EXCEPT ![q.room][From(q)] = q.msg]
           /\ Emit
           /\ Answer(c, [status |-> "ok", upto |-> q.msg])
           /\ UNCHANGED <<rooms, requests, messages, announced>>
  <2>1. q.msg >= old
    BY <1>5, <1>7 DEF Advances
  <2> QED
    BY <1>1, <1>2, <1>4, <1>5, <1>7, <2>1, AdvanceKeeps DEF Emit
<1> QED
  BY <1>1, <1>3, <1>4, <1>6, <1>7 DEF Read
-----------------------------------------------------------------------------
(* The walk through the pages *)

\* The first page, or one more: whatever was due is on it, or after it.
LEMMA PageKeeps ==
  ASSUME NEW w \in Walking, NEW n \in Nat, NEW due, due \subseteq 1..n, NEW at \in Nat,
         TakePage(w, due, at), \A r \in due : w.after < r
  PROVE  /\ listing' \in Walking
         /\ listing'.kind = w.kind /\ listing'.session = w.session /\ listing'.at = at
         /\ listing'.max = w.max /\ w.got \subseteq listing'.got
         /\ \A r \in due : r \in listing'.got \/ (listing'.step = "more" /\ listing'.after < r)
<1>1. PICK page : page = PageOf(due)
  OBVIOUS
<1>2. PICK after : after = IF page = {} THEN w.after ELSE Max(page)
  OBVIOUS
<1>3. PICK step : step = IF page = due THEN "done" ELSE "more"
  OBVIOUS
<1>4. due \subseteq 0..n /\ \A r \in due : r \in Nat
  <2>1. \A r \in 1..n : r \in 0..n /\ r \in Nat
    OBVIOUS
  <2> QED
    BY <2>1
<1>5. /\ page \subseteq due
      /\ page # {} => Max(page) \in Nat /\ Max(page) \in page
      /\ \A r \in due : page # {} /\ r <= Max(page) => r \in page
  <2>1. page \subseteq due
    BY <1>1, <1>4, PageIsHead
  <2>2. page # {} => Max(page) \in page
    BY <1>4, <2>1, MaxIs
  <2> QED
    BY <1>1, <1>4, <2>1, <2>2, PageIsHead
<1>6. w.after \in Nat /\ w.got \subseteq Nat
  BY DEF Walking
<1>7. after \in Nat /\ after >= w.after
  <2>1. CASE page = {}
    BY <1>2, <1>6, <2>1
  <2>2. CASE page # {}
    BY <1>2, <1>5, <1>6, <2>2
  <2> QED
    BY <2>1, <2>2
<1>8. PICK got : got = w.got \cup page
  OBVIOUS
<1>9. got \subseteq Nat
  BY <1>4, <1>5, <1>6, <1>8
<1>10. listing' = [w EXCEPT !.step = step, !.at = at, !.after = after, !.got = got]
  BY <1>1, <1>2, <1>3, <1>8 DEF TakePage, PageOf
<1>11. /\ listing' \in Walking
       /\ listing'.kind = w.kind /\ listing'.session = w.session /\ listing'.at = at
       /\ listing'.max = w.max /\ listing'.step = step /\ listing'.after = after
       /\ listing'.got = got
  BY <1>3, <1>7, <1>9, <1>10 DEF Walking
<1>12. ASSUME NEW r \in due, r \notin page
       PROVE  step = "more" /\ after < r
  <2>1. CASE page = {}
    BY <1>2, <1>3, <1>12, <2>1
  <2>2. CASE page # {}
    BY <1>2, <1>3, <1>4, <1>5, <1>12, <2>2
  <2> QED
    BY <2>1, <2>2
<1> QED
  BY <1>8, <1>11, <1>12

LEMMA ListKeeps ==
  ASSUME IInv, ListFirst \/ ListMore \/ ListUsers \/ ListRefused
  PROVE  IInv'
<1>1. UNCHANGED <<identity, store, calls, answers>>
  BY DEF ListFirst, ListMore, ListUsers, ListRefused
<1>2. /\ rooms \in Seq(What) /\ announced \in Seq(1..position) /\ Len(announced) = Len(rooms)
      /\ position \in Nat /\ users \in Seq(Accounts) /\ Len(rooms) \in Nat /\ Len(users) \in Nat
  BY DEF IInv, TypeOK, SessionsTypeOK
<1>3. \A s \in SessionIds : Rows(HolderOf[s]) \subseteq 1..Len(rooms)
  BY DEF Rows, RoomIds
<1>4. TypeOK' /\ RowsOK' /\ CreationsOK' /\ ReadsOK'
  BY <1>1, StillQuiet, QuietKeeps DEF IInv, TypeOK, SessionsTypeOK, identity, store
<1>5. ASSUME ListFirst
      PROVE  ListOK'
  <2>s. PICK s \in SessionIds :
          LET w == Walk("rooms", s, Max({0} \cup Rows(HolderOf[s])))
          IN  TakePage(w, DueRooms(w), ListedAt(TRUE, 0))
    BY <1>5 DEF ListFirst
  <2>1. PICK w :
          /\ w = Walk("rooms", s, Max({0} \cup Rows(HolderOf[s])))
          /\ TakePage(w, DueRooms(w), ListedAt(TRUE, 0))
    BY <2>s
  <2>2. PICK rows : rows = Rows(HolderOf[s])
    OBVIOUS
  <2>3. PICK top : top = Max({0} \cup rows)
    OBVIOUS
  <2>4. {0} \cup rows \subseteq 0..Len(rooms)
    <3>1. \A r \in 1..Len(rooms) : r \in 0..Len(rooms)
      BY <1>2
    <3> QED
      BY <1>2, <1>3, <2>2, <3>1
  <2>5. top \in {0} \cup rows /\ \A r \in {0} \cup rows : r <= top
    BY <1>2, <2>3, <2>4, MaxIs
  <2>6. top \in Nat
    BY <1>2, <2>4, <2>5
  <2>7. /\ w \in Walking /\ w.kind = "rooms" /\ w.session = s /\ w.max = top /\ w.after = 0
        /\ w.got = {}
    BY <2>1, <2>2, <2>3, <2>6 DEF Walk, Walking
  <2>8. DueRooms(w) = rows /\ rows \subseteq 1..Len(rooms) /\ \A r \in rows : w.after < r
    <3>1. rows \subseteq 1..Len(rooms)
      BY <1>3, <2>2
    <3>2. \A r \in rows : r \in Nat /\ 0 < r /\ r <= top
      BY <1>2, <2>5, <3>1
    <3>3. DueRooms(w) = {r \in rows : 0 < r /\ r <= top}
      BY <2>2, <2>7 DEF DueRooms
    <3> QED
      BY <2>7, <3>1, <3>2, <3>3
  <2>9. TakePage(w, rows, position)
    BY <2>1, <2>8 DEF ListedAt
  <2>10. /\ listing' \in Walking
         /\ listing'.kind = "rooms" /\ listing'.session = s /\ listing'.at = position
         /\ listing'.max = top
         /\ \A r \in rows : r \in listing'.got \/ (listing'.step = "more" /\ listing'.after < r)
    BY <1>2, <2>7, <2>8, <2>9, PageKeeps
  <2>11. Rows(HolderOf[listing.session])' = rows
    BY <1>1, <2>2, <2>10 DEF Rows, RoomIds, store
  <2>12. \A r \in rows : r \in listing'.got \/ Ahead(r)'
    BY <2>5, <2>10 DEF Ahead
  <2>13. listing'.at <= position'
    BY <1>1, <1>2, <2>10 DEF store
  <2> QED
    BY <2>10, <2>11, <2>12, <2>13 DEF ListOK, Walking
<1>6. ASSUME ListMore
      PROVE  ListOK'
  <2>1. PICK w : w = listing
    OBVIOUS
  <2>2. /\ w \in Walking /\ w.kind = "rooms" /\ w.step = "more"
        /\ TakePage(w, DueRooms(w), w.at)
    BY <1>6, <2>1 DEF ListMore, ListedAt, IInv, ListOK, NoList
  <2>3. PICK rows : rows = Rows(HolderOf[w.session])
    OBVIOUS
  <2>4. /\ w.at <= position /\ w.at \in Nat
        /\ \A r \in rows : r \in w.got \/ announced[r] > w.at \/ (w.after < r /\ r <= w.max)
    BY <2>1, <2>2, <2>3 DEF IInv, ListOK, Ahead, Walking
  <2>5. /\ DueRooms(w) \subseteq 1..Len(rooms)
        /\ \A r \in DueRooms(w) : w.after < r
        /\ \A r \in rows : w.after < r /\ r <= w.max => r \in DueRooms(w)
    BY <1>3, <2>2, <2>3 DEF DueRooms, Walking
  <2>6. /\ listing' \in Walking
        /\ listing'.kind = "rooms" /\ listing'.session = w.session /\ listing'.at = w.at
        /\ listing'.max = w.max /\ w.got \subseteq listing'.got
        /\ \A r \in DueRooms(w) :
             r \in listing'.got \/ (listing'.step = "more" /\ listing'.after < r)
    BY <1>2, <2>2, <2>4, <2>5, PageKeeps
  <2>7. Rows(HolderOf[listing.session])' = rows /\ UNCHANGED announced
    BY <1>1, <2>3, <2>6 DEF Rows, RoomIds, store
  <2>8. \A r \in rows : r \in listing'.got \/ announced'[r] > listing'.at \/ Ahead(r)'
    BY <2>4, <2>5, <2>6, <2>7 DEF Ahead
  <2>9. listing'.at <= position'
    BY <1>1, <2>4, <2>6 DEF store
  <2> QED
    BY <2>6, <2>7, <2>8, <2>9 DEF ListOK, Walking
<1>7. ASSUME NEW w \in Walking, w.kind = "users", w.max <= Len(users),
             TakePage(w, DueUsers(w), 0),
             \A i \in 1..w.max : ServerOf[users[i]] = ServerOf[HolderOf[w.session]] =>
               i \in w.got \/ w.after < i
      PROVE  ListOK'
  <2>1. w.max \in Nat /\ w.after \in Nat
    BY DEF Walking
  <2>2. /\ DueUsers(w) \subseteq 1..Len(users)
        /\ \A i \in DueUsers(w) : w.after < i
        /\ \A i \in 1..w.max :
             ServerOf[users[i]] = ServerOf[HolderOf[w.session]] /\ w.after < i => i \in DueUsers(w)
    BY <1>2, <1>7, <2>1 DEF DueUsers
  <2>3. /\ listing' \in Walking
        /\ listing'.kind = "users" /\ listing'.session = w.session
        /\ listing'.max = w.max /\ w.got \subseteq listing'.got
        /\ \A i \in DueUsers(w) :
             i \in listing'.got \/ (listing'.step = "more" /\ listing'.after < i)
    BY <1>2, <1>7, <2>2, PageKeeps
  <2>4. UNCHANGED users
    BY <1>1 DEF identity
  <2>5. \A i \in 1..w.max : ServerOf[users[i]] = ServerOf[HolderOf[w.session]] =>
          i \in listing'.got \/ Ahead(i)'
    BY <1>7, <2>1, <2>2, <2>3 DEF Ahead
  <2> QED
    BY <1>7, <2>3, <2>4, <2>5 DEF ListOK, Walking
<1>8. ASSUME ListUsers
      PROVE  ListOK'
  <2>1. CASE listing = NoList
    <3>s. PICK s \in SessionIds :
            LET w == Walk("users", s, Len(users)) IN TakePage(w, DueUsers(w), 0)
      BY <1>8, <2>1 DEF ListUsers, NoList
    <3>1. PICK w : w = Walk("users", s, Len(users)) /\ TakePage(w, DueUsers(w), 0)
      BY <3>s
    <3>2. /\ w \in Walking /\ w.kind = "users" /\ w.max = Len(users) /\ w.after = 0 /\ w.got = {}
      BY <1>2, <3>1 DEF Walk, Walking
    <3> QED
      BY <1>2, <1>7, <3>1, <3>2
  <2>2. CASE listing.step = "more" /\ listing.kind = "users" /\ TakePage(listing, DueUsers(listing), 0)
    <3>1. PICK w : w = listing
      OBVIOUS
    <3>2. w \in Walking /\ w.kind = "users" /\ TakePage(w, DueUsers(w), 0) /\ w.step = "more"
      BY <2>2, <3>1 DEF IInv, ListOK, NoList
    <3>3. /\ w.max <= Len(users)
          /\ \A i \in 1..w.max : ServerOf[users[i]] = ServerOf[HolderOf[w.session]] =>
               i \in w.got \/ w.after < i
      BY <3>1, <3>2 DEF IInv, ListOK, Ahead
    <3> QED
      BY <1>7, <3>2, <3>3
  <2> QED
    BY <1>8, <2>1, <2>2 DEF ListUsers
<1>9. ASSUME ListRefused
      PROVE  ListOK'
  <2>1. listing' = NoList /\ NoList \notin Walking
    BY <1>9 DEF ListRefused, NoList, Walking
  <2> QED
    BY <2>1 DEF ListOK, Walking, NoList
<1> QED
  BY <1>4, <1>5, <1>6, <1>8, <1>9 DEF IInv
-----------------------------------------------------------------------------
LEMMA Start ==
  ASSUME Init
  PROVE  IInv
<1>1. /\ rooms = <<>> /\ requests = {} /\ messages = <<>> /\ position = 0 /\ announced = <<>>
      /\ listing = NoList
      /\ \A c \in Calls : calls[c] = NoCall /\ calls[c].step = "free" /\ answers[c] = Null
      /\ \A r \in 1..MaxRooms, u \in Accounts : reads[r][u] = 0
  BY DEF Init, NoCall
<1>2. SessionsTypeOK
  <2>1. \A s \in SessionIds :
          (IF HolderOf[s] \in Range(Veterans) THEN "active" ELSE "none") \in {"none", "active", "over"}
    OBVIOUS
  <2> QED
    BY <2>1, SessionAssumption DEF Init, SessionsInit, SessionsTypeOK
<1>3. TypeOK
  <2>1. reads \in [1..MaxRooms -> [Accounts -> 0..MaxMessages]]
    <3>1. 0 \in 0..MaxMessages
      BY RoomsAssumption
    <3> QED
      BY <3>1 DEF Init
  <2>2. calls \in [Calls -> {NoCall} \cup CreateCall \cup ReadCall]
    BY DEF Init
  <2>3. answers \in [Calls -> Answers]
    BY DEF Init, Answers
  <2>4. /\ rooms \in Seq(What) /\ Len(rooms) <= MaxRooms /\ messages \in Seq(1..MaxRooms)
        /\ Len(messages) <= MaxMessages /\ position \in Nat
        /\ announced \in Seq(1..position) /\ Len(announced) = Len(rooms)
    BY <1>1, RoomsAssumption
  <2> QED
    BY <1>1, <1>2, <2>1, <2>2, <2>3, <2>4 DEF TypeOK
<1>4. RowsOK
  BY <1>1 DEF RowsOK, RoomIds
<1>5. CreationsOK
  BY <1>1 DEF CreationsOK, Granted
<1>6. ReadsOK
  <2>1. \A r \in 1..MaxRooms, u \in Accounts : Told(r, u) = {0}
    BY <1>1 DEF Told, Readers, Granted
  <2>2. \A c \in Calls : ~Granted(c, "read")
    BY <1>1 DEF Granted
  <2> QED
    BY <1>1, <2>1, <2>2 DEF ReadsOK
<1>7. ListOK
  BY <1>1 DEF ListOK, NoList, Walking
<1> QED
  BY <1>3, <1>4, <1>5, <1>6, <1>7 DEF IInv

LEMMA Steps ==
  ASSUME IInv, [Next]_vars
  PROVE  IInv'
<1>1. CASE UNCHANGED vars
  <2>1. UNCHANGED <<rooms, requests, messages, reads, position, announced, calls, answers,
                    listing, users, sessions>>
    BY <1>1 DEF vars, store, identity
  <2>2. ListOK'
    BY <2>1, WalkGoesOn DEF IInv, TypeOK
  <2> QED
    BY <2>1, <2>2, StillQuiet, QuietKeeps DEF IInv, TypeOK, SessionsTypeOK
<1>2. ASSUME NEW c \in Calls, AskCreate(c) \/ Create(c) \/ AskRead(c) \/ Read(c)
      PROVE  IInv'
  BY <1>2, AskCreateKeeps, CreateKeeps, AskReadKeeps, ReadKeeps
<1> QED
  BY <1>1, <1>2, PeopleKeeps, ListKeeps, PostKeeps, CrashKeeps DEF Next

\* The types, and what relates the rows, the answers, the positions and the walks
\* (create, advance, list).
THEOREM Inductive == Spec => []IInv
<1>1. Init => IInv
  BY Start
<1>2. IInv /\ [Next]_vars => IInv'
  BY Steps
<1> QED
  BY <1>1, <1>2, PTL DEF Spec

\* The state keeps its types, and each conversation its event.
THEOREM Types == Spec => []TypeOK
BY Inductive, PTL DEF IInv

\* However requests are repeated and interleaved, a pair of users has one conversation and
\* a group's request makes one (create).
THEOREM CreatedOnce == Spec => []AskedOnce
<1>1. ASSUME IInv
      PROVE  AskedOnce
  <2>1. \A r, q \in RoomIds : rooms[r].kind = "direct" /\ rooms[r] = rooms[q] => r = q
    BY <1>1 DEF IInv, RowsOK
  <2>2. \A c \in Calls : Granted(c, "create") => rooms[answers[c].room] = calls[c].what
    BY <1>1 DEF IInv, CreationsOK
  <2>3. ASSUME NEW c \in Calls, NEW d \in Calls, Granted(c, "create"), Granted(d, "create"),
               From(calls[c]) = From(calls[d]), calls[c].key = calls[d].key,
               calls[c].what.kind = "group", calls[d].what.kind = "group"
        PROVE  answers[c].room = answers[d].room
    <3>1. PICK t \in requests :
            t.from = From(calls[c]) /\ t.key = calls[c].key /\ t.room = answers[c].room
      BY <1>1, <2>3 DEF IInv, CreationsOK
    <3>2. PICK u \in requests :
            u.from = From(calls[d]) /\ u.key = calls[d].key /\ u.room = answers[d].room
      BY <1>1, <2>3 DEF IInv, CreationsOK
    <3>3. t = u
      BY <1>1, <2>3, <3>1, <3>2 DEF IInv, RowsOK
    <3> QED
      BY <3>1, <3>2, <3>3
  <2>4. ASSUME NEW c \in Calls, NEW d \in Calls, Granted(c, "create"), Granted(d, "create"),
               answers[c].room = answers[d].room, answers[c].created, answers[d].created
        PROVE  c = d
    BY <1>1, <2>4 DEF IInv, CreationsOK
  <2> QED
    BY <2>1, <2>2, <2>3, <2>4 DEF AskedOnce
<1> QED
  BY <1>1, Inductive, PTL

\* A read position is the furthest any device was told, in whatever order they ask (advance).
THEOREM ReadsFurthest == Spec => []ReadsHeld
<1>1. ASSUME IInv, NEW r \in RoomIds, NEW u \in Accounts
      PROVE  reads[r][u] = Max(Told(r, u))
  <2>1. r \in 1..MaxRooms
    BY <1>1, RoomsAssumption DEF IInv, TypeOK, RoomIds
  <2>2. reads[r][u] \in Told(r, u) /\ \A m \in Told(r, u) : m <= reads[r][u]
    BY <1>1, <2>1 DEF IInv, ReadsOK
  <2>3. Told(r, u) \subseteq Nat
    <3>1. \A d \in Readers(r, u) : answers[d] \in ReadOkay
      BY <1>1 DEF Readers, IInv, ReadsOK
    <3>2. \A d \in Readers(r, u) : answers[d].upto \in Nat
      BY <3>1 DEF ReadOkay
    <3> QED
      BY <3>2 DEF Told
  <2> QED
    BY <2>2, <2>3, MaxOnly
<1>2. IInv => ReadsHeld
  BY <1>1 DEF ReadsHeld, Told, Readers
<1> QED
  BY <1>2, Inductive, PTL

\* A finished walk through the pages leaves nothing out, whatever is added between them
\* (list, listSameServer).
THEOREM WalksCover == Spec => []ListingCovers
<1>1. ASSUME IInv, listing.step = "done", listing.kind = "rooms"
      PROVE  Rows(HolderOf[listing.session]) \subseteq
               listing.got \cup {r \in RoomIds : announced[r] > listing.at}
  <2>1. listing \in Walking
    BY <1>1 DEF IInv, ListOK, NoList
  <2>2. \A r \in Rows(HolderOf[listing.session]) : r \in listing.got \/ announced[r] > listing.at
    BY <1>1, <2>1 DEF IInv, ListOK, Ahead
  <2> QED
    BY <2>2 DEF Rows
<1>2. ASSUME IInv, listing.step = "done", listing.kind # "rooms"
      PROVE  {i \in 1..listing.max : ServerOf[users[i]] = ServerOf[HolderOf[listing.session]]}
               \subseteq listing.got
  <2>1. listing \in Walking
    BY <1>2 DEF IInv, ListOK, NoList
  <2>2. listing.kind = "users"
    BY <1>2, <2>1 DEF Walking
  <2> QED
    BY <1>2, <2>1, <2>2 DEF IInv, ListOK, Ahead
<1>3. IInv => ListingCovers
  BY <1>1, <1>2 DEF ListingCovers
<1> QED
  BY <1>3, Inductive, PTL

\* No read position moves for a session that is over, nor outside its user's
\* conversations (recheckMember).
THEOREM OnlyMembersRead == Spec => EndedMovesNothing
<1>1. ASSUME IInv, [Next]_vars, NEW c \in Calls, ~Granted(c, "read"), Granted(c, "read")'
      PROVE  Active(calls[c].session) /\ From(calls[c]) \in rooms[calls[c].room].members
  <2>1. ~Quiet
    BY <1>1 DEF Quiet
  <2>2. ~UNCHANGED <<calls, answers>>
    BY <2>1, StillQuiet
  <2>3. PICK d \in Calls : AskCreate(d) \/ Create(d) \/ AskRead(d) \/ Read(d) \/ Crash
    BY <1>1, <2>2 DEF Next, vars, People, ListFirst, ListMore, ListUsers, ListRefused, Post
  <2>4. CASE AskCreate(d) \/ AskRead(d) \/ Crash
    <3>1. UNCHANGED answers /\ \A x \in Calls : calls[x].step = "answered" => calls'[x] = calls[x]
      <4>1. CASE AskCreate(d) \/ AskRead(d)
        <5>1. /\ UNCHANGED answers /\ calls[d] = NoCall /\ NoCall.step = "free"
              /\ \A x \in Calls \ {d} : calls'[x] = calls[x]
          BY <1>1, <4>1 DEF AskCreate, AskRead, NoCall, IInv, TypeOK
        <5> QED
          BY <5>1
      <4>2. CASE Crash
        BY <4>2 DEF Crash
      <4> QED
        BY <2>4, <4>1, <4>2
    <3>2. TypeOK /\ TypeOK'
      BY <1>1, Steps DEF IInv
    <3>3. calls'[c].step = "answered" /\ calls[c].step = "answered"
      BY <1>1, <3>1, <3>2 DEF Granted, TypeOK
    <3> QED
      BY <1>1, <3>1, <3>3 DEF Granted
  <2>5. ASSUME NEW a, Answer(d, a), calls[d].step = "asked"
        PROVE  c = d /\ answers'[c] = a /\ calls'[c].op = calls[c].op
    <3>1. TypeOK /\ calls[d] \in CreateCall \cup ReadCall
      BY <1>1, <2>5, AskedTyped DEF IInv
    <3> QED
      BY <1>1, <2>5, <3>1, Answered DEF Granted
  <2>6. CASE Create(d)
    <3>1. PICK a : Answer(d, a)
      BY <2>6 DEF Create
    <3> QED
      BY <1>1, <2>5, <2>6, <3>1 DEF Create, Granted
  <2>7. CASE Read(d)
    <3>1. calls[d].step = "asked"
      BY <2>7 DEF Read
    <3>2. ~Answer(d, Refused)
      BY <1>1, <2>5, <3>1, RefusedTyped DEF Granted
    <3>3. Recheck(calls[d].session, calls[d].room) /\ \E a : Answer(d, a)
      BY <2>7, <3>2 DEF Read
    <3>4. c = d
      BY <2>5, <3>1, <3>3
    <3> QED
      BY <3>3, <3>4 DEF Recheck, Rows, From
  <2> QED
    BY <2>3, <2>4, <2>6, <2>7
<1>2. IInv /\ [Next]_vars =>
        [\A c \in Calls : ~Granted(c, "read") /\ Granted(c, "read")' =>
           /\ Active(calls[c].session)
           /\ From(calls[c]) \in rooms[calls[c].room].members]_vars
  BY <1>1
<1> QED
  BY <1>2, Inductive, PTL DEF Spec, EndedMovesNothing
=============================================================================
