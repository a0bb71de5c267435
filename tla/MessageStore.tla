---------------------------- MODULE MessageStore ----------------------------
(***************************************************************************)
(* The message tables of one server and one sender, and the retention      *)
(* batch that ages them: messages.create with its deduplication by         *)
(* clientMessageId, and retention.processBatch, which in one transaction   *)
(* expires message contents, drops old tombstones and deduplication rows,  *)
(* schedules expired files for deletion and drops their references.        *)
(*                                                                         *)
(* Every handler runs as one synchronous SQLite transaction, so each is    *)
(* one action. Time is counted in days. Rows are only ever created by      *)
(* accepted requests, so the row count is bounded by Keys.                 *)
(***************************************************************************)
EXTENDS Integers, FiniteSets, Sequences

CONSTANTS
  Keys,          \* clientMessageIds the sender uses
  Conversations, \* conversations the sender is a member of
  Texts,         \* normalised message texts
  Files,         \* identifiers of the sender's uploads, ordered like numbers
  MessageDays,   \* a message keeps its content this long (5)
  FileDays,      \* a file, and a tombstone, is kept this long (14)
  DedupDays,     \* a deduplication row outlives the content by this (30)
  RetryDays,     \* a client retries a send for this long (7)
  Limit,         \* rows one retention batch takes (100)
  MaxTime,       \* bound on the clock
  Null           \* SQL NULL

ASSUME DaysAssumption ==
  /\ MessageDays \in Nat /\ FileDays \in Nat /\ DedupDays \in Nat
  /\ RetryDays \in Nat
  /\ Limit \in Nat \ {0} /\ MaxTime \in Nat
  /\ Files \subseteq Nat \ {0}
  /\ Null \notin Nat /\ Null \notin Texts

\* What makes deduplication outlive every retry: 7 < 5 + 30 in the code.
ASSUME RetryAssumption == RetryDays < MessageDays + DedupDays

VARIABLES
  now,           \* the clock, in days
  lastId,        \* AUTOINCREMENT of messages
  messages,      \* messages: id -> row; content_expired is text = Null, which
                 \* the table's CHECK makes the same
  dedup,         \* message_dedup: key -> row
  refs,          \* message_files: <<message, file>>
  files,         \* files, as far as messages see them
  lastMessageAt, \* conversations.last_message_at
  outbox,        \* the events appended to the outbox, in order
  mprog, fprog,  \* retention_progress of the two kinds, Null before the first
  born,          \* when a client first used the key (the retry window)
  accepted       \* history: the request a key was accepted for, and its id

tables == <<lastId, messages, dedup, refs, files, lastMessageAt, outbox>>
progress == <<mprog, fprog>>
clients == <<born, accepted>>
vars == <<now, tables, progress, clients>>

Requests == [conv : Conversations, text : Texts, files : SUBSET Files]
-----------------------------------------------------------------------------
(* Sending *)

Live(f) == files[f].state = "attached" /\ files[f].created + FileDays > now

BoundTo(m) == {f \in Files : <<m, f>> \in refs}

\* Seeded bug: the state of the named files is not looked at.
BindableAgain(r) == \A f \in r.files : files[f].conv = r.conv

\* bind(): every named file is ready, and of the same conversation.
Bindable(r) ==
  \A f \in r.files : files[f].state = "ready" /\ files[f].conv = r.conv

\* Seeded bug: a row whose message is gone is taken for no row.
OutcomeForgetful(k, r) ==
  IF k \in DOMAIN dedup /\ dedup[k].msg # Null THEN "message_expired"
  ELSE IF Bindable(r) THEN "created" ELSE "not_found"

\* The answer create() gives to request r under key k.
Outcome(k, r) ==
  IF k \in DOMAIN dedup
  THEN LET d == dedup[k]
           lost == d.msg = Null \/ d.msg \notin DOMAIN messages
       IN CASE d.conv # r.conv                  -> "conflict"
            [] d.conv = r.conv /\ (lost \/ d.expiredAt # Null)
                                                -> "message_expired"
            [] OTHER ->
               IF messages[d.msg].text = Null THEN "message_expired"
               ELSE IF messages[d.msg].text = r.text /\ BoundTo(d.msg) = r.files
               THEN "existing" ELSE "conflict"
  ELSE IF Bindable(r) THEN "created" ELSE "not_found"

\* The client sends under a key for RetryDays after its first use, and names
\* uploads it has made, however long ago.
MaySend(k, r) ==
  /\ born[k] # Null => now <= born[k] + RetryDays
  /\ \A f \in r.files : files[f].state # "absent"

Used(k) == born' = [born EXCEPT ![k] = IF @ = Null THEN now ELSE @]

\* create(), the path that inserts.
CreateNew(k, r) ==
  LET id == lastId + 1
      row == [key |-> k, conv |-> r.conv, text |-> r.text, created |-> now]
  IN /\ MaySend(k, r)
     /\ Outcome(k, r) = "created"
     /\ lastId' = id
     /\ messages' = [m \in DOMAIN messages \cup {id} |->
                       IF m = id THEN row ELSE messages[m]]
     /\ dedup' = [x \in DOMAIN dedup \cup {k} |->
                    IF x = k
                    THEN [conv |-> r.conv, msg |-> id, expiredAt |-> Null]
                    ELSE dedup[x]]
     /\ refs' = refs \cup {<<id, f>> : f \in r.files}
     /\ files' = [f \in Files |->
                    IF f \in r.files
                    THEN [files[f] EXCEPT !.state = "attached", !.msg = id]
                    ELSE files[f]]
     /\ lastMessageAt' = [lastMessageAt EXCEPT ![r.conv] =
                            IF @ = Null \/ @ < now THEN now ELSE @]
     /\ outbox' = Append(outbox, [type |-> "created", msg |-> id])
     /\ accepted' = [accepted EXCEPT ![k] = [id |-> id, req |-> r]]
     /\ Used(k)
     /\ UNCHANGED <<now, progress>>

\* create(), every path that leaves the tables alone (200, 404, 409, 410).
CreateAgain(k, r) ==
  /\ MaySend(k, r)
  /\ Outcome(k, r) # "created"
  /\ Used(k)
  /\ UNCHANGED <<now, tables, progress, accepted>>

\* An upload that reached 'ready'.
Upload(f, c) ==
  /\ files[f].state = "absent"
  /\ files' = [files EXCEPT ![f] =
                 [state |-> "ready", conv |-> c, msg |-> Null, created |-> now]]
  /\ UNCHANGED <<now, lastId, messages, dedup, refs, lastMessageAt, outbox,
                 progress, clients>>
-----------------------------------------------------------------------------
(* Retention: the parts of a batch, over a store [messages, dedup, refs] *)

Lowest(S, n) == {x \in S : Cardinality({y \in S : y < x}) < n}

Last(S, otherwise) ==
  LET top == {x \in S : \A y \in S : y <= x}
  IN IF top = {} THEN otherwise ELSE CHOOSE x \in top : TRUE

\* The ascending enumerations of S (there is exactly one).
Ascending(S) ==
  {s \in [1..Cardinality(S) -> S] :
     \A i, j \in 1..Cardinality(S) : i < j => s[i] < s[j]}

DropDeadRefs(s, ids) ==
  [messages |-> s.messages, dedup |-> s.dedup,
   refs |-> {r \in s.refs : r[1] \in ids => Live(r[2])}]

Bare(s, ids) == {m \in ids : \A r \in s.refs : r[1] # m}

\* A tombstone goes: its row, and the pointer its deduplication row keeps.
RemoveTombstones(s, ids) ==
  [messages |-> [m \in DOMAIN s.messages \ ids |-> s.messages[m]],
   dedup |-> [k \in DOMAIN s.dedup |->
                IF s.dedup[k].msg \in ids
                THEN [s.dedup[k] EXCEPT !.msg = Null] ELSE s.dedup[k]],
   refs |-> s.refs]

ForgetDedups(s, keys) ==
  [messages |-> s.messages, refs |-> s.refs,
   dedup |-> [k \in DOMAIN s.dedup \ keys |-> s.dedup[k]]]

\* Seeded bug: the 30 days are not waited for.
OldDedupsAtOnce(s) ==
  {k \in DOMAIN s.dedup : s.dedup[k].expiredAt # Null /\ s.dedup[k].msg = Null}

\* Seeded bug: rows whose message is still there are taken too.
OldDedupsInUse(s) ==
  {k \in DOMAIN s.dedup :
     s.dedup[k].expiredAt # Null /\ s.dedup[k].expiredAt + DedupDays <= now}

OldDedups(s) ==
  {k \in DOMAIN s.dedup :
     /\ s.dedup[k].expiredAt # Null
     /\ s.dedup[k].expiredAt + DedupDays <= now
     /\ s.dedup[k].msg = Null}

OldTombstones(s) ==
  {m \in DOMAIN s.messages :
     s.messages[m].text = Null /\ s.messages[m].created + FileDays <= now}

\* Seeded bug: the content_expired=0 condition is dropped.
DueMessagesAgain(s, cursor) ==
  {m \in DOMAIN s.messages :
     s.messages[m].created <= cursor.cut /\ m > cursor.after}

DueMessages(s, cursor) ==
  {m \in DOMAIN s.messages :
     /\ s.messages[m].text # Null
     /\ s.messages[m].created <= cursor.cut
     /\ m > cursor.after}

\* Seeded bug: files go one day early.
DueFilesEarly(cursor) ==
  {f \in Files :
     /\ files[f].state \in {"ready", "attached"}
     /\ files[f].created <= cursor.cut + 1
     /\ f > cursor.after}

DueFiles(cursor) ==
  {f \in Files :
     /\ files[f].state \in {"ready", "attached"}
     /\ files[f].created <= cursor.cut
     /\ f > cursor.after}

ExpireContent(s, ids) ==
  DropDeadRefs(
    [messages |-> [m \in DOMAIN s.messages |->
                     IF m \in ids
                     THEN [s.messages[m] EXCEPT !.text = Null]
                     ELSE s.messages[m]],
     dedup |-> [k \in DOMAIN s.dedup |->
                  IF /\ s.dedup[k].expiredAt = Null
                     /\ \E m \in ids : s.messages[m].key = k
                  THEN [s.dedup[k] EXCEPT !.expiredAt = now] ELSE s.dedup[k]],
     refs |-> s.refs],
    ids)

\* Seeded bug: the references a message still has are not looked at.
ExpireReferencesEager(s, fs) ==
  RemoveTombstones([s EXCEPT !.refs = {r \in @ : r[2] \notin fs}],
    {m \in DOMAIN s.messages :
       s.messages[m].text = Null /\ \E f \in fs : <<m, f>> \in s.refs})

\* expireFileReference() for each file the batch scheduled for deletion: a
\* message whose content is gone leaves with its last reference.
ExpireReferences(s, fs) ==
  LET left == [messages |-> s.messages, dedup |-> s.dedup,
               refs |-> {r \in s.refs : r[2] \notin fs}]
      touched == {m \in DOMAIN s.messages : \E f \in fs : <<m, f>> \in s.refs}
      over == {m \in touched : s.messages[m].text = Null}
  IN RemoveTombstones(left, Bare(left, over))

Cursor(prog, d) == IF prog = Null THEN [after |-> 0, cut |-> now - d] ELSE prog

\* purgeBatch(): old tombstones and deduplication rows go, then the messages due
\* lose their content. The candidate rows are read before anything changes.
Purged(s, due, stale) ==
  LET old == Lowest(OldTombstones(s), Limit)
      bare == DropDeadRefs(s, old)
  IN ExpireContent(ForgetDedups(RemoveTombstones(bare, Bare(bare, old)), stale), due)

\* The deduplication rows a batch may forget: those that are old once the
\* tombstones went, Limit of them at most.
Forgettable(s) ==
  LET old == Lowest(OldTombstones(s), Limit)
      bare == DropDeadRefs(s, old)
      all == OldDedups(RemoveTombstones(bare, Bare(bare, old)))
  IN {stale \in SUBSET all :
        /\ Cardinality(stale) <= Limit
        /\ stale # all => Cardinality(stale) = Limit}

\* The cursor a batch leaves for the next one.
NextMessages(s, cursor, last) ==
  IF \/ DueMessages(s, [cursor EXCEPT !.after = last]) # {}
     \/ OldTombstones(s) # {}
     \/ OldDedups(s) # {}
  THEN [after |-> last, cut |-> cursor.cut]
  ELSE [after |-> 0, cut |-> now - MessageDays]

\* Seeded bug: the file cursor never returns to the start.
NextFilesOnward(cursor, last) ==
  [after |-> last,
   cut |-> IF Cardinality(DueFiles(cursor)) > Limit THEN cursor.cut
           ELSE now - FileDays]

NextFiles(cursor, last) ==
  IF Cardinality(DueFiles(cursor)) > Limit
  THEN [after |-> last, cut |-> cursor.cut]
  ELSE [after |-> 0, cut |-> now - FileDays]

\* processBatch(): one transaction over both kinds. (\E over a singleton names a
\* value that TLC then computes once.)
RetentionBatch ==
  \E s \in {[messages |-> messages, dedup |-> dedup, refs |-> refs]},
     mcursor \in {Cursor(mprog, MessageDays)},
     fcursor \in {Cursor(fprog, FileDays)} :
  \E due \in {Lowest(DueMessages(s, mcursor), Limit)},
     fdue \in {Lowest(DueFiles(fcursor), Limit)} :
  \E stale \in Forgettable(s), order \in Ascending(due) :
  \E purged \in {Purged(s, due, stale)} :
  \E left \in {ExpireReferences(purged, fdue)} :
    /\ messages' = left.messages
    /\ dedup' = left.dedup
    /\ refs' = left.refs
    /\ files' = [f \in Files |->
                   IF f \in fdue THEN [files[f] EXCEPT !.state = "deleting"]
                   ELSE files[f]]
    /\ outbox' = outbox \o
         [i \in 1..Cardinality(due) |-> [type |-> "deleted", msg |-> order[i]]]
    /\ mprog' = NextMessages(purged, mcursor, Last(due, mcursor.after))
    /\ fprog' = NextFiles(fcursor, Last(fdue, fcursor.after))
    /\ UNCHANGED <<now, lastId, lastMessageAt, clients>>
-----------------------------------------------------------------------------
Tick ==
  /\ now < MaxTime
  /\ now' = now + 1
  /\ UNCHANGED <<tables, progress, clients>>

Init ==
  /\ now = 0
  /\ lastId = 0
  /\ messages = [m \in {} |-> Null]
  /\ dedup = [k \in {} |-> Null]
  /\ refs = {}
  /\ files = [f \in Files |->
                [state |-> "absent", conv |-> Null, msg |-> Null, created |-> 0]]
  /\ lastMessageAt = [c \in Conversations |-> Null]
  /\ outbox = <<>>
  /\ mprog = Null
  /\ fprog = Null
  /\ born = [k \in Keys |-> Null]
  /\ accepted = [k \in Keys |-> Null]

Next ==
  \/ Tick
  \/ RetentionBatch
  \/ \E k \in Keys, r \in Requests : CreateNew(k, r) \/ CreateAgain(k, r)
  \/ \E f \in Files, c \in Conversations : Upload(f, c)

Spec == Init /\ [][Next]_vars

\* maintain() runs the batch every minute.
FairSpec == Spec /\ WF_vars(RetentionBatch)
-----------------------------------------------------------------------------
(* Properties *)

\* The rows have the columns the schema declares, and message_files its UNIQUE
\* file: bind() never attaches a file to a second message.
Row == [key : Keys, conv : Conversations, text : Texts \cup {Null},
        created : Nat]
DedupRow == [conv : Conversations, msg : Nat \cup {Null},
             expiredAt : Nat \cup {Null}]
FileRow == [state : {"absent", "ready", "attached", "deleting"},
            conv : Conversations \cup {Null}, msg : Nat \cup {Null},
            created : Nat]
CursorRow == [after : Nat, cut : Int]
Event == [type : {"created", "deleted"}, msg : Nat]

TypeOK ==
  /\ now \in Nat
  /\ lastId \in Nat
  /\ DOMAIN messages \subseteq 1..lastId
  /\ messages \in [DOMAIN messages -> Row]
  /\ DOMAIN dedup \subseteq Keys
  /\ dedup \in [DOMAIN dedup -> DedupRow]
  /\ refs \subseteq (1..lastId) \X Files
  /\ \A q, r \in refs : q[2] = r[2] => q = r
  /\ files \in [Files -> FileRow]
  /\ lastMessageAt \in [Conversations -> Nat \cup {Null}]
  /\ outbox \in Seq(Event)
  /\ mprog \in CursorRow \cup {Null}
  /\ fprog \in CursorRow \cup {Null}
  /\ born \in [Keys -> Nat \cup {Null}]
  /\ accepted \in [Keys -> [id : Nat, req : Requests] \cup {Null}]

\* A clientMessageId that was accepted is not accepted again while a client may
\* still retry it, whatever the batches removed in between: the deduplication row
\* is there for the whole retry window (messages.create, purgeBatch).
AtMostOnce ==
  \A k \in Keys :
    accepted[k] # Null /\ now <= born[k] + RetryDays => k \in DOMAIN dedup

\* The foreign keys and unique indexes that the batch's statements rely on: a
\* message row has a deduplication row of its key that points at it (so expiring
\* and removing it finds the row, and a retry cannot hit UNIQUE on messages), that
\* pointer never dangles, and a file reference names an existing message that the
\* file was bound to.
RowsAgree ==
  /\ \A m \in DOMAIN messages :
       /\ messages[m].key \in DOMAIN dedup
       /\ dedup[messages[m].key].msg = m
       /\ dedup[messages[m].key].expiredAt # Null <=> messages[m].text = Null
  /\ \A k \in DOMAIN dedup :
       IF dedup[k].msg = Null THEN dedup[k].expiredAt # Null
       ELSE dedup[k].msg \in DOMAIN messages /\ messages[dedup[k].msg].key = k
  /\ \A r \in refs : r[1] \in DOMAIN messages /\ files[r[2]].msg = r[1]

\* While an attached file can still be downloaded, the message it hangs on (its
\* tombstone, once the content expired) and the reference between them exist.
LiveFileKeepsMessage ==
  \A f \in Files : Live(f) =>
    files[f].msg \in DOMAIN messages /\ <<files[f].msg, f>> \in refs

\* The batch took the file, whose days were over.
Taken(f) == files[f].state = "deleting" /\ files[f].created + FileDays <= now

\* Sending the accepted request again gives the accepted message, message_expired once
\* its content is gone, or a conflict, but that only when one of its attachments is past
\* its days and the batch took it (create's comparison of `bound` with `ids`).
IdenticalRetryAnswers ==
  \A k \in Keys : accepted[k] # Null =>
    LET r == accepted[k].req
    IN MaySend(k, r) =>
         \/ Outcome(k, r) = "message_expired"
         \/ Outcome(k, r) = "existing" /\ dedup[k].msg = accepted[k].id
         \/ Outcome(k, r) = "conflict" /\ \E f \in r.files : Taken(f)

\* The outbox tells each message's story once and in order: one creation, and one
\* deletion after it exactly when the content has gone. A batch that ran twice over
\* a row, or skipped one, would show here.
EventsTellLifecycle ==
  LET at(type, m) == {i \in DOMAIN outbox : outbox[i] = [type |-> type, msg |-> m]}
      visible(m) == m \in DOMAIN messages /\ messages[m].text # Null
  IN /\ \A i, j \in DOMAIN outbox : outbox[i] = outbox[j] => i = j
     /\ \A m \in 1..lastId :
          /\ at("created", m) # {}
          /\ at("deleted", m) = {} <=> visible(m)
          /\ \A i \in at("created", m), j \in at("deleted", m) : i < j

\* What became of a key's message.
Phase(k) ==
  IF accepted[k] = Null THEN "new"
  ELSE IF accepted[k].id \notin DOMAIN messages THEN "gone"
  ELSE IF messages[accepted[k].id].text = Null THEN "expired" ELSE "live"

Ledger == INSTANCE MessageLedger WITH ledger <- [k \in Keys |-> Phase(k)]

\* The store implements the ledger: one acceptance per key, content expires before
\* the row goes, and nothing comes back.
ImplementsLedger == Ledger!LedgerSpec

\* Whatever is past its days: content, tombstones, deduplication rows, files.
NothingDue ==
  /\ \A m \in DOMAIN messages :
       /\ messages[m].text # Null => messages[m].created + MessageDays > now
       /\ messages[m].created + FileDays > now
  /\ OldDedups([dedup |-> dedup]) = {}
  /\ \A f \in Files : files[f].state \in {"ready", "attached"} =>
       files[f].created + FileDays > now

\* Nothing that is due stays for ever, although a batch takes Limit rows, keeps its
\* cutoff while it has more to do and only restarts at id 0 when it has not: whenever
\* the clock leaves the batches the time, everything due drains (processBatch).
RetentionDrains == []<>NothingDue
=============================================================================
