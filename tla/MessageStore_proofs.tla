------------------------ MODULE MessageStore_proofs ------------------------
(***************************************************************************)
(* For all values of the constants: the tables keep their types and their  *)
(* foreign keys, a clientMessageId is accepted at most once as long as     *)
(* RetryDays < MessageDays + DedupDays, a live file keeps its message, the *)
(* store implements the ledger, the outbox tells each message's story once *)
(* and in order, and a retried send gets the answer of the first.          *)
(***************************************************************************)
EXTENDS MessageStore, SequenceTheorems, FiniteSetTheorems, TLAPS

Store == [messages |-> messages, dedup |-> dedup, refs |-> refs]

\* The typing of a store.
StoreTyped(s) ==
  /\ DOMAIN s.messages \subseteq 1..lastId
  /\ s.messages \in [DOMAIN s.messages -> Row]
  /\ DOMAIN s.dedup \subseteq Keys
  /\ s.dedup \in [DOMAIN s.dedup -> DedupRow]
  /\ s.refs \subseteq (1..lastId) \X Files

\* RowsAgree, of a store a batch is working on.
StoreAgrees(s) ==
  /\ \A m \in DOMAIN s.messages :
       /\ s.messages[m].key \in DOMAIN s.dedup
       /\ s.dedup[s.messages[m].key].msg = m
       /\ s.dedup[s.messages[m].key].expiredAt # Null <=> s.messages[m].text = Null
  /\ \A k \in DOMAIN s.dedup :
       IF s.dedup[k].msg = Null THEN s.dedup[k].expiredAt # Null
       ELSE /\ s.dedup[k].msg \in DOMAIN s.messages
            /\ s.messages[s.dedup[k].msg].key = k
  /\ \A r \in s.refs : r[1] \in DOMAIN s.messages /\ files[r[2]].msg = r[1]

\* Rows are not younger than the first use of their key, content expires
\* MessageDays later at the earliest, and a deduplication row is only missing
\* once the retry window of its key has closed.
StoreAged(s) ==
  /\ \A m \in DOMAIN s.messages :
       /\ born[s.messages[m].key] # Null
       /\ born[s.messages[m].key] <= s.messages[m].created
       /\ s.messages[m].created <= now
  /\ \A k \in DOMAIN s.dedup :
       /\ born[k] # Null
       /\ s.dedup[k].expiredAt # Null =>
            born[k] + MessageDays <= s.dedup[k].expiredAt
  /\ \A k \in Keys : accepted[k] # Null =>
       born[k] # Null /\ (k \in DOMAIN s.dedup \/ born[k] + RetryDays < now)

StoreOK(s) == StoreTyped(s) /\ StoreAgrees(s) /\ StoreAged(s)

IInv ==
  /\ TypeOK
  /\ StoreOK(Store)
  /\ \A r \in refs : files[r[2]].state \in {"attached", "deleting"}
  /\ mprog # Null => mprog.cut + MessageDays <= now
  /\ \A k \in Keys : born[k] # Null => born[k] <= now

USE DaysAssumption
-----------------------------------------------------------------------------
(* What the parts of a batch preserve *)

\* Dropping references to files that are no longer live (purgeBatch, the loops over
\* message_files) keeps a good store good.
LEMMA DropDeadRefsOK ==
  ASSUME NEW s, StoreOK(s), NEW ids
  PROVE  /\ StoreOK(DropDeadRefs(s, ids))
         /\ DropDeadRefs(s, ids).messages = s.messages
         /\ DropDeadRefs(s, ids).refs \subseteq s.refs
  BY DEF StoreOK, StoreTyped, StoreAgrees, StoreAged, DropDeadRefs

\* Removing tombstones that no reference names, with the pointers to them nulled
\* first (purgeBatch, expireFileReference), keeps a good store good.
LEMMA RemoveTombstonesOK ==
  ASSUME NEW s, StoreOK(s), NEW ids \in SUBSET DOMAIN s.messages,
         \A m \in ids : s.messages[m].text = Null /\ \A r \in s.refs : r[1] # m
  PROVE  /\ StoreOK(RemoveTombstones(s, ids))
         /\ RemoveTombstones(s, ids).refs = s.refs
<1> DEFINE t == RemoveTombstones(s, ids)
<1>0. /\ t.messages = [m \in DOMAIN s.messages \ ids |-> s.messages[m]]
      /\ t.dedup = [k \in DOMAIN s.dedup |->
                      IF s.dedup[k].msg \in ids
                      THEN [s.dedup[k] EXCEPT !.msg = Null] ELSE s.dedup[k]]
      /\ t.refs = s.refs
  BY DEF RemoveTombstones
<1> HIDE DEF t
<1>1. StoreTyped(t)
  BY <1>0 DEF StoreOK, StoreTyped, DedupRow
<1>2. StoreAgrees(t)
  <2>1. \A k \in DOMAIN s.dedup :
          /\ s.dedup[k].msg \in ids => t.dedup[k].msg = Null
          /\ s.dedup[k].msg \notin ids => t.dedup[k].msg = s.dedup[k].msg
          /\ t.dedup[k].expiredAt = s.dedup[k].expiredAt
    BY <1>0 DEF StoreOK, StoreTyped, DedupRow
  <2>2. \A m \in DOMAIN t.messages :
          /\ m \in DOMAIN s.messages \ ids
          /\ t.messages[m] = s.messages[m]
    BY <1>0
  <2>3. DOMAIN t.dedup = DOMAIN s.dedup /\ DOMAIN t.messages = DOMAIN s.messages \ ids
    BY <1>0
  <2>4. \A m \in DOMAIN t.messages :
          /\ t.messages[m].key \in DOMAIN t.dedup
          /\ t.dedup[t.messages[m].key].msg = m
          /\ t.dedup[t.messages[m].key].expiredAt # Null <=> t.messages[m].text = Null
    BY <2>1, <2>2, <2>3 DEF StoreOK, StoreAgrees
  <2>5. \A k \in DOMAIN t.dedup :
          IF t.dedup[k].msg = Null THEN t.dedup[k].expiredAt # Null
          ELSE /\ t.dedup[k].msg \in DOMAIN t.messages
               /\ t.messages[t.dedup[k].msg].key = k
    <3> SUFFICES ASSUME NEW k \in DOMAIN s.dedup
                 PROVE  IF t.dedup[k].msg = Null THEN t.dedup[k].expiredAt # Null
                        ELSE /\ t.dedup[k].msg \in DOMAIN t.messages
                             /\ t.messages[t.dedup[k].msg].key = k
      BY <2>3
    <3>1. CASE s.dedup[k].msg \in ids
      <4>1. s.dedup[k].msg # Null /\ s.messages[s.dedup[k].msg].key = k
        BY <3>1 DEF StoreOK, StoreTyped, StoreAgrees
      <4> QED BY <3>1, <4>1, <2>1 DEF StoreOK, StoreAgrees
    <3>2. CASE s.dedup[k].msg \notin ids
      BY <3>2, <2>1, <2>2, <2>3 DEF StoreOK, StoreAgrees
    <3> QED BY <3>1, <3>2
  <2>6. \A r \in t.refs : r[1] \in DOMAIN t.messages /\ files[r[2]].msg = r[1]
    BY <1>0, <2>3 DEF StoreOK, StoreAgrees
  <2> QED BY <2>4, <2>5, <2>6 DEF StoreAgrees
<1>3. StoreAged(t)
  BY <1>0 DEF StoreOK, StoreTyped, StoreAged, DedupRow
<1> QED BY <1>0, <1>1, <1>2, <1>3 DEF StoreOK, t

\* Forgetting deduplication rows past their 30 days keeps a good store good: by then
\* the retry window of their keys is over.
LEMMA ForgetDedupsOK ==
  ASSUME NEW s, StoreOK(s), TypeOK, NEW keys \in SUBSET OldDedups(s)
  PROVE  /\ StoreOK(ForgetDedups(s, keys))
         /\ ForgetDedups(s, keys).messages = s.messages
         /\ ForgetDedups(s, keys).refs = s.refs
<1> DEFINE t == ForgetDedups(s, keys)
<1>0. /\ t.messages = s.messages
      /\ t.dedup = [k \in DOMAIN s.dedup \ keys |-> s.dedup[k]]
      /\ t.refs = s.refs
  BY DEF ForgetDedups
<1> HIDE DEF t
<1>1. StoreTyped(t) /\ StoreAgrees(t)
  BY <1>0 DEF StoreOK, StoreTyped, StoreAgrees, OldDedups, Row
<1>2. \A k \in keys : k \in DOMAIN s.dedup /\ born[k] + RetryDays < now
  <2> SUFFICES ASSUME NEW k \in keys
               PROVE  k \in DOMAIN s.dedup /\ born[k] + RetryDays < now
    OBVIOUS
  <2>1. /\ k \in DOMAIN s.dedup
        /\ s.dedup[k].expiredAt # Null
        /\ s.dedup[k].expiredAt + DedupDays <= now
    BY DEF OldDedups
  <2>2. s.dedup[k] \in DedupRow /\ k \in Keys
    BY <2>1 DEF StoreOK, StoreTyped
  <2>3. s.dedup[k].expiredAt \in Nat
    BY <2>1, <2>2 DEF DedupRow
  <2>4. born[k] \in Nat /\ born[k] + MessageDays <= s.dedup[k].expiredAt
    BY <2>1, <2>2 DEF StoreOK, StoreAged, TypeOK
  <2>5. now \in Nat
    BY DEF TypeOK
  <2>6. born[k] + RetryDays < born[k] + MessageDays + DedupDays
    BY <2>4, RetryAssumption
  <2> QED BY <2>1, <2>3, <2>4, <2>5, <2>6
<1>3. StoreAged(t)
  BY <1>0, <1>2 DEF StoreOK, StoreAged
<1> QED BY <1>0, <1>1, <1>3 DEF StoreOK, t

\* Expiring the content of messages that are due, and stamping their deduplication
\* rows, keeps a good store good.
LEMMA ExpireContentOK ==
  ASSUME NEW s, StoreOK(s), TypeOK, NEW ids \in SUBSET DOMAIN s.messages,
         \A m \in ids : s.messages[m].created + MessageDays <= now
  PROVE  /\ StoreOK(ExpireContent(s, ids))
         /\ ExpireContent(s, ids).refs \subseteq s.refs
<1> DEFINE t == [messages |-> [m \in DOMAIN s.messages |->
                     IF m \in ids
                     THEN [s.messages[m] EXCEPT !.text = Null]
                     ELSE s.messages[m]],
                 dedup |-> [k \in DOMAIN s.dedup |->
                  IF /\ s.dedup[k].expiredAt = Null
                     /\ \E m \in ids : s.messages[m].key = k
                  THEN [s.dedup[k] EXCEPT !.expiredAt = now] ELSE s.dedup[k]],
                 refs |-> s.refs]
<1>0. /\ DOMAIN t.messages = DOMAIN s.messages
      /\ DOMAIN t.dedup = DOMAIN s.dedup
      /\ t.refs = s.refs
      /\ \A m \in DOMAIN s.messages :
           t.messages[m] = IF m \in ids
                     THEN [s.messages[m] EXCEPT !.text = Null]
                     ELSE s.messages[m]
      /\ \A k \in DOMAIN s.dedup :
           t.dedup[k] = IF /\ s.dedup[k].expiredAt = Null
                           /\ \E m \in ids : s.messages[m].key = k
                        THEN [s.dedup[k] EXCEPT !.expiredAt = now] ELSE s.dedup[k]
      /\ t.messages = [m \in DOMAIN t.messages |-> t.messages[m]]
      /\ t.dedup = [k \in DOMAIN t.dedup |-> t.dedup[k]]
  OBVIOUS
<1>00. ExpireContent(s, ids) = DropDeadRefs(t, ids)
  BY DEF ExpireContent
<1> HIDE DEF t
<1>1. \A m \in DOMAIN s.messages :
        /\ t.messages[m] \in Row
        /\ t.messages[m].key = s.messages[m].key
        /\ t.messages[m].created = s.messages[m].created
        /\ t.messages[m].text = Null <=> m \in ids \/ s.messages[m].text = Null
  <2> SUFFICES ASSUME NEW m \in DOMAIN s.messages
               PROVE  /\ t.messages[m] \in Row
                      /\ t.messages[m].key = s.messages[m].key
                      /\ t.messages[m].created = s.messages[m].created
                      /\ t.messages[m].text = Null <=> m \in ids \/ s.messages[m].text = Null
    OBVIOUS
  <2>1. s.messages[m] \in Row
    BY DEF StoreOK, StoreTyped
  <2>2. CASE m \in ids
    <3>1. t.messages[m] = [s.messages[m] EXCEPT !.text = Null]
      BY <1>0, <2>2
    <3> QED BY <3>1, <2>1, <2>2 DEF Row
  <2>3. CASE m \notin ids
    <3>1. t.messages[m] = s.messages[m]
      BY <1>0, <2>3
    <3> QED BY <3>1, <2>1, <2>3
  <2> QED BY <2>2, <2>3
<1>2. \A k \in DOMAIN s.dedup :
        /\ t.dedup[k] \in DedupRow
        /\ t.dedup[k].msg = s.dedup[k].msg
        /\ t.dedup[k].expiredAt = Null <=>
             s.dedup[k].expiredAt = Null /\ \A m \in ids : s.messages[m].key # k
        /\ s.dedup[k].expiredAt # Null => t.dedup[k].expiredAt = s.dedup[k].expiredAt
        /\ s.dedup[k].expiredAt = Null /\ t.dedup[k].expiredAt # Null =>
             t.dedup[k].expiredAt = now
  <2> SUFFICES ASSUME NEW k \in DOMAIN s.dedup
      PROVE
        /\ t.dedup[k] \in DedupRow
        /\ t.dedup[k].msg = s.dedup[k].msg
        /\ t.dedup[k].expiredAt = Null <=>
             s.dedup[k].expiredAt = Null /\ \A m \in ids : s.messages[m].key # k
        /\ s.dedup[k].expiredAt # Null => t.dedup[k].expiredAt = s.dedup[k].expiredAt
        /\ s.dedup[k].expiredAt = Null /\ t.dedup[k].expiredAt # Null =>
             t.dedup[k].expiredAt = now
    OBVIOUS
  <2>1. s.dedup[k] \in DedupRow /\ now \in Nat /\ now # Null
    BY DEF StoreOK, StoreTyped, TypeOK
  <2>2. CASE s.dedup[k].expiredAt = Null /\ \E m \in ids : s.messages[m].key = k
    <3>1. t.dedup[k] = [s.dedup[k] EXCEPT !.expiredAt = now]
      BY <1>0, <2>2
    <3>2. /\ t.dedup[k] \in DedupRow
          /\ t.dedup[k].msg = s.dedup[k].msg
          /\ t.dedup[k].expiredAt = now
      BY <3>1, <2>1 DEF DedupRow
    <3> QED BY <3>2, <2>1, <2>2
  <2>3. CASE ~(s.dedup[k].expiredAt = Null /\ \E m \in ids : s.messages[m].key = k)
    <3>1. t.dedup[k] = s.dedup[k]
      BY <1>0, <2>3
    <3> QED BY <3>1, <2>1, <2>3
  <2> QED BY <2>2, <2>3
<1>3. StoreTyped(t)
  <2>1. t.messages \in [DOMAIN t.messages -> Row]
    BY <1>0, <1>1
  <2>2. t.dedup \in [DOMAIN t.dedup -> DedupRow]
    BY <1>0, <1>2
  <2> QED BY <1>0, <1>1, <2>1, <2>2 DEF StoreOK, StoreTyped
<1>4. StoreAgrees(t)
  <2>1. \A m \in DOMAIN t.messages :
          /\ t.messages[m].key \in DOMAIN t.dedup
          /\ t.dedup[t.messages[m].key].msg = m
          /\ t.dedup[t.messages[m].key].expiredAt # Null <=> t.messages[m].text = Null
    BY <1>0, <1>1, <1>2 DEF StoreOK, StoreAgrees
  <2>2. \A k \in DOMAIN t.dedup :
          IF t.dedup[k].msg = Null THEN t.dedup[k].expiredAt # Null
          ELSE /\ t.dedup[k].msg \in DOMAIN t.messages
               /\ t.messages[t.dedup[k].msg].key = k
    BY <1>0, <1>1, <1>2 DEF StoreOK, StoreAgrees
  <2>3. \A r \in t.refs : r[1] \in DOMAIN t.messages /\ files[r[2]].msg = r[1]
    BY <1>0 DEF StoreOK, StoreAgrees
  <2> QED BY <2>1, <2>2, <2>3 DEF StoreAgrees
<1>5. StoreAged(t)
  <2>1. \A k \in DOMAIN t.dedup :
          /\ born[k] # Null
          /\ t.dedup[k].expiredAt # Null =>
               born[k] + MessageDays <= t.dedup[k].expiredAt
    <3> SUFFICES ASSUME NEW k \in DOMAIN s.dedup,
                        s.dedup[k].expiredAt = Null, t.dedup[k].expiredAt # Null
                 PROVE  born[k] + MessageDays <= t.dedup[k].expiredAt
      BY <1>0, <1>2 DEF StoreOK, StoreAged
    <3>1. PICK m \in ids : s.messages[m].key = k
      BY <1>2
    <3>2. /\ born[k] \in Nat /\ s.messages[m].created \in Nat
          /\ born[k] <= s.messages[m].created
          /\ s.messages[m].created + MessageDays <= now
      BY <3>1 DEF StoreOK, StoreTyped, StoreAged, TypeOK, Row
    <3> QED BY <1>2, <3>2 DEF TypeOK
  <2> QED BY <1>0, <1>1, <2>1 DEF StoreOK, StoreAged
<1> QED BY <1>0, <1>00, <1>3, <1>4, <1>5, DropDeadRefsOK DEF StoreOK

\* Dropping the references to files a batch condemned, and the tombstones they held,
\* keeps a good store good (expireFileReference).
LEMMA ExpireReferencesOK ==
  ASSUME NEW s, StoreOK(s), NEW fs
  PROVE  /\ StoreOK(ExpireReferences(s, fs))
         /\ ExpireReferences(s, fs).refs \subseteq s.refs
<1> DEFINE left == [messages |-> s.messages, dedup |-> s.dedup,
                    refs |-> {r \in s.refs : r[2] \notin fs}]
           touched == {m \in DOMAIN s.messages : \E f \in fs : <<m, f>> \in s.refs}
           over == {m \in touched : s.messages[m].text = Null}
<1>1. StoreOK(left)
  BY DEF StoreOK, StoreTyped, StoreAgrees, StoreAged
<1>2. Bare(left, over) \in SUBSET DOMAIN left.messages
  BY DEF Bare
<1>3. \A m \in Bare(left, over) :
        left.messages[m].text = Null /\ \A r \in left.refs : r[1] # m
  BY DEF Bare
<1>4. left.refs \subseteq s.refs
  OBVIOUS
<1>5. ExpireReferences(s, fs) = RemoveTombstones(left, Bare(left, over))
  BY DEF ExpireReferences
<1> HIDE DEF left, over
<1> QED BY <1>1, <1>2, <1>3, <1>4, <1>5, RemoveTombstonesOK
-----------------------------------------------------------------------------
(* Every action preserves the inductive invariant *)

\* The empty tables satisfy the inductive invariant.
LEMMA InitOK == Init => IInv
<1> SUFFICES ASSUME Init PROVE IInv
  OBVIOUS
<1>1. TypeOK
  BY DEF Init, TypeOK, FileRow
<1>2. StoreOK(Store)
  BY DEF Init, Store, StoreOK, StoreTyped, StoreAgrees, StoreAged
<1> QED BY <1>1, <1>2 DEF Init, IInv

\* Time alone breaks nothing.
LEMMA TickOK == IInv /\ Tick => IInv'
<1> SUFFICES ASSUME IInv, Tick PROVE IInv'
  OBVIOUS
<1>0. UNCHANGED <<tables, progress, clients>> /\ now' = now + 1 /\ now \in Nat
  BY DEF Tick, IInv, TypeOK
<1>1. TypeOK'
  BY <1>0 DEF IInv, TypeOK, tables, progress, clients
<1>2. StoreOK(Store)'
  <2>1. StoreTyped(Store)' /\ StoreAgrees(Store)'
    BY <1>0 DEF IInv, Store, StoreOK, StoreTyped, StoreAgrees, tables, clients
  <2>2. \A m \in DOMAIN messages : messages[m].created \in Nat
    BY DEF IInv, TypeOK, Row
  <2>3. \A k \in Keys : born[k] # Null => born[k] \in Nat
    BY DEF IInv, TypeOK
  <2>4. StoreAged(Store)'
    BY <1>0, <2>2, <2>3 DEF IInv, Store, StoreOK, StoreAged, tables, clients
  <2> QED BY <2>1, <2>4 DEF StoreOK
<1>3. mprog # Null => mprog.cut \in Int
  BY DEF IInv, TypeOK, CursorRow
<1>4. \A k \in Keys : born'[k] # Null => born'[k] <= now'
  <2>1. \A k \in Keys : born[k] # Null => born[k] \in Nat /\ born[k] <= now
    BY DEF IInv, TypeOK
  <2> QED BY <1>0, <2>1 DEF clients
<1>5. \A r \in refs' : files'[r[2]].state \in {"attached", "deleting"}
  BY <1>0 DEF IInv, tables
<1>6. mprog' # Null => mprog'.cut + MessageDays <= now'
  BY <1>0, <1>3 DEF IInv, progress
<1> QED BY <1>1, <1>2, <1>4, <1>5, <1>6 DEF IInv

\* An upload that becomes ready (files.prepare) breaks nothing.
LEMMA UploadOK ==
  ASSUME IInv, NEW f \in Files, NEW c \in Conversations, Upload(f, c)
  PROVE  IInv'
<1>1. TypeOK'
  BY DEF Upload, IInv, TypeOK, FileRow, progress, clients
<1>2. \A r \in refs : r[2] # f /\ files'[r[2]] = files[r[2]]
  BY DEF Upload, IInv, TypeOK
<1>3. StoreOK(Store)'
  BY <1>2 DEF Upload, IInv, Store, StoreOK, StoreTyped, StoreAgrees, StoreAged, clients
<1>4. UNCHANGED <<now, refs, mprog, born>>
  BY DEF Upload, progress, clients
<1> QED BY <1>1, <1>2, <1>3, <1>4 DEF IInv

\* A request answered from the deduplication row (create, the paths that insert
\* nothing) breaks nothing.
LEMMA CreateAgainOK ==
  ASSUME IInv, NEW k \in Keys, NEW r \in Requests, CreateAgain(k, r)
  PROVE  IInv'
<1>0. /\ UNCHANGED <<now, tables, progress, accepted>>
      /\ born' = [born EXCEPT ![k] = IF @ = Null THEN now ELSE @]
  BY DEF CreateAgain, Used
<1>1. TypeOK'
  BY <1>0 DEF IInv, TypeOK, tables, progress
<1>2. \A x \in Keys : born[x] # Null => born'[x] = born[x]
  BY <1>0 DEF IInv, TypeOK
<1>3. StoreTyped(Store)' /\ StoreAgrees(Store)'
  BY <1>0 DEF IInv, Store, StoreOK, StoreTyped, StoreAgrees, tables
<1>4. StoreAged(Store)'
  <2>1. \A m \in DOMAIN messages : messages[m].key \in Keys
    BY DEF IInv, TypeOK, Row
  <2>2. DOMAIN dedup \subseteq Keys
    BY DEF IInv, TypeOK
  <2> QED BY <1>0, <1>2, <2>1, <2>2 DEF IInv, Store, StoreOK, StoreAged, tables
<1>5. \A x \in Keys : born'[x] # Null => born'[x] <= now'
  <2>1. \A x \in Keys : born[x] # Null => born[x] <= now
    BY DEF IInv
  <2>2. now \in Nat /\ born \in [Keys -> Nat \cup {Null}]
    BY DEF IInv, TypeOK
  <2> QED BY <1>0, <2>1, <2>2
<1>6. StoreOK(Store)'
  BY <1>3, <1>4 DEF StoreOK
<1>7. UNCHANGED <<now, refs, files, mprog>>
  BY <1>0 DEF tables, progress
<1> QED BY <1>1, <1>5, <1>6, <1>7 DEF IInv

\* A request that inserts a message, its deduplication row and its references
\* (create) keeps the inductive invariant.
LEMMA CreateNewOK ==
  ASSUME IInv, NEW k \in Keys, NEW r \in Requests, CreateNew(k, r)
  PROVE  IInv'
<1> DEFINE id == lastId + 1
           row == [key |-> k, conv |-> r.conv, text |-> r.text, created |-> now]
           drow == [conv |-> r.conv, msg |-> id, expiredAt |-> Null]
<1>0. /\ lastId' = id
      /\ messages' = [m \in DOMAIN messages \cup {id} |->
                        IF m = id THEN row ELSE messages[m]]
      /\ dedup' = [x \in DOMAIN dedup \cup {k} |-> IF x = k THEN drow ELSE dedup[x]]
      /\ refs' = refs \cup {<<id, f>> : f \in r.files}
      /\ files' = [f \in Files |->
                    IF f \in r.files
                    THEN [files[f] EXCEPT !.state = "attached", !.msg = id]
                    ELSE files[f]]
      /\ lastMessageAt' = [lastMessageAt EXCEPT ![r.conv] =
                             IF @ = Null \/ @ < now THEN now ELSE @]
      /\ outbox' = Append(outbox, [type |-> "created", msg |-> id])
      /\ accepted' = [accepted EXCEPT ![k] = [id |-> id, req |-> r]]
      /\ born' = [born EXCEPT ![k] = IF @ = Null THEN now ELSE @]
      /\ UNCHANGED <<now, mprog, fprog>>
  BY DEF CreateNew, Used, progress
<1>1. /\ k \notin DOMAIN dedup
      /\ \A f \in r.files : files[f].state = "ready"
      /\ born[k] # Null => now <= born[k] + RetryDays
  BY DEF CreateNew, Outcome, Bindable, MaySend
<1>2. /\ r.conv \in Conversations /\ r.text \in Texts /\ r.files \subseteq Files
      /\ id \in Nat /\ now \in Nat /\ lastId \in Nat
      /\ id \notin DOMAIN messages /\ id # Null /\ row.text # Null
  BY DEF Requests, IInv, TypeOK
<1>3. row \in Row /\ drow \in DedupRow
  BY <1>2 DEF Row, DedupRow
<1> HIDE DEF id, row, drow
<1>a. /\ DOMAIN messages \subseteq 1..lastId /\ messages \in [DOMAIN messages -> Row]
      /\ DOMAIN dedup \subseteq Keys /\ dedup \in [DOMAIN dedup -> DedupRow]
      /\ refs \subseteq (1..lastId) \X Files
      /\ born \in [Keys -> Nat \cup {Null}]
      /\ accepted \in [Keys -> [id : Nat, req : Requests] \cup {Null}]
      /\ lastMessageAt \in [Conversations -> Nat \cup {Null}]
      /\ files \in [Files -> FileRow]
      /\ StoreAgrees(Store) /\ StoreAged(Store)
  BY DEF IInv, TypeOK, StoreOK
<1>b. \A m \in DOMAIN messages :
        m \in DOMAIN messages' /\ m # id /\ messages'[m] = messages[m]
  BY <1>0, <1>2
<1>c. \A x \in DOMAIN dedup : x \in DOMAIN dedup' /\ x # k /\ dedup'[x] = dedup[x]
  BY <1>0, <1>1
<1>d. /\ id \in DOMAIN messages' /\ messages'[id] = row
      /\ k \in DOMAIN dedup' /\ dedup'[k] = drow
      /\ DOMAIN messages' = DOMAIN messages \cup {id}
      /\ DOMAIN dedup' = DOMAIN dedup \cup {k}
  BY <1>0
<1>e. /\ row.key = k /\ row.created = now /\ row.text # Null
      /\ drow.msg = id /\ drow.expiredAt = Null /\ id = lastId + 1
  BY <1>2 DEF row, drow, id
<1>4. StoreTyped(Store)'
  <2>1. messages' \in [DOMAIN messages' -> Row]
    BY <1>0, <1>3, <1>a, <1>d
  <2>2. dedup' \in [DOMAIN dedup' -> DedupRow]
    BY <1>0, <1>3, <1>a, <1>d
  <2>a. /\ lastId' = lastId + 1 /\ lastId \in Nat /\ id = lastId + 1
        /\ 1..lastId \subseteq 1..lastId' /\ id \in 1..lastId'
    <3>1. lastId' = lastId + 1 /\ lastId \in Nat /\ id = lastId + 1
      BY <1>0, <1>2, <1>e
    <3> QED BY <3>1
  <2>3. DOMAIN messages' \subseteq 1..lastId'
    BY <1>a, <1>d, <2>a
  <2>4. refs' \subseteq (1..lastId') \X Files
    <3> SUFFICES ASSUME NEW q \in refs' PROVE q \in (1..lastId') \X Files
      OBVIOUS
    <3>1. CASE q \in refs
      BY <3>1, <1>a, <2>a
    <3>2. CASE q \notin refs
      <4>1. PICK f \in r.files : q = <<id, f>>
        BY <3>2, <1>0
      <4> QED BY <4>1, <1>2, <2>a
    <3> QED BY <3>1, <3>2
  <2> QED BY <1>a, <1>d, <2>1, <2>2, <2>3, <2>4 DEF Store, StoreTyped
<1>5. \A m \in DOMAIN messages : messages[m].key # k /\ messages[m].key \in DOMAIN dedup
  BY <1>1, <1>a DEF Store, StoreAgrees
<1>6. \A q \in refs : q[2] \in Files /\ q[2] \notin r.files /\ files'[q[2]] = files[q[2]]
  BY <1>0, <1>1 DEF IInv, TypeOK
<1>6a. born[k] # Null => born[k] \in Nat /\ born[k] <= now
  BY DEF IInv, TypeOK
<1>7. StoreAgrees(Store)'
  <2>1. \A m \in DOMAIN messages' :
          /\ messages'[m].key \in DOMAIN dedup'
          /\ dedup'[messages'[m].key].msg = m
          /\ dedup'[messages'[m].key].expiredAt # Null <=> messages'[m].text = Null
    BY <1>5, <1>a, <1>b, <1>c, <1>d, <1>e DEF Store, StoreAgrees
  <2>2. \A x \in DOMAIN dedup' :
          IF dedup'[x].msg = Null THEN dedup'[x].expiredAt # Null
          ELSE /\ dedup'[x].msg \in DOMAIN messages'
               /\ messages'[dedup'[x].msg].key = x
    BY <1>2, <1>a, <1>b, <1>c, <1>d, <1>e DEF Store, StoreAgrees
  <2>3. \A q \in refs' : q[1] \in DOMAIN messages' /\ files'[q[2]].msg = q[1]
    <3> SUFFICES ASSUME NEW q \in refs'
                 PROVE  q[1] \in DOMAIN messages' /\ files'[q[2]].msg = q[1]
      OBVIOUS
    <3>1. CASE q \in refs
      BY <3>1, <1>6, <1>a, <1>b DEF Store, StoreAgrees
    <3>2. CASE q \notin refs
      <4>1. PICK f \in r.files : q = <<id, f>>
        BY <3>2, <1>0
      <4>2. files[f] \in FileRow /\ f \in Files
        BY <1>2 DEF IInv, TypeOK
      <4> QED BY <4>1, <4>2, <1>0, <1>d DEF FileRow
    <3> QED BY <3>1, <3>2
  <2> QED BY <2>1, <2>2, <2>3 DEF Store, StoreAgrees
<1>8. StoreAged(Store)'
  <2>1. \A x \in Keys : born[x] # Null => born'[x] = born[x]
    BY <1>0, <1>a
  <2>2. born'[k] # Null /\ (born[k] = Null => born'[k] = now)
    BY <1>0, <1>2, <1>a
  <2>3. \A m \in DOMAIN messages :
          messages[m].key \in Keys /\ born[messages[m].key] # Null
    BY <1>a DEF Store, StoreAged, Row
  <2>4. \A m \in DOMAIN messages' :
          /\ born'[messages'[m].key] # Null
          /\ born'[messages'[m].key] <= messages'[m].created
          /\ messages'[m].created <= now'
    <3> SUFFICES ASSUME NEW m \in DOMAIN messages'
                 PROVE  /\ born'[messages'[m].key] # Null
                        /\ born'[messages'[m].key] <= messages'[m].created
                        /\ messages'[m].created <= now'
      OBVIOUS
    <3>1. CASE m \in DOMAIN messages
      BY <3>1, <1>0, <1>a, <1>b, <2>1, <2>3 DEF Store, StoreAged
    <3>2. CASE m = id
      <4>1. born'[k] \in Nat /\ born'[k] <= now
        BY <1>2, <1>6a, <2>1, <2>2
      <4>2. messages'[m] = row /\ messages'[m].key = k /\ messages'[m].created = now
        BY <3>2, <1>d, <1>e
      <4>3. now' = now /\ now \in Nat
        BY <1>0, <1>2
      <4> QED BY <4>1, <4>2, <4>3, <2>2
    <3> QED BY <3>1, <3>2, <1>d
  <2>5. \A x \in DOMAIN dedup' :
          /\ born'[x] # Null
          /\ dedup'[x].expiredAt # Null =>
               born'[x] + MessageDays <= dedup'[x].expiredAt
    BY <1>a, <1>c, <1>d, <1>e, <2>1, <2>2 DEF Store, StoreAged
  <2>6. \A x \in Keys : accepted'[x] # Null =>
          born'[x] # Null /\ (x \in DOMAIN dedup' \/ born'[x] + RetryDays < now')
    BY <1>0, <1>a, <1>d, <2>1, <2>2 DEF Store, StoreAged
  <2> QED BY <2>4, <2>5, <2>6 DEF Store, StoreAged
<1>9. \A q \in refs' : files'[q[2]].state \in {"attached", "deleting"}
  <2> SUFFICES ASSUME NEW q \in refs'
               PROVE  files'[q[2]].state \in {"attached", "deleting"}
    OBVIOUS
  <2>1. CASE q \in refs
    BY <2>1, <1>6 DEF IInv
  <2>2. CASE q \notin refs
    <3>1. PICK f \in r.files : q = <<id, f>>
      BY <2>2, <1>0
    <3>2. files[f] \in FileRow /\ f \in Files
      BY <1>2 DEF IInv, TypeOK
    <3> QED BY <3>1, <3>2, <1>0 DEF FileRow
  <2> QED BY <2>1, <2>2
<1>10. TypeOK'
  <2>1. files' \in [Files -> FileRow]
    <3> SUFFICES ASSUME NEW f \in Files PROVE files'[f] \in FileRow
      BY <1>0
    <3> QED BY <1>0, <1>2, <1>a DEF FileRow
  <2>2. outbox' \in Seq(Event)
    <3>1. outbox \in Seq(Event)
      BY DEF IInv, TypeOK
    <3>2. [type |-> "created", msg |-> id] \in Event
      BY <1>2 DEF Event
    <3>3. outbox' = Append(outbox, [type |-> "created", msg |-> id])
      BY <1>0
    <3> QED BY <3>1, <3>2, <3>3, AppendProperties
  <2>3. accepted' \in [Keys -> [id : Nat, req : Requests] \cup {Null}]
    BY <1>0, <1>2 DEF IInv, TypeOK
  <2>4. \A p, q \in refs' : p[2] = q[2] => p = q
    <3>1. \A q \in refs' : q \in refs \/ \E f \in r.files : q = <<id, f>>
      BY <1>0
    <3> SUFFICES ASSUME NEW p \in refs', NEW q \in refs', p[2] = q[2]
                 PROVE  p = q
      OBVIOUS
    <3>2. CASE p \in refs /\ q \in refs
      BY <3>2 DEF IInv, TypeOK
    <3>3. CASE p \notin refs /\ q \notin refs
      BY <3>1, <3>3
    <3>4. CASE p \in refs /\ q \notin refs
      BY <3>1, <3>4, <1>6
    <3>5. CASE p \notin refs /\ q \in refs
      BY <3>1, <3>5, <1>6
    <3> QED BY <3>2, <3>3, <3>4, <3>5
  <2>5. /\ born' \in [Keys -> Nat \cup {Null}]
        /\ lastMessageAt' \in [Conversations -> Nat \cup {Null}]
    BY <1>0, <1>2 DEF IInv, TypeOK
  <2>6. /\ DOMAIN messages' \subseteq 1..lastId' /\ messages' \in [DOMAIN messages' -> Row]
        /\ DOMAIN dedup' \subseteq Keys /\ dedup' \in [DOMAIN dedup' -> DedupRow]
        /\ refs' \subseteq (1..lastId') \X Files
    BY <1>4 DEF Store, StoreTyped
  <2>7. /\ now' \in Nat /\ lastId' \in Nat
        /\ mprog' \in CursorRow \cup {Null} /\ fprog' \in CursorRow \cup {Null}
    <3>1. now' = now /\ lastId' = id /\ mprog' = mprog /\ fprog' = fprog
      BY <1>0
    <3> QED BY <3>1, <1>2 DEF IInv, TypeOK
  <2> QED BY <2>1, <2>2, <2>3, <2>4, <2>5, <2>6, <2>7 DEF TypeOK
<1>11. \A x \in Keys : born'[x] # Null => born'[x] <= now'
  <2>1. \A x \in Keys : born[x] # Null => born[x] <= now
    BY DEF IInv
  <2>2. born[k] # Null \/ born'[k] = now
    BY <1>0, <1>a
  <2>3. \A x \in Keys : x # k \/ born[k] # Null => born'[x] = born[x]
    BY <1>0, <1>a
  <2>4. now' = now /\ now \in Nat
    BY <1>0, <1>2
  <2> QED BY <2>1, <2>2, <2>3, <2>4
<1>12. mprog' # Null => mprog'.cut + MessageDays <= now'
  BY <1>0 DEF IInv
<1>13. StoreOK(Store)'
  BY <1>4, <1>7, <1>8 DEF StoreOK
<1> QED BY <1>9, <1>10, <1>11, <1>12, <1>13 DEF IInv

\* The effect of a batch, and what its parts were computed from.
Effect(s, mcursor, fcursor, due, fdue, order, purged, left) ==
  /\ messages' = left.messages
  /\ dedup' = left.dedup
  /\ refs' = left.refs
  /\ files' = [f \in Files |->
                 IF f \in fdue THEN [files[f] EXCEPT !.state = "deleting"]
                 ELSE files[f]]
  /\ outbox' = outbox \o
       [i \in 1..Cardinality(due) |-> [type |-> "deleted", msg |-> order[i]]]
  /\ mprog' = NextMessages(purged, mcursor, Last(due, mcursor.after))
  /\ fprog' = NextFiles(fcursor, Last(fdue, fcursor.after))
  /\ UNCHANGED <<now, lastId, lastMessageAt, clients>>

\* What one retention batch does to the tables, with its sets named.
LEMMA BatchEffect ==
  ASSUME RetentionBatch
  PROVE  LET mcursor == Cursor(mprog, MessageDays)
             fcursor == Cursor(fprog, FileDays)
             due == Lowest(DueMessages(Store, mcursor), Limit)
             fdue == Lowest(DueFiles(fcursor), Limit)
         IN \E stale \in Forgettable(Store), order \in Ascending(due) :
              Effect(Store, mcursor, fcursor, due, fdue, order,
                     Purged(Store, due, stale),
                     ExpireReferences(Purged(Store, due, stale), fdue))
<1>1. PICK s \in {Store}, mcursor \in {Cursor(mprog, MessageDays)},
           fcursor \in {Cursor(fprog, FileDays)} :
        \E due \in {Lowest(DueMessages(s, mcursor), Limit)},
           fdue \in {Lowest(DueFiles(fcursor), Limit)} :
        \E stale \in Forgettable(s), order \in Ascending(due) :
        \E purged \in {Purged(s, due, stale)} :
        \E left \in {ExpireReferences(purged, fdue)} :
          Effect(s, mcursor, fcursor, due, fdue, order, purged, left)
  BY Zenon DEF RetentionBatch, Store, Effect
<1> QED BY <1>1

\* The message half of a batch (purgeBatch) keeps a good store good.
LEMMA PurgedOK ==
  ASSUME IInv, NEW due \in SUBSET DOMAIN messages, NEW stale \in Forgettable(Store),
         \A m \in due : messages[m].text # Null /\ messages[m].created + MessageDays <= now
  PROVE  /\ StoreOK(Purged(Store, due, stale))
         /\ Purged(Store, due, stale).refs \subseteq refs
<1> DEFINE old == Lowest(OldTombstones(Store), Limit)
           bare == DropDeadRefs(Store, old)
           gone == Bare(bare, old)
           t == RemoveTombstones(bare, gone)
           u == ForgetDedups(t, stale)
<1>1. TypeOK /\ StoreOK(Store)
  BY DEF IInv
<1>2. old \subseteq DOMAIN messages /\ \A m \in old : messages[m].text = Null
  BY DEF Lowest, OldTombstones, Store
<1>3. StoreOK(bare) /\ bare.messages = messages /\ bare.refs \subseteq refs
  BY <1>1, DropDeadRefsOK DEF Store
<1>4. gone \subseteq old /\ \A m \in gone : \A r \in bare.refs : r[1] # m
  BY DEF Bare
<1>5. t.messages = [m \in DOMAIN bare.messages \ gone |-> bare.messages[m]]
  BY DEF RemoveTombstones
<1>6. Purged(Store, due, stale) = ExpireContent(u, due)
  BY Zenon DEF Purged
<1>7. stale \subseteq OldDedups(t)
  BY DEF Forgettable
<1> HIDE DEF old, bare, gone
<1>8. StoreOK(t) /\ t.refs = bare.refs
  BY <1>2, <1>3, <1>4, RemoveTombstonesOK
<1> HIDE DEF t
<1>9. StoreOK(u) /\ u.messages = t.messages /\ u.refs = t.refs
  BY <1>1, <1>7, <1>8, ForgetDedupsOK
<1> HIDE DEF u
<1>10. \A m \in due : m \in DOMAIN u.messages /\ u.messages[m] = messages[m]
  BY <1>2, <1>3, <1>4, <1>5, <1>9
<1>11. StoreOK(ExpireContent(u, due)) /\ ExpireContent(u, due).refs \subseteq u.refs
  BY <1>1, <1>9, <1>10, ExpireContentOK
<1> QED BY <1>3, <1>6, <1>8, <1>9, <1>11

\* A whole batch (processBatch) keeps the inductive invariant.
LEMMA RetentionBatchOK == IInv /\ RetentionBatch => IInv'
<1> SUFFICES ASSUME IInv, RetentionBatch PROVE IInv'
  OBVIOUS
<1> DEFINE mcursor == Cursor(mprog, MessageDays)
           fcursor == Cursor(fprog, FileDays)
           due == Lowest(DueMessages(Store, mcursor), Limit)
           fdue == Lowest(DueFiles(fcursor), Limit)
           purged(stale) == Purged(Store, due, stale)
           left(stale) == ExpireReferences(purged(stale), fdue)
<1>1. PICK stale \in Forgettable(Store), order \in Ascending(due) :
        Effect(Store, mcursor, fcursor, due, fdue, order, purged(stale), left(stale))
  BY BatchEffect
<1>2. /\ now \in Nat /\ lastId \in Nat
      /\ mprog \in CursorRow \cup {Null} /\ fprog \in CursorRow \cup {Null}
      /\ files \in [Files -> FileRow] /\ outbox \in Seq(Event)
  BY DEF IInv, TypeOK
<1>3. /\ mcursor.after \in Nat /\ mcursor.cut \in Int /\ mcursor.cut + MessageDays <= now
      /\ fcursor.after \in Nat /\ fcursor.cut \in Int
  BY <1>2 DEF Cursor, CursorRow, IInv
<1>4. /\ due \subseteq DOMAIN messages /\ due \subseteq 1..lastId
      /\ \A m \in due : messages[m].text # Null /\ messages[m].created <= mcursor.cut
  BY DEF Lowest, DueMessages, Store, IInv, TypeOK
<1>5. fdue \subseteq Files /\ \A f \in fdue : files[f].state \in {"ready", "attached"}
  BY DEF Lowest, DueFiles
<1> HIDE DEF mcursor, fcursor, due, fdue
<1>6. \A m \in due : messages[m].created + MessageDays <= now
  <2>1. \A m \in due : messages[m].created \in Nat
    BY <1>4 DEF IInv, TypeOK, Row
  <2> QED BY <1>2, <1>3, <1>4, <2>1
<1>7. StoreOK(purged(stale)) /\ purged(stale).refs \subseteq refs
  BY <1>4, <1>6, PurgedOK
<1> HIDE DEF purged
<1>8. StoreOK(left(stale)) /\ left(stale).refs \subseteq refs
  BY <1>7, ExpireReferencesOK
<1> HIDE DEF left
<1>9. /\ messages' = left(stale).messages
      /\ dedup' = left(stale).dedup
      /\ refs' = left(stale).refs
      /\ files' = [f \in Files |->
                 IF f \in fdue THEN [files[f] EXCEPT !.state = "deleting"]
                 ELSE files[f]]
      /\ now' = now /\ lastId' = lastId /\ lastMessageAt' = lastMessageAt
      /\ born' = born /\ accepted' = accepted
  BY <1>1 DEF Effect, clients
<1>10. outbox' = outbox \o
         [i \in 1..Cardinality(due) |-> [type |-> "deleted", msg |-> order[i]]]
  BY <1>1 DEF Effect
<1>11. /\ mprog' = NextMessages(purged(stale), mcursor, Last(due, mcursor.after))
       /\ fprog' = NextFiles(fcursor, Last(fdue, fcursor.after))
  BY <1>1 DEF Effect
<1>12. \A f \in Files :
         /\ files'[f] \in FileRow
         /\ files'[f].msg = files[f].msg
         /\ files[f].state \in {"attached", "deleting"} =>
              files'[f].state \in {"attached", "deleting"}
  BY <1>2, <1>9 DEF FileRow
<1>13. StoreOK(Store)'
  <2>1. StoreTyped(Store)'
    BY <1>8, <1>9 DEF Store, StoreOK, StoreTyped
  <2>2. \A r \in refs' : r[2] \in Files
    BY <1>8, <1>9 DEF IInv, TypeOK
  <2>3. StoreAgrees(Store)'
    BY <1>8, <1>9, <1>12, <2>2 DEF Store, StoreOK, StoreAgrees
  <2>4. StoreAged(Store)'
    BY <1>8, <1>9 DEF Store, StoreOK, StoreAged
  <2> QED BY <2>1, <2>3, <2>4 DEF StoreOK
<1>14. \A r \in refs' : r \in refs /\ files'[r[2]].state \in {"attached", "deleting"}
  BY <1>8, <1>9, <1>12 DEF IInv, TypeOK
<1>15. Last(due, mcursor.after) \in Nat /\ Last(fdue, fcursor.after) \in Nat
  <2>1. \A S \in SUBSET Nat, n \in Nat : Last(S, n) \in Nat
    BY DEF Last
  <2>2. due \in SUBSET Nat /\ fdue \in SUBSET Nat
    BY <1>2, <1>4, <1>5
  <2> QED BY <1>3, <2>1, <2>2
<1> DEFINE mlast == Last(due, mcursor.after)
           flast == Last(fdue, fcursor.after)
<1> HIDE DEF mlast, flast
<1>16. mprog' \in CursorRow /\ mprog'.cut + MessageDays <= now
  <2>1. \/ mprog' = [after |-> mlast, cut |-> mcursor.cut]
        \/ mprog' = [after |-> 0, cut |-> now - MessageDays]
    BY <1>11 DEF NextMessages, mlast
  <2>2. mlast \in Nat /\ now - MessageDays \in Int
    BY <1>2, <1>15 DEF mlast
  <2> QED BY <1>2, <1>3, <2>1, <2>2 DEF CursorRow
<1>17. fprog' \in CursorRow
  <2>1. \/ fprog' = [after |-> flast, cut |-> fcursor.cut]
        \/ fprog' = [after |-> 0, cut |-> now - FileDays]
    BY <1>11 DEF NextFiles, flast
  <2>2. flast \in Nat /\ now - FileDays \in Int
    BY <1>2, <1>15 DEF flast
  <2> QED BY <1>2, <1>3, <2>1, <2>2 DEF CursorRow
<1>18. outbox' \in Seq(Event)
  <2>1. Cardinality(due) \in Nat
    <3>1. IsFiniteSet(1..lastId)
      BY <1>2, FS_Interval
    <3> QED BY <1>4, <3>1, FS_Subset, FS_CardinalityType
  <2>2. \A i \in 1..Cardinality(due) : order[i] \in Nat
    BY <1>2, <1>4 DEF Ascending
  <2> DEFINE tail == [i \in 1..Cardinality(due) |-> [type |-> "deleted", msg |-> order[i]]]
  <2>3. tail \in [1..Cardinality(due) -> Event]
    BY <2>2 DEF Event
  <2>4. tail \in Seq(Event)
    BY <2>1, <2>3, SeqDef
  <2> HIDE DEF tail
  <2>5. outbox' = outbox \o tail
    BY <1>10 DEF tail
  <2> QED BY <1>2, <2>4, <2>5, ConcatProperties
<1>19. TypeOK'
  <2>1. /\ DOMAIN messages' \subseteq 1..lastId' /\ messages' \in [DOMAIN messages' -> Row]
        /\ DOMAIN dedup' \subseteq Keys /\ dedup' \in [DOMAIN dedup' -> DedupRow]
        /\ refs' \subseteq (1..lastId') \X Files
    BY <1>13 DEF Store, StoreOK, StoreTyped
  <2>2. \A q, r \in refs' : q[2] = r[2] => q = r
    BY <1>14 DEF IInv, TypeOK
  <2>3. files' \in [Files -> FileRow]
    BY <1>9, <1>12
  <2> QED BY <1>9, <1>16, <1>17, <1>18, <2>1, <2>2, <2>3 DEF IInv, TypeOK
<1>20. \A k \in Keys : born'[k] # Null => born'[k] <= now'
  BY <1>9 DEF IInv
<1> QED BY <1>9, <1>13, <1>14, <1>16, <1>19, <1>20 DEF IInv

\* One step per action.
LEMMA NextOK == IInv /\ [Next]_vars => IInv'
<1> SUFFICES ASSUME IInv, [Next]_vars PROVE IInv'
  OBVIOUS
<1>1. CASE Tick
  BY <1>1, TickOK
<1>2. CASE RetentionBatch
  BY <1>2, RetentionBatchOK
<1>3. ASSUME NEW k \in Keys, NEW r \in Requests, CreateNew(k, r) PROVE IInv'
  BY <1>3, CreateNewOK
<1>4. ASSUME NEW k \in Keys, NEW r \in Requests, CreateAgain(k, r) PROVE IInv'
  BY <1>4, CreateAgainOK
<1>5. ASSUME NEW f \in Files, NEW c \in Conversations, Upload(f, c) PROVE IInv'
  BY <1>5, UploadOK
<1>6. CASE UNCHANGED vars
  <2>1. /\ UNCHANGED <<now, lastId, messages, dedup, refs, files, lastMessageAt, outbox>>
        /\ UNCHANGED <<mprog, fprog, born, accepted>>
    BY <1>6 DEF vars, tables, progress, clients
  <2>2. TypeOK'
    BY <2>1 DEF IInv, TypeOK
  <2>3. StoreOK(Store)'
    BY <2>1 DEF IInv, Store, StoreOK, StoreTyped, StoreAgrees, StoreAged
  <2> QED BY <2>1, <2>2, <2>3 DEF IInv
<1> QED BY <1>1, <1>2, <1>3, <1>4, <1>5, <1>6 DEF Next
-----------------------------------------------------------------------------
(* The theorems *)

\* The inductive invariant holds in every state: typed tables whose keys agree, rows
\* no younger than their key, and deduplication rows kept for the retry window.
THEOREM Inductive == Spec => []IInv
  BY InitOK, NextOK, PTL DEF Spec

\* The tables keep the types of their columns and message_files its unique file,
\* for any keys, files, retention days and batch limit.
THEOREM TypeCorrect == Spec => []TypeOK
<1>1. IInv => TypeOK
  BY DEF IInv
<1> QED BY <1>1, Inductive, PTL

\* The foreign keys and unique columns the statements of create() and of the
\* retention batch rely on agree in every state.
THEOREM RowsAgreement == Spec => []RowsAgree
<1>1. IInv => RowsAgree
  BY DEF IInv, StoreOK, StoreAgrees, Store, RowsAgree
<1> QED BY <1>1, Inductive, PTL

\* A clientMessageId that was accepted keeps its deduplication row for the whole
\* retry window, whatever the limits and days are, as long as
\* RetryDays < MessageDays + DedupDays.
THEOREM AcceptedOnce == Spec => []AtMostOnce
<1>1. IInv => AtMostOnce
  <2> SUFFICES ASSUME IInv, NEW k \in Keys, accepted[k] # Null, now <= born[k] + RetryDays
               PROVE  k \in DOMAIN dedup
    BY DEF AtMostOnce
  <2>1. born[k] # Null /\ (k \in DOMAIN dedup \/ born[k] + RetryDays < now)
    BY DEF IInv, StoreOK, StoreAged, Store
  <2>2. born[k] \in Nat /\ now \in Nat
    BY <2>1 DEF IInv, TypeOK
  <2> QED BY <2>1, <2>2
<1> QED BY <1>1, Inductive, PTL
-----------------------------------------------------------------------------
(* What files and keys become *)

\* A file that can be downloaded is named by the reference of its message.
RefKept == \A f \in Files : Live(f) => <<files[f].msg, f>> \in refs

\* The identifiers handed out so far are in use or used up.
IdsGiven == \A k \in Keys : accepted[k] # Null => accepted[k].id \in 1..lastId

\* What the files and the history of the keys add to the inductive invariant.
FInv == IInv /\ RefKept /\ IdsGiven

\* The tables and what was accepted start empty.
LEMMA InitKeeps == Init => FInv
<1> SUFFICES ASSUME Init PROVE FInv
  OBVIOUS
<1>1. RefKept
  BY DEF Init, RefKept, Live
<1>2. IdsGiven
  BY DEF Init, IdsGiven
<1> QED BY <1>1, <1>2, InitOK DEF FInv

\* The message half of a batch (purgeBatch) drops references to dead files only; it
\* removes rows or empties them, and changes nothing else of a message.
LEMMA PurgedKeeps ==
  ASSUME NEW due, NEW stale
  PROVE  LET p == Purged(Store, due, stale)
         IN /\ \A r \in refs : Live(r[2]) => r \in p.refs
            /\ DOMAIN p.messages \subseteq DOMAIN messages
            /\ \A m \in DOMAIN p.messages :
                 \/ p.messages[m] = messages[m]
                 \/ p.messages[m] = [messages[m] EXCEPT !.text = Null]
<1> DEFINE old == Lowest(OldTombstones(Store), Limit)
           bare == DropDeadRefs(Store, old)
           t == RemoveTombstones(bare, Bare(bare, old))
           u == ForgetDedups(t, stale)
<1>1. Purged(Store, due, stale) = ExpireContent(u, due)
  BY Zenon DEF Purged
<1>2. bare.messages = messages /\ \A r \in refs : Live(r[2]) => r \in bare.refs
  BY DEF DropDeadRefs, Store
<1> HIDE DEF old, bare
<1>3. /\ t.refs = bare.refs
      /\ DOMAIN t.messages \subseteq DOMAIN messages
      /\ \A m \in DOMAIN t.messages : t.messages[m] = messages[m]
  BY <1>2 DEF RemoveTombstones
<1> HIDE DEF t
<1>4. u.messages = t.messages /\ u.refs = t.refs
  BY DEF ForgetDedups
<1> HIDE DEF u
<1>5. /\ ExpireContent(u, due).messages =
           [m \in DOMAIN u.messages |->
              IF m \in due THEN [u.messages[m] EXCEPT !.text = Null]
              ELSE u.messages[m]]
      /\ \A r \in u.refs : Live(r[2]) => r \in ExpireContent(u, due).refs
  BY DEF ExpireContent, DropDeadRefs
<1> QED BY <1>1, <1>2, <1>3, <1>4, <1>5

\* Dropping the references to condemned files (expireFileReference) leaves the other
\* references, and removes rows without changing one.
LEMMA ReferencesKeeps ==
  ASSUME NEW s, NEW fs
  PROVE  LET e == ExpireReferences(s, fs)
         IN /\ \A r \in s.refs : r[2] \notin fs => r \in e.refs
            /\ DOMAIN e.messages \subseteq DOMAIN s.messages
            /\ \A m \in DOMAIN e.messages : e.messages[m] = s.messages[m]
  BY DEF ExpireReferences, RemoveTombstones

\* A batch keeps the references of live files, and messages only age in it.
LEMMA BatchKeeps ==
  ASSUME FInv, RetentionBatch
  PROVE  /\ RefKept' /\ IdsGiven'
         /\ UNCHANGED accepted
         /\ DOMAIN messages' \subseteq DOMAIN messages
         /\ \A m \in DOMAIN messages' :
              \/ messages'[m] = messages[m]
              \/ messages'[m] = [messages[m] EXCEPT !.text = Null]
<1> DEFINE mcursor == Cursor(mprog, MessageDays)
           fcursor == Cursor(fprog, FileDays)
           due == Lowest(DueMessages(Store, mcursor), Limit)
           fdue == Lowest(DueFiles(fcursor), Limit)
           purged(stale) == Purged(Store, due, stale)
           left(stale) == ExpireReferences(purged(stale), fdue)
<1>1. PICK stale \in Forgettable(Store), order \in Ascending(due) :
        Effect(Store, mcursor, fcursor, due, fdue, order, purged(stale), left(stale))
  BY BatchEffect
<1> HIDE DEF mcursor, fcursor, due, fdue
<1>2. /\ \A r \in refs : Live(r[2]) => r \in purged(stale).refs
      /\ DOMAIN purged(stale).messages \subseteq DOMAIN messages
      /\ \A m \in DOMAIN purged(stale).messages :
           \/ purged(stale).messages[m] = messages[m]
           \/ purged(stale).messages[m] = [messages[m] EXCEPT !.text = Null]
  BY PurgedKeeps
<1> HIDE DEF purged
<1>3. /\ \A r \in purged(stale).refs : r[2] \notin fdue => r \in left(stale).refs
      /\ DOMAIN left(stale).messages \subseteq DOMAIN purged(stale).messages
      /\ \A m \in DOMAIN left(stale).messages :
           left(stale).messages[m] = purged(stale).messages[m]
  BY ReferencesKeeps
<1> HIDE DEF left
<1>4. /\ messages' = left(stale).messages
      /\ refs' = left(stale).refs
      /\ files' = [f \in Files |->
                 IF f \in fdue THEN [files[f] EXCEPT !.state = "deleting"]
                 ELSE files[f]]
      /\ now' = now /\ lastId' = lastId /\ accepted' = accepted
  BY <1>1 DEF Effect, clients
<1>5. RefKept'
  <2> SUFFICES ASSUME NEW f \in Files, Live(f)'
               PROVE  <<files'[f].msg, f>> \in refs'
    BY DEF RefKept
  <2>1. files[f] \in FileRow
    BY DEF FInv, IInv, TypeOK
  <2>2. f \notin fdue
    <3> SUFFICES ASSUME f \in fdue PROVE FALSE
      OBVIOUS
    <3>1. files'[f].state = "deleting"
      BY <1>4, <2>1 DEF FileRow
    <3> QED BY <3>1 DEF Live
  <2>3. files'[f] = files[f] /\ Live(f)
    BY <1>4, <2>2 DEF Live
  <2>4. <<files[f].msg, f>> \in refs
    BY <2>3 DEF FInv, RefKept
  <2> QED BY <1>2, <1>3, <1>4, <2>2, <2>3, <2>4
<1>6. IdsGiven'
  BY <1>4 DEF FInv, IdsGiven
<1> QED BY <1>2, <1>3, <1>4, <1>5, <1>6

\* An accepted request binds its files to the row it inserts (bind), gives out a new
\* identifier, and was not accepted under its key before.
LEMMA CreateNewKeeps ==
  ASSUME FInv, NEW k \in Keys, NEW r \in Requests, CreateNew(k, r)
  PROVE  /\ RefKept' /\ IdsGiven'
         /\ accepted[k] = Null
         /\ accepted' = [accepted EXCEPT ![k] = [id |-> lastId + 1, req |-> r]]
         /\ DOMAIN messages' = DOMAIN messages \cup {lastId + 1}
         /\ messages'[lastId + 1].text # Null
         /\ \A m \in 1..lastId : m \in DOMAIN messages => messages'[m] = messages[m]
<1> DEFINE id == lastId + 1
           row == [key |-> k, conv |-> r.conv, text |-> r.text, created |-> now]
<1>1. /\ lastId' = id /\ now' = now
      /\ refs' = refs \cup {<<id, f>> : f \in r.files}
      /\ files' = [f \in Files |->
                    IF f \in r.files
                    THEN [files[f] EXCEPT !.state = "attached", !.msg = id]
                    ELSE files[f]]
  BY DEF CreateNew
<1>2. /\ messages' = [m \in DOMAIN messages \cup {id} |->
                        IF m = id THEN row ELSE messages[m]]
      /\ accepted' = [accepted EXCEPT ![k] = [id |-> id, req |-> r]]
  BY DEF CreateNew
<1>3. /\ k \notin DOMAIN dedup
      /\ born[k] # Null => now <= born[k] + RetryDays
  BY DEF CreateNew, Outcome, MaySend
<1>4. accepted[k] = Null
  <2> SUFFICES ASSUME accepted[k] # Null PROVE FALSE
    OBVIOUS
  <2>1. born[k] # Null /\ (k \in DOMAIN dedup \/ born[k] + RetryDays < now)
    BY DEF FInv, IInv, StoreOK, StoreAged, Store
  <2>2. born[k] \in Nat /\ now \in Nat
    BY <2>1 DEF FInv, IInv, TypeOK
  <2> QED BY <1>3, <2>1, <2>2
<1>5. id \in Nat /\ id \in 1..id /\ \A m \in 1..lastId : m # id /\ m \in 1..id
  BY DEF FInv, IInv, TypeOK
<1>6. row.text # Null
  BY DEF FInv, IInv, TypeOK, Requests
<1> HIDE DEF row, id
<1>7. RefKept'
  <2> SUFFICES ASSUME NEW f \in Files, Live(f)'
               PROVE  <<files'[f].msg, f>> \in refs'
    BY DEF RefKept
  <2>1. CASE f \in r.files
    <3>1. files[f] \in FileRow
      BY DEF FInv, IInv, TypeOK
    <3>2. files'[f].msg = id
      BY <1>1, <2>1, <3>1 DEF FileRow
    <3>3. <<id, f>> \in refs'
      BY <1>1, <2>1
    <3> QED BY <3>2, <3>3
  <2>2. CASE f \notin r.files
    <3>1. files'[f] = files[f]
      BY <1>1, <2>2
    <3>2. Live(f)
      BY <1>1, <3>1 DEF Live
    <3>3. <<files[f].msg, f>> \in refs
      BY <3>2 DEF FInv, RefKept
    <3>4. refs \subseteq refs'
      BY <1>1
    <3> QED BY <3>1, <3>3, <3>4
  <2> QED BY <2>1, <2>2
<1>8. IdsGiven'
  <2> SUFFICES ASSUME NEW x \in Keys, accepted'[x] # Null
               PROVE  accepted'[x].id \in 1..id
    BY <1>1 DEF IdsGiven
  <2>1. DOMAIN accepted = Keys
    BY DEF FInv, IInv, TypeOK
  <2>2. CASE x = k
    <3>1. accepted'[x].id = id
      BY <1>2, <2>1, <2>2
    <3> QED BY <1>5, <3>1
  <2>3. CASE x # k
    <3>1. accepted'[x] = accepted[x]
      BY <1>2, <2>1, <2>3
    <3>2. accepted[x].id \in 1..lastId
      BY <3>1 DEF FInv, IdsGiven
    <3> QED BY <1>5, <3>1, <3>2
  <2> QED BY <2>2, <2>3
<1>9. DOMAIN messages' = DOMAIN messages \cup {id}
  BY <1>2
<1>10. messages'[id].text # Null
  BY <1>2, <1>6
<1>11. \A m \in 1..lastId : m \in DOMAIN messages => messages'[m] = messages[m]
  BY <1>2, <1>5
<1> QED BY <1>2, <1>4, <1>7, <1>8, <1>9, <1>10, <1>11 DEF id

\* What a step of Next leaves of what was accepted: a retry, an upload and the clock
\* change no message.
LEMMA OthersKeep ==
  ASSUME FInv,
         \/ Tick
         \/ UNCHANGED vars
         \/ \E k \in Keys, r \in Requests : CreateAgain(k, r)
         \/ \E f \in Files, c \in Conversations : Upload(f, c)
  PROVE  RefKept' /\ IdsGiven' /\ UNCHANGED <<accepted, messages>>
<1>1. UNCHANGED <<accepted, messages, lastId, refs>>
  BY DEF Tick, CreateAgain, Upload, vars, tables, progress, clients
<1>2. IdsGiven'
  BY <1>1 DEF FInv, IdsGiven
<1>3. now \in Nat /\ now' \in Nat /\ now <= now'
  BY DEF FInv, IInv, TypeOK, Tick, CreateAgain, Upload, vars, tables, progress, clients
<1>4. files \in [Files -> FileRow]
  BY DEF FInv, IInv, TypeOK
<1>5. \A f \in Files : files'[f].state = "attached" => files'[f] = files[f]
  <2>1. CASE \E f \in Files, c \in Conversations : Upload(f, c)
    BY <1>4, <2>1 DEF Upload
  <2>2. CASE ~ \E f \in Files, c \in Conversations : Upload(f, c)
    BY <2>2 DEF Tick, CreateAgain, vars, tables
  <2> QED BY <2>1, <2>2
<1>6. RefKept'
  <2> SUFFICES ASSUME NEW f \in Files, Live(f)'
               PROVE  <<files'[f].msg, f>> \in refs'
    BY DEF RefKept
  <2>1. files'[f] = files[f] /\ files[f].state = "attached"
    BY <1>5 DEF Live
  <2>2. files[f].created \in Nat /\ files[f].created + FileDays > now'
    BY <1>4, <2>1 DEF Live, FileRow
  <2>3. Live(f)
    BY <1>3, <2>1, <2>2 DEF Live
  <2> QED BY <1>1, <2>1, <2>3 DEF FInv, RefKept
<1> QED BY <1>1, <1>2, <1>6

\* One step per action.
LEMMA NextKeeps == FInv /\ [Next]_vars => FInv'
<1> SUFFICES ASSUME FInv, [Next]_vars PROVE FInv'
  OBVIOUS
<1>1. IInv'
  BY NextOK DEF FInv
<1>2. CASE RetentionBatch
  BY <1>1, <1>2, BatchKeeps DEF FInv
<1>3. CASE \E k \in Keys, r \in Requests : CreateNew(k, r)
  BY <1>1, <1>3, CreateNewKeeps DEF FInv
<1>4. CASE \/ Tick
           \/ UNCHANGED vars
           \/ \E k \in Keys, r \in Requests : CreateAgain(k, r)
           \/ \E f \in Files, c \in Conversations : Upload(f, c)
  <2>1. RefKept' /\ IdsGiven'
    BY <1>4, OthersKeep
  <2> QED BY <1>1, <2>1 DEF FInv
<1> QED BY <1>2, <1>3, <1>4 DEF Next

\* References of live files and identifiers given out, in every state.
THEOREM FilesInductive == Spec => []FInv
  BY InitKeeps, NextKeeps, PTL DEF Spec

\* While an attached file can be downloaded its message, or the tombstone of it, and
\* the reference between the two are there, whatever the batches dropped.
THEOREM LiveFilesKept == Spec => []LiveFileKeepsMessage
<1>1. FInv => LiveFileKeepsMessage
  <2> SUFFICES ASSUME FInv, NEW f \in Files, Live(f)
               PROVE  files[f].msg \in DOMAIN messages /\ <<files[f].msg, f>> \in refs
    BY DEF LiveFileKeepsMessage
  <2>1. <<files[f].msg, f>> \in refs
    BY DEF FInv, RefKept
  <2>2. \A r \in refs : r[1] \in DOMAIN messages
    BY DEF FInv, IInv, StoreOK, StoreAgrees, Store
  <2> QED BY <2>1, <2>2
<1> QED BY <1>1, FilesInductive, PTL
-----------------------------------------------------------------------------
(* The store implements the ledger *)

\* A key no request was accepted for is new to the ledger.
LEMMA InitLedger == Init => Ledger!LedgerInit
  BY DEF Init, Ledger!LedgerInit, Phase

\* A batch ages messages, and takes nothing back.
LEMMA BatchAges == FInv /\ RetentionBatch => Ledger!Age
<1> SUFFICES ASSUME FInv, RetentionBatch PROVE Ledger!Age
  OBVIOUS
<1>1. /\ accepted' = accepted
      /\ DOMAIN messages' \subseteq DOMAIN messages
      /\ \A m \in DOMAIN messages' :
           \/ messages'[m] = messages[m]
           \/ messages'[m] = [messages[m] EXCEPT !.text = Null]
  BY BatchKeeps
<1>2. \A m \in DOMAIN messages : messages[m] \in Row
  BY DEF FInv, IInv, TypeOK
<1>3. \A m \in DOMAIN messages' :
        messages'[m].text = messages[m].text \/ messages'[m].text = Null
  BY <1>1, <1>2 DEF Row
<1>4. ASSUME NEW k \in Keys
      PROVE  /\ Phase(k)' \in Ledger!Phases
             /\ \/ Phase(k)' = Phase(k)
                \/ Phase(k) = "live" /\ Phase(k)' \in {"expired", "gone"}
                \/ Phase(k) = "expired" /\ Phase(k)' = "gone"
  BY <1>1, <1>3 DEF Phase, Ledger!Phases
<1> QED BY <1>4 DEF Ledger!Age

\* An accepted request makes a key that was new live.
LEMMA CreateAccepts ==
  ASSUME FInv, NEW k \in Keys, NEW r \in Requests, CreateNew(k, r)
  PROVE  Ledger!Accept(k) \/ UNCHANGED [x \in Keys |-> Phase(x)]
<1>1. /\ accepted[k] = Null
      /\ accepted' = [accepted EXCEPT ![k] = [id |-> lastId + 1, req |-> r]]
      /\ DOMAIN messages' = DOMAIN messages \cup {lastId + 1}
      /\ messages'[lastId + 1].text # Null
      /\ \A m \in 1..lastId : m \in DOMAIN messages => messages'[m] = messages[m]
  BY CreateNewKeeps
<1>2. lastId \in Nat /\ DOMAIN accepted = Keys
  BY DEF FInv, IInv, TypeOK
<1>3. \A x \in Keys : x # k => Phase(x)' = Phase(x)
  <2> SUFFICES ASSUME NEW x \in Keys, x # k PROVE Phase(x)' = Phase(x)
    OBVIOUS
  <2>1. accepted'[x] = accepted[x]
    BY <1>1, <1>2
  <2>2. CASE accepted[x] = Null
    BY <2>1, <2>2 DEF Phase
  <2>3. CASE accepted[x] # Null
    <3>1. accepted[x].id \in 1..lastId
      BY <2>3 DEF FInv, IdsGiven
    <3>2. accepted[x].id \in DOMAIN messages' <=> accepted[x].id \in DOMAIN messages
      BY <1>1, <1>2, <3>1
    <3>3. accepted[x].id \in DOMAIN messages =>
            messages'[accepted[x].id] = messages[accepted[x].id]
      BY <1>1, <3>1
    <3> QED BY <2>1, <3>2, <3>3 DEF Phase
  <2> QED BY <2>2, <2>3
<1>4. Phase(k) = "new" /\ Phase(k)' \in {"new", "live"}
  <2>1. accepted'[k].id = lastId + 1
    BY <1>1, <1>2
  <2> QED BY <1>1, <2>1 DEF Phase
<1>5. CASE Phase(k)' = "live"
  BY <1>3, <1>4, <1>5 DEF Ledger!Accept
<1>6. CASE Phase(k)' = "new"
  BY <1>3, <1>4, <1>6
<1> QED BY <1>4, <1>5, <1>6

\* Every step of the store is a step of the ledger or none.
LEMMA NextLedger ==
  FInv /\ [Next]_vars => Ledger!LedgerNext \/ UNCHANGED [k \in Keys |-> Phase(k)]
<1> SUFFICES ASSUME FInv, [Next]_vars
             PROVE  Ledger!LedgerNext \/ UNCHANGED [k \in Keys |-> Phase(k)]
  OBVIOUS
<1>1. CASE RetentionBatch
  BY <1>1, BatchAges DEF Ledger!LedgerNext
<1>2. CASE \E k \in Keys, r \in Requests : CreateNew(k, r)
  BY <1>2, CreateAccepts DEF Ledger!LedgerNext
<1>3. CASE \/ Tick
           \/ UNCHANGED vars
           \/ \E k \in Keys, r \in Requests : CreateAgain(k, r)
           \/ \E f \in Files, c \in Conversations : Upload(f, c)
  <2>1. UNCHANGED <<accepted, messages>>
    BY <1>3, OthersKeep
  <2> QED BY <2>1 DEF Phase
<1> QED BY <1>1, <1>2, <1>3 DEF Next

\* The store implements the ledger: one acceptance per key, content that expires
\* before its row goes, and nothing that comes back.
THEOREM LedgerImplemented == Spec => ImplementsLedger
<1> QED
  BY InitLedger, NextLedger, FilesInductive, PTL
     DEF Spec, ImplementsLedger, Ledger!LedgerSpec
-----------------------------------------------------------------------------
(* What a batch leaves of a message that is not due *)

\* A message as readers see it.
Visible(s, m) == m \in DOMAIN s.messages /\ s.messages[m].text # Null

\* A store t to which a batch over s, which empties the messages due and condemns the
\* files fs, may come: deduplication rows only lose their message, references only go,
\* and a message that is not due keeps its row, its text, and its references to files
\* that are not condemned.
Ages(s, t, due, fs) ==
  /\ DOMAIN t.dedup \subseteq DOMAIN s.dedup
  /\ \A k \in DOMAIN t.dedup :
       t.dedup[k].conv = s.dedup[k].conv /\ t.dedup[k].msg \in {Null, s.dedup[k].msg}
  /\ t.refs \subseteq s.refs
  /\ \A m : Visible(t, m) <=> Visible(s, m) /\ m \notin due
  /\ \A m : Visible(t, m) =>
       /\ t.messages[m] = s.messages[m]
       /\ \A f : <<m, f>> \in s.refs /\ f \notin fs => <<m, f>> \in t.refs

\* Purging the messages due (purgeBatch).
LEMMA PurgedAges ==
  ASSUME IInv, NEW due \in SUBSET DOMAIN messages, NEW stale \in Forgettable(Store)
  PROVE  Ages(Store, Purged(Store, due, stale), due, {})
<1> DEFINE old == Lowest(OldTombstones(Store), Limit)
           bare == DropDeadRefs(Store, old)
           gone == Bare(bare, old)
           t == RemoveTombstones(bare, gone)
           u == ForgetDedups(t, stale)
           e == ExpireContent(u, due)
<1>1. Purged(Store, due, stale) = e
  BY Zenon DEF Purged
<1>2. /\ messages \in [DOMAIN messages -> Row] /\ dedup \in [DOMAIN dedup -> DedupRow]
      /\ refs \subseteq (1..lastId) \X Files
  BY DEF IInv, TypeOK
<1>3. gone \subseteq old /\ \A m \in old : m \in DOMAIN messages /\ messages[m].text = Null
  BY DEF Bare, Lowest, OldTombstones, Store
<1>4. /\ bare.messages = messages /\ bare.dedup = dedup /\ bare.refs \subseteq refs
      /\ \A r \in refs : r[1] \notin old => r \in bare.refs
  BY DEF DropDeadRefs, Store
<1> HIDE DEF old, bare, gone
<1>5. /\ t.messages = [m \in DOMAIN messages \ gone |-> messages[m]]
      /\ t.dedup = [k \in DOMAIN dedup |->
                      IF dedup[k].msg \in gone THEN [dedup[k] EXCEPT !.msg = Null]
                      ELSE dedup[k]]
      /\ t.refs = bare.refs
  BY <1>4 DEF RemoveTombstones
<1>6. /\ DOMAIN t.dedup = DOMAIN dedup
      /\ \A k \in DOMAIN t.dedup :
           t.dedup[k] \in DedupRow /\ t.dedup[k].conv = dedup[k].conv
           /\ t.dedup[k].msg \in {Null, dedup[k].msg}
  BY <1>2, <1>5 DEF DedupRow
<1> HIDE DEF t
<1>7. /\ u.messages = t.messages /\ u.refs = t.refs
      /\ u.dedup = [k \in DOMAIN t.dedup \ stale |-> t.dedup[k]]
  BY DEF ForgetDedups
<1>8. /\ DOMAIN u.dedup \subseteq DOMAIN dedup
      /\ \A k \in DOMAIN u.dedup :
           u.dedup[k] \in DedupRow /\ u.dedup[k].conv = dedup[k].conv
           /\ u.dedup[k].msg \in {Null, dedup[k].msg}
  BY <1>6, <1>7
<1> HIDE DEF u
<1>9. /\ e.messages = [m \in DOMAIN u.messages |->
              IF m \in due THEN [u.messages[m] EXCEPT !.text = Null] ELSE u.messages[m]]
      /\ e.dedup = [k \in DOMAIN u.dedup |->
              IF u.dedup[k].expiredAt = Null /\ \E m \in due : u.messages[m].key = k
              THEN [u.dedup[k] EXCEPT !.expiredAt = now] ELSE u.dedup[k]]
      /\ e.refs = {r \in u.refs : r[1] \in due => Live(r[2])}
  BY DEF ExpireContent, DropDeadRefs
<1> HIDE DEF e
<1>10. /\ DOMAIN e.dedup \subseteq DOMAIN dedup
       /\ \A k \in DOMAIN e.dedup :
            e.dedup[k].conv = dedup[k].conv /\ e.dedup[k].msg \in {Null, dedup[k].msg}
  BY <1>8, <1>9 DEF DedupRow
<1>11. e.refs \subseteq refs
  BY <1>4, <1>5, <1>7, <1>9
<1>12. DOMAIN e.messages = DOMAIN messages \ gone
  BY <1>5, <1>7, <1>9
<1>13. \A m \in DOMAIN e.messages :
         e.messages[m] = IF m \in due THEN [messages[m] EXCEPT !.text = Null] ELSE messages[m]
  BY <1>5, <1>7, <1>9
<1>14. \A m : Visible(e, m) <=> Visible(Store, m) /\ m \notin due
  <2> SUFFICES ASSUME NEW m PROVE Visible(e, m) <=> Visible(Store, m) /\ m \notin due
    OBVIOUS
  <2>1. CASE m \in DOMAIN e.messages /\ m \in due
    <3>1. e.messages[m].text = Null
      BY <1>2, <1>12, <1>13, <2>1 DEF Row
    <3> QED BY <2>1, <3>1 DEF Visible
  <2>2. CASE m \in DOMAIN e.messages /\ m \notin due
    BY <1>12, <1>13, <2>2 DEF Visible, Store
  <2>3. CASE m \notin DOMAIN e.messages
    BY <1>3, <1>12, <2>3 DEF Visible, Store
  <2> QED BY <2>1, <2>2, <2>3
<1>15. \A m : Visible(e, m) => e.messages[m] = messages[m]
  BY <1>13, <1>14 DEF Visible
<1>16. \A m : Visible(e, m) => \A f : <<m, f>> \in refs => <<m, f>> \in e.refs
  <2> SUFFICES ASSUME NEW m, Visible(e, m), NEW f, <<m, f>> \in refs
               PROVE  <<m, f>> \in e.refs
    OBVIOUS
  <2>1. m \notin due /\ m \notin old
    BY <1>3, <1>14 DEF Visible, Store
  <2> QED BY <1>4, <1>5, <1>7, <1>9, <2>1
<1> QED BY <1>1, <1>10, <1>11, <1>14, <1>15, <1>16 DEF Ages, Store

\* Dropping the references to condemned files (expireFileReference).
LEMMA ReferencesAges ==
  ASSUME NEW s, StoreTyped(s), NEW fs
  PROVE  Ages(s, ExpireReferences(s, fs), {}, fs)
<1> DEFINE left == [messages |-> s.messages, dedup |-> s.dedup,
                    refs |-> {r \in s.refs : r[2] \notin fs}]
           touched == {m \in DOMAIN s.messages : \E f \in fs : <<m, f>> \in s.refs}
           over == {m \in touched : s.messages[m].text = Null}
           gone == Bare(left, over)
           e == ExpireReferences(s, fs)
<1>1. e = RemoveTombstones(left, gone)
  BY DEF ExpireReferences
<1>2. gone \subseteq DOMAIN s.messages /\ \A m \in gone : s.messages[m].text = Null
  BY DEF Bare
<1> HIDE DEF gone, over
<1>3. /\ e.messages = [m \in DOMAIN s.messages \ gone |-> s.messages[m]]
      /\ e.dedup = [k \in DOMAIN s.dedup |->
                      IF s.dedup[k].msg \in gone THEN [s.dedup[k] EXCEPT !.msg = Null]
                      ELSE s.dedup[k]]
      /\ e.refs = {r \in s.refs : r[2] \notin fs}
  BY <1>1 DEF RemoveTombstones
<1> HIDE DEF e
<1>4. /\ DOMAIN e.dedup \subseteq DOMAIN s.dedup
      /\ \A k \in DOMAIN e.dedup :
           e.dedup[k].conv = s.dedup[k].conv /\ e.dedup[k].msg \in {Null, s.dedup[k].msg}
  BY <1>3 DEF StoreTyped, DedupRow
<1>5. \A m : Visible(e, m) <=> Visible(s, m)
  BY <1>2, <1>3 DEF Visible
<1>6. \A m : Visible(e, m) => e.messages[m] = s.messages[m]
  BY <1>3 DEF Visible
<1> QED BY <1>3, <1>4, <1>5, <1>6 DEF Ages, e

\* A whole batch: which messages it takes, in which order it tells of them, and what
\* it leaves.
LEMMA BatchAgesStore ==
  ASSUME IInv, RetentionBatch
  PROVE  \E due \in SUBSET DOMAIN messages, fdue \in SUBSET Files :
         \E order \in Ascending(due) :
           /\ Ages(Store, Store', due, fdue)
           /\ \A m \in due : Visible(Store, m)
           /\ \A f \in fdue : files[f].created <= Cursor(fprog, FileDays).cut
           /\ outbox' = outbox \o
                [i \in 1..Cardinality(due) |-> [type |-> "deleted", msg |-> order[i]]]
           /\ files' = [f \in Files |->
                 IF f \in fdue THEN [files[f] EXCEPT !.state = "deleting"] ELSE files[f]]
           /\ fprog' # Null => fprog'.cut \in {Cursor(fprog, FileDays).cut, now - FileDays}
           /\ UNCHANGED <<now, lastId, born, accepted>>
<1> DEFINE mcursor == Cursor(mprog, MessageDays)
           fcursor == Cursor(fprog, FileDays)
           due == Lowest(DueMessages(Store, mcursor), Limit)
           fdue == Lowest(DueFiles(fcursor), Limit)
           purged(stale) == Purged(Store, due, stale)
           left(stale) == ExpireReferences(purged(stale), fdue)
<1>1. PICK stale \in Forgettable(Store), order \in Ascending(due) :
        Effect(Store, mcursor, fcursor, due, fdue, order, purged(stale), left(stale))
  BY BatchEffect
<1>2. /\ now \in Nat /\ mprog \in CursorRow \cup {Null}
      /\ mcursor.cut \in Int /\ mcursor.cut + MessageDays <= now
  BY DEF IInv, TypeOK, Cursor, CursorRow
<1>3. /\ due \in SUBSET DOMAIN messages
      /\ \A m \in due : messages[m].text # Null /\ messages[m].created <= mcursor.cut
  BY DEF Lowest, DueMessages, Store
<1>4. fdue \in SUBSET Files /\ \A f \in fdue : files[f].created <= fcursor.cut
  BY DEF Lowest, DueFiles
<1> HIDE DEF mcursor, due, fdue
<1>5. \A m \in due : messages[m].created + MessageDays <= now
  <2>1. \A m \in due : messages[m].created \in Nat
    BY <1>3 DEF IInv, TypeOK, Row
  <2> QED BY <1>2, <1>3, <2>1
<1>6. Ages(Store, purged(stale), due, {}) /\ StoreTyped(purged(stale))
  BY <1>3, <1>5, PurgedAges, PurgedOK DEF StoreOK
<1> HIDE DEF purged
<1>7. Ages(purged(stale), left(stale), {}, fdue)
  BY <1>6, ReferencesAges
<1> HIDE DEF left
<1>8. Ages(Store, left(stale), due, fdue)
  BY <1>6, <1>7 DEF Ages
<1>9. Store' = [messages |-> left(stale).messages, dedup |-> left(stale).dedup,
                refs |-> left(stale).refs]
  BY <1>1 DEF Effect, Store
<1>10. Ages(Store, Store', due, fdue)
  BY <1>8, <1>9 DEF Ages, Visible
<1>11. \A m \in due : Visible(Store, m)
  BY <1>3 DEF Visible, Store
<1>12. /\ outbox' = outbox \o
            [i \in 1..Cardinality(due) |-> [type |-> "deleted", msg |-> order[i]]]
       /\ files' = [f \in Files |->
             IF f \in fdue THEN [files[f] EXCEPT !.state = "deleting"] ELSE files[f]]
       /\ fprog'.cut \in {fcursor.cut, now - FileDays}
       /\ UNCHANGED <<now, lastId, born, accepted>>
  BY <1>1 DEF Effect, NextFiles, clients
<1> QED BY <1>3, <1>4, <1>10, <1>11, <1>12

-----------------------------------------------------------------------------
(* What the outbox tells *)

\* One creation for every identifier given out, and one deletion, after it, exactly for
\* the messages whose content has gone.
Told ==
  /\ \A i \in DOMAIN outbox : outbox[i].msg \in 1..lastId
  /\ \A i, j \in DOMAIN outbox : outbox[i] = outbox[j] => i = j
  /\ \A m \in 1..lastId : \E i \in DOMAIN outbox : outbox[i] = [type |-> "created", msg |-> m]
  /\ \A m \in 1..lastId :
       (\E i \in DOMAIN outbox : outbox[i] = [type |-> "deleted", msg |-> m])
         <=> ~Visible(Store, m)
  /\ \A i, j \in DOMAIN outbox :
       /\ outbox[i].type = "created" /\ outbox[j].type = "deleted"
       /\ outbox[i].msg = outbox[j].msg
       => i < j

\* A batch tells of every message it takes, once.
LEMMA AscendingOnto ==
  ASSUME NEW S, IsFiniteSet(S), S \subseteq Nat, NEW s \in Ascending(S)
  PROVE  /\ Cardinality(S) \in Nat
         /\ \A i \in 1..Cardinality(S) : s[i] \in S
         /\ \A i, j \in 1..Cardinality(S) : s[i] = s[j] => i = j
         /\ \A x \in S : \E i \in 1..Cardinality(S) : s[i] = x
<1> DEFINE n == Cardinality(S)
<1>1. n \in Nat
  BY FS_CardinalityType
<1>2. s \in [1..n -> S] /\ \A i, j \in 1..n : i < j => s[i] < s[j]
  BY DEF Ascending
<1>3. \A i, j \in 1..n : s[i] = s[j] => i = j
  <2> SUFFICES ASSUME NEW i \in 1..n, NEW j \in 1..n, s[i] = s[j], i # j PROVE FALSE
    OBVIOUS
  <2>1. i < j \/ j < i
    BY <1>1
  <2>3. s[i] \in Nat /\ s[j] \in Nat
    BY <1>2
  <2>2. s[i] < s[j] \/ s[j] < s[i]
    BY <1>2, <2>1
  <2> QED BY <2>2, <2>3
<1>4. s \in Injection(1..n, S)
  BY <1>2, <1>3 DEF Injection, IsInjective
<1>5. Cardinality(1..n) = n
  BY <1>1, FS_Interval
<1>6. s \in Surjection(1..n, S)
  BY <1>4, <1>5, FS_Injection
<1> QED BY <1>1, <1>2, <1>3, <1>6 DEF Surjection

\* A batch (processBatch) appends the deletion of each message it takes.
LEMMA BatchTold == ASSUME IInv, Told, RetentionBatch PROVE Told'
<1>a. PICK due \in SUBSET DOMAIN messages, fdue \in SUBSET Files :
        \E order \in Ascending(due) :
          /\ Ages(Store, Store', due, fdue)
          /\ \A m \in due : Visible(Store, m)
          /\ outbox' = outbox \o
               [i \in 1..Cardinality(due) |-> [type |-> "deleted", msg |-> order[i]]]
          /\ lastId' = lastId
  BY BatchAgesStore
<1>1. PICK order \in Ascending(due) :
        /\ Ages(Store, Store', due, fdue)
        /\ \A m \in due : Visible(Store, m)
        /\ outbox' = outbox \o
             [i \in 1..Cardinality(due) |-> [type |-> "deleted", msg |-> order[i]]]
        /\ lastId' = lastId
  BY <1>a
<1> DEFINE n == Len(outbox)
           c == Cardinality(due)
<1>2. outbox \in Seq(Event) /\ n \in Nat /\ DOMAIN outbox = 1..n /\ lastId \in Nat
  BY DEF IInv, TypeOK
<1>3. due \subseteq 1..lastId /\ IsFiniteSet(due) /\ due \subseteq Nat
  <2>1. due \subseteq 1..lastId
    BY DEF IInv, TypeOK
  <2>2. IsFiniteSet(1..lastId)
    BY <1>2, FS_Interval
  <2> QED BY <1>2, <2>1, <2>2, FS_Subset
<1>4. /\ c \in Nat
      /\ \A i \in 1..c : order[i] \in due
      /\ \A i, j \in 1..c : order[i] = order[j] => i = j
      /\ \A m \in due : \E i \in 1..c : order[i] = m
  BY <1>3, AscendingOnto
<1> HIDE DEF c
<1>5. /\ DOMAIN outbox' = 1..(n + c)
      /\ \A i \in 1..n : outbox'[i] = outbox[i]
      /\ \A i \in (n+1)..(n + c) :
           i - n \in 1..c /\ outbox'[i] = [type |-> "deleted", msg |-> order[i - n]]
  <2> DEFINE told == [i \in 1..c |-> [type |-> "deleted", msg |-> order[i]]]
  <2>1. told \in [1..c -> Event]
    BY <1>3, <1>4 DEF Event
  <2>2. told \in Seq(Event) /\ Len(told) = c
    BY <1>4, <2>1, SeqDef, LenProperties
  <2>3. \A i \in 1..c : told[i] = [type |-> "deleted", msg |-> order[i]]
    OBVIOUS
  <2> HIDE DEF told
  <2>4. outbox' = outbox \o told
    BY <1>1 DEF told, c
  <2>5. \A i \in (n+1)..(n + c) : i - n \in 1..c
    BY <1>2, <1>4
  <2> QED BY <1>2, <1>4, <2>2, <2>3, <2>4, <2>5, ConcatProperties
<1> HIDE DEF n
<1>5a. \A i \in (n+1)..(n + c) :
         /\ i - n \in 1..c /\ order[i - n] \in due
         /\ outbox'[i].type = "deleted" /\ outbox'[i].msg = order[i - n]
  <2> SUFFICES ASSUME NEW i \in (n+1)..(n + c)
               PROVE  /\ i - n \in 1..c /\ order[i - n] \in due
                      /\ outbox'[i].type = "deleted" /\ outbox'[i].msg = order[i - n]
    OBVIOUS
  <2>1. i - n \in 1..c
    BY <1>5
  <2>2. outbox'[i] = [type |-> "deleted", msg |-> order[i - n]]
    BY <1>5
  <2>3. order[i - n] \in due
    BY <1>4, <2>1
  <2> QED BY <2>1, <2>2, <2>3
<1>6. \A i \in DOMAIN outbox' : i \in 1..n \/ i \in (n+1)..(n + c)
  BY <1>2, <1>4, <1>5
<1>7. \A x \in 1..c : n + x \in (n+1)..(n + c) /\ (n + x) - n = x
  BY <1>2, <1>4
<1>8. \A m \in 1..lastId : Visible(Store', m) <=> Visible(Store, m) /\ m \notin due
  BY <1>1 DEF Ages
<1>9. \A i \in DOMAIN outbox' : outbox'[i].msg \in 1..lastId'
  <2>1. \A i \in 1..n : outbox'[i].msg \in 1..lastId
    BY <1>2, <1>5 DEF Told
  <2>2. \A i \in (n+1)..(n + c) : outbox'[i].msg \in 1..lastId
    BY <1>3, <1>5a
  <2> QED BY <1>1, <1>6, <2>1, <2>2
<1>10. \A i \in 1..n, j \in (n+1)..(n + c) : outbox'[i] # outbox'[j]
  <2> SUFFICES ASSUME NEW i \in 1..n, NEW j \in (n+1)..(n + c), outbox'[i] = outbox'[j]
               PROVE  FALSE
    OBVIOUS
  <2>1. outbox[i] = [type |-> "deleted", msg |-> order[j - n]] /\ order[j - n] \in due
    BY <1>4, <1>5
  <2>2. ~Visible(Store, order[j - n])
    BY <1>2, <1>3, <2>1 DEF Told
  <2> QED BY <1>1, <2>1, <2>2
<1>11. \A i, j \in DOMAIN outbox' : outbox'[i] = outbox'[j] => i = j
  <2> SUFFICES ASSUME NEW i \in DOMAIN outbox', NEW j \in DOMAIN outbox',
                      outbox'[i] = outbox'[j]
               PROVE  i = j
    OBVIOUS
  <2>1. CASE i \in 1..n /\ j \in 1..n
    BY <1>2, <1>5, <2>1 DEF Told
  <2>2. CASE i \in (n+1)..(n + c) /\ j \in (n+1)..(n + c)
    <3>1. order[i - n] = order[j - n]
      BY <1>5a, <2>2
    <3>2. i - n = j - n
      BY <1>4, <1>5, <2>2, <3>1
    <3> QED BY <1>2, <1>4, <2>2, <3>2
  <2> QED BY <1>6, <1>10, <2>1, <2>2
<1>12. \A m \in 1..lastId' :
         \E i \in DOMAIN outbox' : outbox'[i] = [type |-> "created", msg |-> m]
  <2> SUFFICES ASSUME NEW m \in 1..lastId
               PROVE \E i \in DOMAIN outbox' : outbox'[i] = [type |-> "created", msg |-> m]
    BY <1>1
  <2>1. PICK i \in 1..n : outbox[i] = [type |-> "created", msg |-> m]
    BY <1>2 DEF Told
  <2>2. i \in DOMAIN outbox' /\ outbox'[i] = outbox[i]
    BY <1>2, <1>4, <1>5
  <2> QED BY <2>1, <2>2
<1>13. \A m \in 1..lastId :
         (\E i \in DOMAIN outbox' : outbox'[i] = [type |-> "deleted", msg |-> m])
           <=> ~Visible(Store', m)
  <2> SUFFICES ASSUME NEW m \in 1..lastId
               PROVE (\E i \in DOMAIN outbox' : outbox'[i] = [type |-> "deleted", msg |-> m])
                       <=> m \in due \/ ~Visible(Store, m)
    BY <1>8
  <2>1. (\E i \in 1..n : outbox'[i] = [type |-> "deleted", msg |-> m]) <=> ~Visible(Store, m)
    BY <1>2, <1>5 DEF Told
  <2>2. (\E i \in (n+1)..(n + c) : outbox'[i] = [type |-> "deleted", msg |-> m])
          <=> m \in due
    <3>1. ASSUME NEW i \in (n+1)..(n + c), outbox'[i] = [type |-> "deleted", msg |-> m]
          PROVE  m \in due
      BY <1>5a, <3>1
    <3>2. ASSUME m \in due
          PROVE  \E i \in (n+1)..(n + c) : outbox'[i] = [type |-> "deleted", msg |-> m]
      <4>1. PICK x \in 1..c : order[x] = m
        BY <1>4, <3>2
      <4>2. outbox'[n + x] = [type |-> "deleted", msg |-> order[(n + x) - n]]
        BY <1>5, <1>7
      <4> QED BY <1>7, <4>1, <4>2
    <3> QED BY <3>1, <3>2
  <2>3. 1..n \subseteq DOMAIN outbox' /\ (n+1)..(n + c) \subseteq DOMAIN outbox'
    BY <1>2, <1>4, <1>5
  <2> QED BY <1>6, <2>1, <2>2, <2>3
<1>14. \A i, j \in DOMAIN outbox' :
         /\ outbox'[i].type = "created" /\ outbox'[j].type = "deleted"
         /\ outbox'[i].msg = outbox'[j].msg
         => i < j
  <2> SUFFICES ASSUME NEW i \in DOMAIN outbox', NEW j \in DOMAIN outbox',
                      outbox'[i].type = "created", outbox'[j].type = "deleted",
                      outbox'[i].msg = outbox'[j].msg
               PROVE  i < j
    OBVIOUS
  <2>1. i \in 1..n
    BY <1>5a, <1>6
  <2>2. CASE j \in 1..n
    BY <1>2, <1>5, <2>1, <2>2 DEF Told
  <2>3. CASE j \in (n+1)..(n + c)
    BY <1>2, <1>4, <2>1, <2>3
  <2> QED BY <1>6, <2>2, <2>3
<1> QED BY <1>1, <1>9, <1>11, <1>12, <1>13, <1>14 DEF Told

\* An accepted request (create) appends the creation of its message.
LEMMA CreateTold ==
  ASSUME FInv, Told, NEW k \in Keys, NEW r \in Requests, CreateNew(k, r) PROVE Told'
<1> DEFINE n == Len(outbox)
           id == lastId + 1
<1>1. outbox \in Seq(Event) /\ n \in Nat /\ DOMAIN outbox = 1..n /\ lastId \in Nat
      /\ DOMAIN messages \subseteq 1..lastId
  BY DEF FInv, IInv, TypeOK
<1>2. /\ DOMAIN messages' = DOMAIN messages \cup {id}
      /\ messages'[id].text # Null
      /\ \A m \in 1..lastId : m \in DOMAIN messages => messages'[m] = messages[m]
  BY CreateNewKeeps
<1>3. lastId' = id /\ outbox' = Append(outbox, [type |-> "created", msg |-> id])
  BY DEF CreateNew
<1>4. [type |-> "created", msg |-> id] \in Event
  BY <1>1 DEF Event
<1>5. /\ DOMAIN outbox' = 1..(n + 1)
      /\ \A i \in 1..n : outbox'[i] = outbox[i]
      /\ outbox'[n + 1] = [type |-> "created", msg |-> id]
  BY <1>1, <1>3, <1>4, AppendProperties
<1>6. /\ \A m \in 1..lastId : Visible(Store', m) <=> Visible(Store, m)
      /\ Visible(Store', id)
  BY <1>1, <1>2 DEF Visible, Store
<1>7. 1..id = 1..lastId \cup {id} /\ id \notin 1..lastId /\ 1..(n+1) = 1..n \cup {n + 1}
  BY <1>1
<1> HIDE DEF n, id
<1>8. \A i \in 1..n : outbox[i].msg \in 1..lastId /\ outbox[i].msg # id
  BY <1>1, <1>7 DEF Told
<1>9. \A i \in DOMAIN outbox' : outbox'[i].msg \in 1..lastId'
  BY <1>3, <1>5, <1>7, <1>8
<1>10. \A i, j \in DOMAIN outbox' : outbox'[i] = outbox'[j] => i = j
  <2>1. \A i \in 1..n : outbox'[i] # outbox'[n + 1]
    BY <1>5, <1>8
  <2>2. \A i, j \in 1..n : outbox'[i] = outbox'[j] => i = j
    BY <1>1, <1>5 DEF Told
  <2> QED BY <1>5, <1>7, <2>1, <2>2
<1>11. \A m \in 1..lastId' :
         \E i \in DOMAIN outbox' : outbox'[i] = [type |-> "created", msg |-> m]
  <2>1. \A m \in 1..lastId : \E i \in 1..n : outbox[i] = [type |-> "created", msg |-> m]
    BY <1>1 DEF Told
  <2> QED BY <1>3, <1>5, <1>7, <2>1
<1>12. \A m \in 1..lastId' :
         (\E i \in DOMAIN outbox' : outbox'[i] = [type |-> "deleted", msg |-> m])
           <=> ~Visible(Store', m)
  <2>1. \A m \in 1..lastId :
          (\E i \in 1..n : outbox[i] = [type |-> "deleted", msg |-> m]) <=> ~Visible(Store, m)
    BY <1>1 DEF Told
  <2>2. \A m : outbox'[n + 1] # [type |-> "deleted", msg |-> m]
    BY <1>5
  <2>3. \A i \in 1..n : outbox'[i] # [type |-> "deleted", msg |-> id]
    BY <1>5, <1>8
  <2> DEFINE told(m) == \E i \in DOMAIN outbox' : outbox'[i] = [type |-> "deleted", msg |-> m]
  <2>4. \A m \in 1..lastId : told(m) <=> ~Visible(Store', m)
    BY <1>5, <1>6, <1>7, <2>1, <2>2
  <2>5. ~told(id) /\ Visible(Store', id)
    BY <1>5, <1>6, <1>7, <2>2, <2>3
  <2> HIDE DEF told
  <2>6. \A m \in 1..lastId' : told(m) <=> ~Visible(Store', m)
    BY <1>3, <1>7, <2>4, <2>5 DEF id
  <2> QED BY <2>6 DEF told
<1>13. \A i, j \in DOMAIN outbox' :
         /\ outbox'[i].type = "created" /\ outbox'[j].type = "deleted"
         /\ outbox'[i].msg = outbox'[j].msg
         => i < j
  <2> SUFFICES ASSUME NEW i \in DOMAIN outbox', NEW j \in DOMAIN outbox',
                      outbox'[i].type = "created", outbox'[j].type = "deleted",
                      outbox'[i].msg = outbox'[j].msg
               PROVE  i < j
    OBVIOUS
  <2>1. j \in 1..n
    BY <1>5, <1>7
  <2>2. i \in 1..n
    BY <1>5, <1>7, <1>8, <2>1
  <2> QED BY <1>1, <1>5, <2>1, <2>2 DEF Told
<1> QED BY <1>9, <1>10, <1>11, <1>12, <1>13 DEF Told

\* One step per action.
LEMMA NextTold == ASSUME FInv, Told, [Next]_vars PROVE Told'
<1>1. CASE RetentionBatch
  BY <1>1, BatchTold DEF FInv
<1>2. CASE \E k \in Keys, r \in Requests : CreateNew(k, r)
  BY <1>2, CreateTold
<1>3. CASE \/ Tick
           \/ UNCHANGED vars
           \/ \E k \in Keys, r \in Requests : CreateAgain(k, r)
           \/ \E f \in Files, c \in Conversations : Upload(f, c)
  <2>1. UNCHANGED <<outbox, messages, lastId>>
    BY <1>3 DEF Tick, CreateAgain, Upload, vars, tables
  <2>2. \A m : Visible(Store, m)' <=> Visible(Store, m)
    BY <2>1 DEF Visible, Store
  <2> QED BY <2>1, <2>2 DEF Told
<1> QED BY <1>1, <1>2, <1>3 DEF Next

\* An empty outbox tells of no message.
LEMMA InitTold == Init => Told
  BY DEF Init, Told

\* Each message is told of once, its deletion once and after it exactly when its
\* content has gone (EventOutbox.append in create and in purgeBatch).
THEOREM EventsOnceInOrder == Spec => []EventsTellLifecycle
<1>1. Init => FInv /\ Told
  BY InitKeeps, InitTold
<1>2. FInv /\ Told /\ [Next]_vars => FInv' /\ Told'
  BY NextKeeps, NextTold
<1>3. Told => EventsTellLifecycle
  <2> SUFFICES ASSUME Told PROVE EventsTellLifecycle
    OBVIOUS
  <2> DEFINE at(type, m) ==
               {i \in DOMAIN outbox : outbox[i] = [type |-> type, msg |-> m]}
  <2>1. \A i, j \in DOMAIN outbox : outbox[i] = outbox[j] => i = j
    BY DEF Told
  <2>2. ASSUME NEW m \in 1..lastId
        PROVE  /\ at("created", m) # {}
               /\ at("deleted", m) = {} <=> m \in DOMAIN messages /\ messages[m].text # Null
               /\ \A i \in at("created", m), j \in at("deleted", m) : i < j
    <3>1. at("created", m) # {}
      BY DEF Told
    <3>2. at("deleted", m) = {} <=> m \in DOMAIN messages /\ messages[m].text # Null
      BY DEF Told, Visible, Store
    <3>3. \A i \in at("created", m), j \in at("deleted", m) : i < j
      BY DEF Told
    <3> QED BY <3>1, <3>2, <3>3
  <2> QED BY <2>1, <2>2 DEF EventsTellLifecycle
<1> QED BY <1>1, <1>2, <1>3, PTL DEF Spec

-----------------------------------------------------------------------------
(* What a retry is answered *)

\* What is left of the request a key was accepted for. The references of a visible
\* message are those it asked for, but for files that a batch took after their days.
Answerable ==
  /\ fprog # Null => fprog.cut + FileDays <= now
  /\ \A k \in Keys : accepted[k] # Null =>
       /\ k \in DOMAIN dedup =>
            /\ dedup[k].conv = accepted[k].req.conv
            /\ dedup[k].msg \in {Null, accepted[k].id}
       /\ \A f : <<accepted[k].id, f>> \in refs => f \in accepted[k].req.files
       /\ \A f \in accepted[k].req.files : files[f].state # "absent"
       /\ Visible(Store, accepted[k].id) =>
            /\ messages[accepted[k].id].text = accepted[k].req.text
            /\ \A f \in accepted[k].req.files :
                 <<accepted[k].id, f>> \in refs \/ Taken(f)

\* What an acceptance is.
LEMMA AcceptedTyped ==
  ASSUME FInv, NEW k \in Keys, accepted[k] # Null
  PROVE  /\ accepted[k].id \in 1..lastId /\ accepted[k].req \in Requests
         /\ accepted[k].req.files \subseteq Files
<1>1. accepted[k] \in [id : Nat, req : Requests]
  BY DEF FInv, IInv, TypeOK
<1>2. accepted[k].id \in 1..lastId
  BY DEF FInv, IdsGiven
<1> QED BY <1>1, <1>2 DEF Requests

\* A batch takes references of a message it leaves visible only with a file that is
\* past its days (processBatch).
LEMMA BatchAnswerable == ASSUME FInv, Answerable, RetentionBatch PROVE Answerable'
<1>1. PICK due \in SUBSET DOMAIN messages, fdue \in SUBSET Files :
        /\ Ages(Store, Store', due, fdue)
        /\ \A f \in fdue : files[f].created <= Cursor(fprog, FileDays).cut
        /\ files' = [f \in Files |->
             IF f \in fdue THEN [files[f] EXCEPT !.state = "deleting"] ELSE files[f]]
        /\ fprog' # Null => fprog'.cut \in {Cursor(fprog, FileDays).cut, now - FileDays}
        /\ now' = now /\ accepted' = accepted
  BY BatchAgesStore DEF FInv
<1> DEFINE cut == Cursor(fprog, FileDays).cut
<1>2. now \in Nat /\ fprog \in CursorRow \cup {Null} /\ files \in [Files -> FileRow]
  BY DEF FInv, IInv, TypeOK
<1>3. cut \in Int /\ cut + FileDays <= now
  BY <1>2 DEF Cursor, CursorRow, Answerable
<1> HIDE DEF cut
<1>4. fprog' # Null => fprog'.cut + FileDays <= now'
  <2>1. fprog' # Null => fprog'.cut \in {cut, now - FileDays}
    BY <1>1 DEF cut
  <2> QED BY <1>1, <1>2, <1>3, <2>1
<1>5. \A f \in Files :
        /\ files'[f].created = files[f].created
        /\ files[f].state # "absent" => files'[f].state # "absent"
        /\ Taken(f) \/ f \in fdue => files'[f].state = "deleting"
  BY <1>1, <1>2 DEF FileRow, Taken
<1>6. \A f \in Files : Taken(f) \/ f \in fdue => Taken(f)'
  <2>1. \A f \in fdue : files[f].created \in Nat /\ files[f].created <= cut
    BY <1>1, <1>2 DEF FileRow, cut
  <2>2. \A f \in fdue : files[f].created + FileDays <= now
    BY <1>2, <1>3, <2>1
  <2> QED BY <1>1, <1>5, <2>2 DEF Taken
<1>7. /\ DOMAIN dedup' \subseteq DOMAIN dedup
      /\ \A k \in DOMAIN dedup' :
           dedup'[k].conv = dedup[k].conv /\ dedup'[k].msg \in {Null, dedup[k].msg}
      /\ refs' \subseteq refs
      /\ \A m : Visible(Store', m) => Visible(Store, m)
      /\ \A m : Visible(Store', m) =>
           /\ messages'[m] = messages[m]
           /\ \A f : <<m, f>> \in refs /\ f \notin fdue => <<m, f>> \in refs'
  BY <1>1 DEF Ages, Store
<1>8. ASSUME NEW k \in Keys, accepted[k] # Null
      PROVE  /\ k \in DOMAIN dedup' =>
                  /\ dedup'[k].conv = accepted[k].req.conv
                  /\ dedup'[k].msg \in {Null, accepted[k].id}
             /\ \A f : <<accepted[k].id, f>> \in refs' => f \in accepted[k].req.files
             /\ \A f \in accepted[k].req.files : files'[f].state # "absent"
             /\ Visible(Store', accepted[k].id) =>
                  /\ messages'[accepted[k].id].text = accepted[k].req.text
                  /\ \A f \in accepted[k].req.files :
                       <<accepted[k].id, f>> \in refs' \/ Taken(f)'
  <2>1. accepted[k].req.files \subseteq Files
    BY <1>8, AcceptedTyped
  <2>2. k \in DOMAIN dedup' =>
          /\ dedup'[k].conv = accepted[k].req.conv
          /\ dedup'[k].msg \in {Null, accepted[k].id}
    BY <1>7, <1>8 DEF Answerable
  <2>3. \A f : <<accepted[k].id, f>> \in refs' => f \in accepted[k].req.files
    BY <1>7, <1>8 DEF Answerable
  <2>4. \A f \in accepted[k].req.files : files'[f].state # "absent"
    BY <1>5, <1>8, <2>1 DEF Answerable
  <2>5. ASSUME Visible(Store', accepted[k].id)
        PROVE  /\ messages'[accepted[k].id].text = accepted[k].req.text
               /\ \A f \in accepted[k].req.files :
                    <<accepted[k].id, f>> \in refs' \/ Taken(f)'
    <3>1. /\ messages[accepted[k].id].text = accepted[k].req.text
          /\ \A f \in accepted[k].req.files :
               <<accepted[k].id, f>> \in refs \/ Taken(f)
      BY <1>7, <1>8, <2>5 DEF Answerable
    <3> QED BY <1>5, <1>6, <1>7, <2>1, <2>5, <3>1
  <2> QED BY <2>2, <2>3, <2>4, <2>5
<1> QED BY <1>1, <1>4, <1>8 DEF Answerable, Store

\* An accepted request leaves exactly what it asked for (create, bind).
LEMMA CreateAnswerable ==
  ASSUME FInv, Answerable, NEW k \in Keys, NEW r \in Requests, CreateNew(k, r)
  PROVE  Answerable'
<1> DEFINE id == lastId + 1
           row == [key |-> k, conv |-> r.conv, text |-> r.text, created |-> now]
<1>1. /\ messages' = [m \in DOMAIN messages \cup {id} |-> IF m = id THEN row ELSE messages[m]]
      /\ dedup' = [x \in DOMAIN dedup \cup {k} |->
                    IF x = k THEN [conv |-> r.conv, msg |-> id, expiredAt |-> Null]
                    ELSE dedup[x]]
      /\ refs' = refs \cup {<<id, f>> : f \in r.files}
      /\ files' = [f \in Files |->
                    IF f \in r.files
                    THEN [files[f] EXCEPT !.state = "attached", !.msg = id]
                    ELSE files[f]]
      /\ accepted' = [accepted EXCEPT ![k] = [id |-> id, req |-> r]]
      /\ UNCHANGED <<now, fprog>>
  BY DEF CreateNew, progress
<1>2. /\ lastId \in Nat /\ files \in [Files -> FileRow] /\ refs \subseteq (1..lastId) \X Files
      /\ DOMAIN accepted = Keys /\ DOMAIN messages \subseteq 1..lastId
      /\ r.files \subseteq Files
  BY DEF FInv, IInv, TypeOK, Requests
<1>3. id \notin 1..lastId /\ \A f : <<id, f>> \notin refs
  BY <1>2
<1>4. row.text = r.text
  OBVIOUS
<1> HIDE DEF id, row
<1>5. \A f \in Files :
        /\ f \in r.files \/ files[f].state # "absent" => files'[f].state # "absent"
        /\ Taken(f) => Taken(f)'
  <2>1. \A f \in r.files : files[f].state = "ready"
    BY DEF CreateNew, Outcome, Bindable
  <2> QED BY <1>1, <1>2, <2>1 DEF FileRow, Taken
<1>6. ASSUME NEW x \in Keys, accepted'[x] # Null
      PROVE  /\ x \in DOMAIN dedup' =>
                  /\ dedup'[x].conv = accepted'[x].req.conv
                  /\ dedup'[x].msg \in {Null, accepted'[x].id}
             /\ \A f : <<accepted'[x].id, f>> \in refs' => f \in accepted'[x].req.files
             /\ \A f \in accepted'[x].req.files : files'[f].state # "absent"
             /\ Visible(Store', accepted'[x].id) =>
                  /\ messages'[accepted'[x].id].text = accepted'[x].req.text
                  /\ \A f \in accepted'[x].req.files :
                       <<accepted'[x].id, f>> \in refs' \/ Taken(f)'
  <2>1. CASE x = k
    <3>1. accepted'[x].id = id /\ accepted'[x].req = r
      BY <1>1, <1>2, <2>1
    <3>2. k \in DOMAIN dedup' /\ dedup'[k].conv = r.conv /\ dedup'[k].msg = id
      BY <1>1
    <3>3. messages'[id] = row /\ \A f : <<id, f>> \in refs' <=> f \in r.files
      BY <1>1, <1>3
    <3> QED BY <1>2, <1>4, <1>5, <2>1, <3>1, <3>2, <3>3
  <2>2. CASE x # k
    <3>1. accepted'[x] = accepted[x] /\ accepted[x] # Null
      BY <1>1, <1>2, <1>6, <2>2
    <3>2. /\ accepted[x].id \in 1..lastId /\ accepted[x].id # id
          /\ accepted[x].req.files \subseteq Files
      BY <1>3, <3>1, AcceptedTyped
    <3>3. (x \in DOMAIN dedup' <=> x \in DOMAIN dedup) /\ (x \in DOMAIN dedup => dedup'[x] = dedup[x])
      BY <1>1, <2>2
    <3>4. \A f : <<accepted[x].id, f>> \in refs' <=> <<accepted[x].id, f>> \in refs
      BY <1>1, <3>2
    <3>5. /\ Visible(Store', accepted[x].id) => Visible(Store, accepted[x].id)
          /\ accepted[x].id \in DOMAIN messages =>
               messages'[accepted[x].id] = messages[accepted[x].id]
      BY <1>1, <3>2 DEF Visible, Store
    <3>6. /\ x \in DOMAIN dedup =>
               /\ dedup[x].conv = accepted[x].req.conv
               /\ dedup[x].msg \in {Null, accepted[x].id}
          /\ \A f : <<accepted[x].id, f>> \in refs => f \in accepted[x].req.files
          /\ \A f \in accepted[x].req.files : files[f].state # "absent"
          /\ Visible(Store, accepted[x].id) =>
               /\ messages[accepted[x].id].text = accepted[x].req.text
               /\ \A f \in accepted[x].req.files :
                    <<accepted[x].id, f>> \in refs \/ Taken(f)
      BY <3>1 DEF Answerable
    <3>7. Visible(Store, accepted[x].id) => accepted[x].id \in DOMAIN messages
      BY DEF Visible, Store
    <3> QED BY <1>5, <3>1, <3>2, <3>3, <3>4, <3>5, <3>6, <3>7
  <2> QED BY <2>1, <2>2
<1>7. fprog' # Null => fprog'.cut + FileDays <= now'
  BY <1>1 DEF Answerable
<1> QED BY <1>1, <1>6, <1>7 DEF Answerable, Store

\* Time, a retry and an upload leave it, for files only ever get older.
LEMMA OthersAnswerable ==
  ASSUME FInv, Answerable,
         \/ Tick
         \/ UNCHANGED vars
         \/ \E k \in Keys, r \in Requests : CreateAgain(k, r)
         \/ \E f \in Files, c \in Conversations : Upload(f, c)
  PROVE  Answerable'
<1>1. UNCHANGED <<accepted, messages, dedup, refs, fprog>>
  BY DEF Tick, CreateAgain, Upload, vars, tables, progress, clients
<1>2. now \in Nat /\ now' \in Nat /\ now <= now'
  BY DEF FInv, IInv, TypeOK, Tick, CreateAgain, Upload, vars
<1>3. files \in [Files -> FileRow] /\ fprog \in CursorRow \cup {Null}
  BY DEF FInv, IInv, TypeOK
<1>4. \A f \in Files : files[f].state # "absent" => files'[f] = files[f]
  BY <1>3 DEF Tick, CreateAgain, Upload, vars, tables
<1>5. \A m : Visible(Store, m)' <=> Visible(Store, m)
  BY <1>1 DEF Visible, Store
<1>6. ASSUME NEW k \in Keys, accepted[k] # Null
      PROVE  /\ \A f \in accepted[k].req.files :
                  files'[f] = files[f] /\ files[f].state # "absent"
             /\ \A f \in accepted[k].req.files : Taken(f) => Taken(f)'
  <2>1. accepted[k].req.files \subseteq Files
    BY <1>6, AcceptedTyped
  <2>2. \A f \in accepted[k].req.files : files'[f] = files[f] /\ files[f].state # "absent"
    BY <1>4, <1>6, <2>1 DEF Answerable
  <2>3. \A f \in accepted[k].req.files : files[f].created \in Nat
    BY <1>3, <2>1 DEF FileRow
  <2> QED BY <1>2, <2>2, <2>3 DEF Taken
<1>7. fprog' # Null => fprog'.cut + FileDays <= now'
  BY <1>1, <1>2, <1>3 DEF Answerable, CursorRow
<1> QED BY <1>1, <1>5, <1>6, <1>7 DEF Answerable

\* One step per action.
LEMMA NextAnswerable == ASSUME FInv, Answerable, [Next]_vars PROVE Answerable'
<1>1. CASE RetentionBatch
  BY <1>1, BatchAnswerable
<1>2. CASE \E k \in Keys, r \in Requests : CreateNew(k, r)
  BY <1>2, CreateAnswerable
<1>3. CASE \/ Tick
           \/ UNCHANGED vars
           \/ \E k \in Keys, r \in Requests : CreateAgain(k, r)
           \/ \E f \in Files, c \in Conversations : Upload(f, c)
  BY <1>3, OthersAnswerable
<1> QED BY <1>1, <1>2, <1>3 DEF Next

\* Nothing is accepted at first.
LEMMA InitAnswerable == Init => Answerable
  BY DEF Init, Answerable

\* The accepted request, sent again within its window, finds its message, is told that it
\* expired, or conflicts with it: the last only when a batch took one of its attachments
\* after the file's days (create, the paths of an existing deduplication row).
THEOREM RetriesAnswered == Spec => []IdenticalRetryAnswers
<1>1. Init => FInv /\ Answerable
  BY InitKeeps, InitAnswerable
<1>2. FInv /\ Answerable /\ [Next]_vars => FInv' /\ Answerable'
  BY NextKeeps, NextAnswerable
<1>3. FInv /\ Answerable => IdenticalRetryAnswers
  <2> SUFFICES ASSUME FInv, Answerable, NEW k \in Keys, accepted[k] # Null,
                      MaySend(k, accepted[k].req)
               PROVE  LET r == accepted[k].req
                      IN \/ Outcome(k, r) = "message_expired"
                         \/ Outcome(k, r) = "existing" /\ dedup[k].msg = accepted[k].id
                         \/ Outcome(k, r) = "conflict" /\ \E f \in r.files : Taken(f)
    BY DEF IdenticalRetryAnswers
  <2> DEFINE r == accepted[k].req
             id == accepted[k].id
  <2>1. k \in DOMAIN dedup
    <3>1. born[k] # Null /\ (k \in DOMAIN dedup \/ born[k] + RetryDays < now)
      BY DEF FInv, IInv, StoreOK, StoreAged, Store
    <3>2. born[k] \in Nat /\ now \in Nat /\ now <= born[k] + RetryDays
      BY <3>1 DEF FInv, IInv, TypeOK, MaySend
    <3> QED BY <3>1, <3>2
  <2>2. dedup[k].conv = r.conv /\ dedup[k].msg \in {Null, id}
    BY <2>1 DEF Answerable
  <2>3. CASE dedup[k].msg = Null \/ dedup[k].msg \notin DOMAIN messages \/ dedup[k].expiredAt # Null
    <3>1. Outcome(k, r) = "message_expired"
      BY <2>1, <2>2, <2>3 DEF Outcome
    <3> QED BY <3>1
  <2>4. CASE dedup[k].msg # Null /\ dedup[k].msg \in DOMAIN messages /\ dedup[k].expiredAt = Null
    <3>1. dedup[k].msg = id /\ id \in DOMAIN messages
      BY <2>2, <2>4
    <3>2. CASE messages[id].text = Null
      <4>1. Outcome(k, r) = "message_expired"
        BY <2>1, <2>2, <2>4, <3>1, <3>2 DEF Outcome
      <4> QED BY <4>1
    <3>3. CASE messages[id].text # Null
      <4>1. Visible(Store, id)
        BY <3>1, <3>3 DEF Visible, Store
      <4>2. /\ messages[id].text = r.text
            /\ \A f \in r.files : <<id, f>> \in refs \/ Taken(f)
            /\ \A f : <<id, f>> \in refs => f \in r.files
        BY <4>1 DEF Answerable
      <4>3. r.files \subseteq Files
        BY AcceptedTyped
      <4>4. BoundTo(id) = r.files \/ \E f \in r.files : Taken(f)
        BY <4>2, <4>3 DEF BoundTo
      <4> HIDE DEF r, id
      <4>5. Outcome(k, r) = IF BoundTo(id) = r.files THEN "existing" ELSE "conflict"
        BY <2>1, <2>2, <2>4, <3>1, <3>3, <4>2 DEF Outcome
      <4> QED BY <3>1, <4>4, <4>5 DEF r, id
    <3> QED BY <3>2, <3>3
  <2> QED BY <2>3, <2>4
<1> QED BY <1>1, <1>2, <1>3, PTL DEF Spec
=============================================================================
