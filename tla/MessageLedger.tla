---------------------------- MODULE MessageLedger ----------------------------
(***************************************************************************)
(* What the message store promises for one clientMessageId, whatever the   *)
(* retries, the retention batches and the attachments do: the identifier   *)
(* is accepted at most once, and the message it stands for only ages:      *)
(* its content expires, then its row goes away, and it never comes back.   *)
(***************************************************************************)
CONSTANT Keys               \* the (sender, clientMessageId) pairs

VARIABLE ledger             \* what became of each of them

Phases == {"new", "live", "expired", "gone"}

LedgerInit == ledger = [k \in Keys |-> "new"]

Accept(k) ==
  /\ ledger[k] = "new"
  /\ ledger' = [ledger EXCEPT ![k] = "live"]

\* One retention batch may age several messages, and one of them twice.
Age ==
  /\ ledger' \in [Keys -> Phases]
  /\ \A k \in Keys :
       \/ ledger'[k] = ledger[k]
       \/ ledger[k] = "live" /\ ledger'[k] \in {"expired", "gone"}
       \/ ledger[k] = "expired" /\ ledger'[k] = "gone"

LedgerNext == Age \/ \E k \in Keys : Accept(k)

LedgerSpec == LedgerInit /\ [][LedgerNext]_ledger
=============================================================================
