------------------------------ MODULE Sessions ------------------------------
(***************************************************************************)
(* modules/identity, as the other modules depend on it: a session belongs  *)
(* to one account of one mail server, begins when the authenticator        *)
(* accepts a login, and ends by logout or by its expiry. Every request     *)
(* resolves its credential to a session first (platform/http); most        *)
(* services look at the session again inside their transactions.           *)
(*                                                                         *)
(* Tokens are unforgeable and a login that the authenticator refuses       *)
(* changes nothing, so neither appears. Nothing tells an expired session,  *)
(* whose row stays, from one that was logged out.                          *)
(***************************************************************************)
EXTENDS Naturals, FiniteSets, Sequences, Functions

CONSTANTS
  Accounts,      \* accounts of all mail servers
  ServerOf,      \* the mail server of an account
  SessionIds,    \* sessions that may begin
  HolderOf,      \* whose session it is
  Veterans       \* accounts that signed in before, in that order; their sessions still run

ASSUME SessionAssumption ==
  /\ DOMAIN ServerOf = Accounts /\ HolderOf \in [SessionIds -> Accounts]
  /\ Veterans \in Seq(Accounts) /\ IsInjective(Veterans)

VARIABLES
  users,         \* the rows of accounts, of those that ever signed in, by id
  sessions       \* "none", "active", "over"

identity == <<users, sessions>>

\* Who ever signed in.
Known == Range(users)

\* sessionActive(), get(): a row that has not expired.
Active(s) == sessions[s] = "active"

\* resolve(): what admits a request, once, before its handler runs.
Admitted(s) == sessions[s] = "active"

\* The account's row and its session are written in one transaction.
Login(s) ==
  /\ sessions[s] = "none"
  /\ sessions' = [sessions EXCEPT ![s] = "active"]
  /\ users' = IF HolderOf[s] \in Known THEN users ELSE Append(users, HolderOf[s])

\* logout(), or sessionDays pass.
End(s) ==
  /\ Active(s)
  /\ sessions' = [sessions EXCEPT ![s] = "over"]
  /\ UNCHANGED users

\* requireSameServer(): whom an account may talk to.
Neighbours(u) == {v \in Known : ServerOf[v] = ServerOf[u]}

SessionsInit == users = Veterans /\ sessions = [s \in SessionIds |->
                                   IF HolderOf[s] \in Range(Veterans) THEN "active" ELSE "none"]

SessionsTypeOK ==
  /\ users \in Seq(Accounts) /\ IsInjective(users)
  /\ sessions \in [SessionIds -> {"none", "active", "over"}]
=============================================================================
