----------------------------- MODULE AuthService -----------------------------
(***************************************************************************)
(* Users, sessions and tokens of the management API.  Users live in the     *)
(* user store (one of the A/B snapshot stores) and in RAM; sessions and     *)
(* token digests live in RAM only, one per user, in a table with one place  *)
(* more than there may be users, the one for the built-in master account.   *)
(*                                                                          *)
(* The API task serves one request at a time, so an operation is one step;  *)
(* power may fail between two of them.  What a failed save leaves in flash  *)
(* is what DurableRegister allows.  Tokens are numbered in the order they   *)
(* are issued: an access token and a refresh token of the same number are   *)
(* issued together.                                                         *)
(***************************************************************************)
EXTENDS Integers, Sequences, SequencesExt

CONSTANTS
  Username,         \* names of stored users
  Password,         \* passwords they may be given
  Master,           \* the built-in account
  MaxUsers,         \* USER_STORE_MAX_USERS
  AccessLifetime,   \* AUTH_SERVICE_ACCESS_LIFETIME_SEC, in ticks
  RefreshLifetime,  \* AUTH_SERVICE_REFRESH_LIFETIME_SEC, in ticks
  TickModulus,      \* the tick counter wraps here (2^32 in the code)
  MaxTime,          \* bound on the time since power-up
  MaxTokens         \* bound on the tokens issued

ASSUME AuthAssumption ==
  /\ Master \notin Username
  /\ MaxUsers \in Nat \ {0}
  /\ TickModulus \in Nat \ {0}
  /\ AccessLifetime \in 0 .. RefreshLifetime
  /\ RefreshLifetime \in 0 .. (TickModulus - 1)
  /\ MaxTime \in Nat
  /\ MaxTokens \in Nat

VARIABLES
  users,      \* the user store's snapshot in RAM, in stored order
  stored,     \* what a power-up would recover
  sessions,   \* the session table
  now,        \* time since power-up, unbounded
  tokens,     \* history: owner and time of issue of each token
  retired     \* history: tokens replaced, revoked or lost

vars == <<users, stored, sessions, now, tokens, retired>>

Role == {"administrator", "user"}
UserRecord == [username : Username, password : Password, role : Role, enabled : BOOLEAN]

SessionIndex == 1 .. (MaxUsers + 1)
NoSession == [active |-> FALSE, username |-> Master, role |-> "user", token |-> 0,
              issuedAt |-> 0, password |-> Master]

Init ==
  /\ users = <<>>
  /\ stored = <<>>
  /\ sessions = [i \in SessionIndex |-> NoSession]
  /\ now = 0
  /\ tokens = <<>>
  /\ retired = {}

(* Platform_GetTick. *)
Tick == now % TickModulus

-----------------------------------------------------------------------------
(* UserStore_Find, as a position; 0 when there is no such user. *)
Find(username) ==
  SelectInSeq(users, LAMBDA r : r.username = username)

(* UserStore_Put and UserStore_Delete, up to the save. *)
Put(record) ==
  LET p == Find(record.username) IN
  IF p # 0 THEN [users EXCEPT ![p] = record] ELSE Append(users, record)

Removed(username) == RemoveAt(users, Find(username))

(* The save: on success RAM and flash hold the candidate; on failure RAM is *)
(* unchanged and flash holds what it held, what RAM holds or the candidate. *)
Saved(candidate) ==
  /\ users' = candidate
  /\ stored' = candidate

SaveRefused(candidate) ==
  /\ UNCHANGED users
  /\ stored' \in {stored, users, candidate}

-----------------------------------------------------------------------------
(* Mutant: a login never reuses the user's own session. *)
FindFreeSession(username) ==
  LET free == {i \in SessionIndex : ~sessions[i].active}
  IN  IF free # {} THEN CHOOSE i \in free : \A j \in free : i <= j ELSE 0

(* authService_FindSession: the user's session, else the first free place,  *)
(* else 0.                                                                  *)
FindSession(username) ==
  LET own == {i \in SessionIndex : sessions[i].active /\ sessions[i].username = username}
      free == {i \in SessionIndex : ~sessions[i].active}
      first(S) == CHOOSE i \in S : \A j \in S : i <= j
  IN  IF own # {} THEN first(own) ELSE IF free # {} THEN first(free) ELSE 0

TokensOf(username) == {n \in DOMAIN tokens : tokens[n].owner = username}

(* authService_Issue. *)
Issue(username, role, password) ==
  LET i == FindSession(username) IN
  /\ i # 0
  /\ Len(tokens) < MaxTokens
  /\ sessions' = [sessions EXCEPT ![i] =
       [active |-> TRUE, username |-> username, role |-> role,
        token |-> Len(tokens) + 1, issuedAt |-> Tick, password |-> password]]
  /\ tokens' = Append(tokens, [owner |-> username, at |-> now])
  /\ retired' = retired \cup TokensOf(username)
  /\ UNCHANGED <<users, stored, now>>

(* The session, if any, in which a token is valid now; ages are differences *)
(* of tick counters, modulo the counter's range.                            *)
Age(i) == (Tick - sessions[i].issuedAt) % TickModulus

(* Mutant: the last tick of the lifetime is left out. *)
ValidBefore(n, lifetime) ==
  {i \in SessionIndex : sessions[i].active /\ sessions[i].token = n /\ Age(i) < lifetime}

Valid(n, lifetime) ==
  {i \in SessionIndex : sessions[i].active /\ sessions[i].token = n /\ Age(i) <= lifetime}

Authorized(n) == Valid(n, AccessLifetime)
Refreshable(n) == Valid(n, RefreshLifetime)

(* Clearing the session of a user, if there is one. *)
DropSession(username) ==
  /\ sessions' = [i \in SessionIndex |->
       IF i = FindSession(username) /\ sessions[i].username = username
       THEN NoSession ELSE sessions[i]]
  /\ retired' = retired \cup TokensOf(username)

-----------------------------------------------------------------------------
(* AuthService_Login, for the master account and for a stored user. *)
LoginMaster == Issue(Master, "administrator", Master)

LoginUser(username, password) ==
  LET p == Find(username) IN
  /\ p # 0
  /\ users[p].enabled
  /\ users[p].password = password
  /\ Issue(username, users[p].role, password)

(* AuthService_Refresh. *)
Refresh(n) ==
  \E i \in Refreshable(n) :
    Issue(sessions[i].username, sessions[i].role, sessions[i].password)

(* AuthService_Revoke. *)
Revoke(n) ==
  /\ \E i \in Authorized(n) : DropSession(sessions[i].username)
  /\ UNCHANGED <<users, stored, now, tokens>>

(* Requests that need an administrator. *)
ByAdministrator(n) == \E i \in Authorized(n) : sessions[i].role = "administrator"

(* Mutant: a changed user keeps the session. *)
PutUserKeepsSession(n, record) ==
  /\ ByAdministrator(n)
  /\ Find(record.username) # 0 \/ Len(users) < MaxUsers
  /\ Saved(Put(record)) \/ SaveRefused(Put(record))
  /\ UNCHANGED <<sessions, now, tokens, retired>>

(* AuthService_PutUser: a successful save ends the session of the user.     *)
PutUser(n, record) ==
  /\ ByAdministrator(n)
  /\ Find(record.username) # 0 \/ Len(users) < MaxUsers
  /\ \/ /\ Saved(Put(record))
        /\ DropSession(record.username)
     \/ /\ SaveRefused(Put(record))
        /\ UNCHANGED <<sessions, retired>>
  /\ UNCHANGED <<now, tokens>>

(* Mutant: a deleted user keeps the session. *)
DeleteUserKeepsSession(n, username) ==
  /\ ByAdministrator(n)
  /\ Find(username) # 0
  /\ Saved(Removed(username)) \/ SaveRefused(Removed(username))
  /\ UNCHANGED <<sessions, now, tokens, retired>>

(* AuthService_DeleteUser. *)
DeleteUser(n, username) ==
  /\ ByAdministrator(n)
  /\ Find(username) # 0
  /\ \/ /\ Saved(Removed(username))
        /\ DropSession(username)
     \/ /\ SaveRefused(Removed(username))
        /\ UNCHANGED <<sessions, retired>>
  /\ UNCHANGED <<now, tokens>>

(* Time passes. *)
Advance ==
  /\ now < MaxTime
  /\ now' = now + 1
  /\ UNCHANGED <<users, stored, sessions, tokens, retired>>

(* Power loss or watchdog reset, and AuthService_Init at the next start-up. *)
Restart ==
  /\ users' = stored
  /\ sessions' = [i \in SessionIndex |-> NoSession]
  /\ now' = 0
  /\ retired' = DOMAIN tokens
  /\ UNCHANGED <<stored, tokens>>

Next ==
  \/ LoginMaster
  \/ \E u \in Username, p \in Password : LoginUser(u, p)
  \/ \E n \in DOMAIN tokens : Refresh(n)
  \/ \E n \in DOMAIN tokens : Revoke(n)
  \/ \E n \in DOMAIN tokens, r \in UserRecord : PutUser(n, r)
  \/ \E n \in DOMAIN tokens, u \in Username : DeleteUser(n, u)
  \/ Advance
  \/ Restart

Spec == Init /\ [][Next]_vars

-----------------------------------------------------------------------------
TypeOK ==
  /\ users \in Seq(UserRecord)
  /\ stored \in Seq(UserRecord)
  /\ sessions \in [SessionIndex ->
       [active : BOOLEAN, username : Username \cup {Master}, role : Role,
        token : 0 .. MaxTokens, issuedAt : 0 .. (TickModulus - 1),
        password : Password \cup {Master}]]
  /\ now \in 0 .. MaxTime
  /\ tokens \in Seq([owner : Username \cup {Master}, at : 0 .. MaxTime])
  /\ retired \in SUBSET (1 .. MaxTokens)

(* Every session belongs to the master account or to a stored user who is   *)
(* enabled, has the role the session grants, and still has the password it  *)
(* was opened with.                                                         *)
SessionsMatchUsers ==
  \A i \in SessionIndex :
    sessions[i].active /\ sessions[i].username # Master =>
      \E p \in DOMAIN users :
        /\ users[p].username = sessions[i].username
        /\ users[p].enabled
        /\ users[p].role = sessions[i].role
        /\ users[p].password = sessions[i].password

(* A user has at most one session, and a login of the master account or of  *)
(* a stored user always finds a place in the table.                         *)
SessionTableSuffices ==
  /\ \A i, j \in SessionIndex :
       /\ sessions[i].active
       /\ sessions[j].active
       /\ sessions[i].username = sessions[j].username
       => i = j
  /\ \A u \in {Master} \cup {users[p].username : p \in DOMAIN users} : FindSession(u) # 0

(* A token that was replaced, revoked, or ended with its user or with a     *)
(* restart is accepted neither as access nor as refresh token.              *)
RetiredStayRetired == \A n \in retired : Authorized(n) \cup Refreshable(n) = {}

(* Up to the age of one period of the tick counter, and across its wrap, a  *)
(* token that was not retired is accepted exactly during its lifetime.      *)
LifetimesHold ==
  \A n \in DOMAIN tokens \ retired :
    LET age == now - tokens[n].at IN
    age < TickModulus =>
      /\ Authorized(n) # {} <=> age <= AccessLifetime
      /\ Refreshable(n) # {} <=> age <= RefreshLifetime

(* Access and refresh tokens are accepted only within their lifetime.       *)
TokensExpire ==
  \A n \in DOMAIN tokens :
    /\ Authorized(n) # {} => now - tokens[n].at <= AccessLifetime
    /\ Refreshable(n) # {} => now - tokens[n].at <= RefreshLifetime
=============================================================================
