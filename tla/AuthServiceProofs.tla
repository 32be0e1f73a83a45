-------------------------- MODULE AuthServiceProofs --------------------------
(***************************************************************************)
(* Proofs about the authentication service, for any users, passwords, table *)
(* size, lifetimes and range of the tick counter: sessions agree with the   *)
(* stored users, the session table never overflows, retired tokens stay     *)
(* retired, and lifetimes hold across a wrap of the tick counter.           *)
(***************************************************************************)
EXTENDS AuthService, TLAPS, WellFoundedInduction, FiniteSetTheorems, SequenceTheorems

Session == [active : BOOLEAN, username : Username \cup {Master}, role : Role,
            token : 0 .. MaxTokens, issuedAt : 0 .. (TickModulus - 1),
            password : Password \cup {Master}]

Token == [owner : Username \cup {Master}, at : 0 .. MaxTime]

UserTypes ==
  /\ users \in Seq(UserRecord) /\ Len(users) <= MaxUsers
  /\ stored \in Seq(UserRecord) /\ Len(stored) <= MaxUsers

SessionTypes ==
  /\ sessions \in [SessionIndex -> Session]
  /\ now \in 0 .. MaxTime
  /\ tokens \in Seq(Token) /\ Len(tokens) <= MaxTokens
  /\ retired \in SUBSET DOMAIN tokens

(* A user has at most one session. *)
OnePerUser ==
  \A i, j \in SessionIndex :
    sessions[i].active /\ sessions[j].active /\ sessions[i].username = sessions[j].username
      => i = j

(* A session has a token that was issued to its user, when it says modulo   *)
(* the range of the tick counter, and that is not retired.                  *)
Backed(s) ==
  /\ s.token \in DOMAIN tokens \ retired
  /\ tokens[s.token].owner = s.username
  /\ tokens[s.token].at <= now
  /\ s.issuedAt = tokens[s.token].at % TickModulus

SessionsBacked == \A i \in SessionIndex : sessions[i].active => Backed(sessions[i])

(* A token that is not retired has a session. *)
TokensInUse ==
  \A n \in DOMAIN tokens \ retired :
    \E i \in SessionIndex : sessions[i].active /\ sessions[i].token = n

IInv ==
  /\ UserTypes
  /\ SessionTypes
  /\ OnePerUser
  /\ SessionsBacked
  /\ TokensInUse
  /\ SessionsMatchUsers

-----------------------------------------------------------------------------
(* Numbers: a set of them has a least element, and differences of counters  *)
(* modulo their range are true differences below the range.                 *)
LEMMA LeastElement ==
  ASSUME NEW S \in SUBSET Nat, S # {}
  PROVE  \E n \in S : \A m \in S : n <= m
  <1> DEFINE R == OpToRel(<, Nat)
  <1>1. R = {ss \in Nat \X Nat : ss[1] < ss[2]}
    BY Zenon DEF OpToRel
  <1>2. IsWellFoundedOn(R, Nat)
    BY NatLessThanWellFounded
  <1> HIDE DEF R
  <1>3. PICK x \in S : \A y \in S : ~(<<y, x>> \in R)
    BY <1>2, WFMin
  <1>4. \A y \in S : ~(y < x)
    BY <1>1, <1>3
  <1>5. QED
    BY <1>4

LEMMA TwicePlus ==
  ASSUME NEW M \in Nat \ {0}, NEW d \in Int
  PROVE  /\ d >= 2 => M * d >= M + M
         /\ d <= -1 => M * d <= 0 - M
  OBVIOUS

LEMMA CounterDifference ==
  ASSUME NEW M \in Nat \ {0}, NEW x \in Nat, NEW y \in Nat, y <= x, x - y < M
  PROVE  ((x % M) - (y % M)) % M = x - y
  <1> DEFINE p == x \div M
             q == y \div M
             r == x % M
             s == y % M
  <1>1. /\ p \in Int /\ q \in Int
        /\ r \in 0 .. M - 1 /\ s \in 0 .. M - 1
        /\ x = (M * p) + r
        /\ y = (M * q) + s
    OBVIOUS
  <1> HIDE DEF p, q, r, s
  <1> DEFINE d == p - q
  <1>2. d \in Int /\ x - y = (M * d) + (r - s)
    BY <1>1
  <1> HIDE DEF d
  <1>3. d = 0 \/ d = 1
    BY <1>1, <1>2, TwicePlus
  <1>4. CASE d = 0
    <2>1. r - s = x - y
      BY <1>1, <1>2, <1>4
    <2>2. (r - s) % M = r - s
      BY <1>1, <2>1
    <2>3. QED
      BY <2>1, <2>2 DEF r, s
  <1>5. CASE d = 1
    <2>1. r - s = x - y - M
      BY <1>1, <1>2, <1>5
    <2>2. (r - s) % M = r - s + M
      BY <1>1, <2>1
    <2>3. QED
      BY <2>1, <2>2 DEF r, s
  <1>6. QED
    BY <1>3, <1>4, <1>5

-----------------------------------------------------------------------------
(* The user table. *)
LEMMA FoundUser ==
  ASSUME users \in Seq(UserRecord), NEW u
  PROVE  /\ Find(u) \in 0 .. Len(users)
         /\ Find(u) # 0 => users[Find(u)].username = u
         /\ Find(u) = 0 => \A p \in 1 .. Len(users) : users[p].username # u
  <1> DEFINE I == {i \in 1 .. Len(users) : users[i].username = u}
  <1>1. Find(u) = IF I # {} THEN Min(I) ELSE 0
    BY DEF Find, SelectInSeq
  <1>2. Len(users) \in Nat /\ I \in SUBSET Nat
    OBVIOUS
  <1>3. CASE I # {}
    <2>1. \E n \in I : \A m \in I : n <= m
      BY <1>2, <1>3, LeastElement
    <2>2. Min(I) \in I
      BY <2>1 DEF Min
    <2>3. QED
      BY <1>1, <1>2, <1>3, <2>2
  <1>4. CASE I = {}
    BY <1>1, <1>2, <1>4
  <1>5. QED
    BY <1>3, <1>4

LEMMA PutUsers ==
  ASSUME users \in Seq(UserRecord), Len(users) <= MaxUsers, NEW r \in UserRecord,
         Find(r.username) # 0 \/ Len(users) < MaxUsers
  PROVE  /\ Put(r) \in Seq(UserRecord)
         /\ Len(Put(r)) <= MaxUsers
         /\ \A p \in DOMAIN users : users[p].username # r.username =>
              p \in DOMAIN Put(r) /\ Put(r)[p] = users[p]
  <1> DEFINE f == Find(r.username)
  <1>1. f \in 0 .. Len(users) /\ (f # 0 => users[f].username = r.username)
    BY FoundUser
  <1>2. Put(r) = IF f # 0 THEN [users EXCEPT ![f] = r] ELSE Append(users, r)
    BY DEF Put
  <1> HIDE DEF f
  <1>3. CASE f # 0
    BY <1>1, <1>2, <1>3
  <1>4. CASE f = 0
    BY <1>1, <1>2, <1>4, AuthAssumption DEF f
  <1>5. QED
    BY <1>3, <1>4

LEMMA RemovedElement ==
  ASSUME NEW S, NEW s \in Seq(S), NEW k \in 1 .. Len(s)
  PROVE  /\ RemoveAt(s, k) \in Seq(S)
         /\ Len(RemoveAt(s, k)) = Len(s) - 1
         /\ \A i \in 1 .. k - 1 : RemoveAt(s, k)[i] = s[i]
         /\ \A i \in k .. Len(s) - 1 : RemoveAt(s, k)[i] = s[i + 1]
  <1> DEFINE a == SubSeq(s, 1, k - 1)
             b == SubSeq(s, k + 1, Len(s))
  <1>1. /\ a \in Seq(S) /\ Len(a) = k - 1
        /\ \A i \in 1 .. k - 1 : a[i] = s[i]
    OBVIOUS
  <1>2. /\ b \in Seq(S) /\ Len(b) = Len(s) - k
        /\ \A i \in 1 .. Len(s) - k : b[i] = s[k + i]
    OBVIOUS
  <1> HIDE DEF a, b
  <1>3. Len(s) \in Nat
    OBVIOUS
  <1>4. /\ a \o b \in Seq(S)
        /\ Len(a \o b) = Len(s) - 1
        /\ \A i \in 1 .. k - 1 : (a \o b)[i] = a[i]
        /\ \A i \in k .. Len(s) - 1 : (a \o b)[i] = b[i - (k - 1)]
    <2>1. /\ a \o b \in Seq(S)
          /\ Len(a \o b) = Len(a) + Len(b)
          /\ \A i \in 1 .. Len(a) + Len(b) :
               (a \o b)[i] = IF i <= Len(a) THEN a[i] ELSE b[i - Len(a)]
      BY <1>1, <1>2, ConcatProperties
    <2> DEFINE c == a \o b
    <2> HIDE DEF c
    <2>2. QED
      BY <1>1, <1>2, <1>3, <2>1
  <1>5. \A i \in k .. Len(s) - 1 : b[i - (k - 1)] = s[i + 1]
    <2> SUFFICES ASSUME NEW i \in k .. Len(s) - 1
                 PROVE  b[i - (k - 1)] = s[i + 1]
      OBVIOUS
    <2>1. i - (k - 1) \in 1 .. Len(s) - k /\ k + (i - (k - 1)) = i + 1
      BY <1>3
    <2>2. QED
      BY <1>2, <2>1
  <1>6. RemoveAt(s, k) = a \o b
    BY DEF RemoveAt, a, b
  <1>7. QED
    BY <1>1, <1>4, <1>5, <1>6

LEMMA RemovedUsers ==
  ASSUME users \in Seq(UserRecord), Len(users) <= MaxUsers, NEW u, Find(u) # 0
  PROVE  /\ Removed(u) \in Seq(UserRecord)
         /\ Len(Removed(u)) <= MaxUsers
         /\ \A p \in DOMAIN users : users[p].username # u =>
              \E q \in DOMAIN Removed(u) : Removed(u)[q] = users[p]
  <1> DEFINE f == Find(u)
             r == RemoveAt(users, f)
  <1>1. f \in 1 .. Len(users) /\ users[f].username = u
    BY FoundUser
  <1>2. /\ Removed(u) = r
        /\ Len(users) \in Nat
        /\ MaxUsers \in Nat
    BY AuthAssumption DEF Removed
  <1>3. /\ r \in Seq(UserRecord)
        /\ Len(r) = Len(users) - 1
        /\ \A i \in 1 .. f - 1 : r[i] = users[i]
        /\ \A i \in f .. Len(users) - 1 : r[i] = users[i + 1]
    BY <1>1, RemovedElement
  <1> HIDE DEF f, r
  <1>4. ASSUME NEW p \in DOMAIN users, users[p].username # u
        PROVE  \E q \in DOMAIN r : r[q] = users[p]
    <2>1. p \in 1 .. Len(users) /\ p # f /\ DOMAIN r = 1 .. Len(users) - 1
      BY <1>1, <1>3, <1>4
    <2>2. CASE p < f
      <3>1. p \in DOMAIN r /\ r[p] = users[p]
        BY <1>1, <1>3, <2>1, <2>2
      <3>2. QED
        BY <3>1
    <2>3. CASE p > f
      <3>1. p - 1 \in DOMAIN r /\ r[p - 1] = users[p]
        BY <1>1, <1>3, <2>1, <2>3
      <3>2. QED
        BY <3>1
    <2>4. QED
      BY <1>1, <2>1, <2>2, <2>3
  <1>5. QED
    BY <1>2, <1>3, <1>4

-----------------------------------------------------------------------------
(* The session table. *)
Own(u) == {i \in SessionIndex : sessions[i].active /\ sessions[i].username = u}
Free == {i \in SessionIndex : ~sessions[i].active}

LEMMA FoundSession ==
  ASSUME NEW u
  PROVE  /\ Own(u) # {} => FindSession(u) \in Own(u)
         /\ Own(u) = {} /\ Free # {} => FindSession(u) \in Free
         /\ Own(u) = {} /\ Free = {} => FindSession(u) = 0
  <1> DEFINE first(S) == CHOOSE i \in S : \A j \in S : i <= j
  <1>1. ASSUME NEW S \in SUBSET SessionIndex, S # {}
        PROVE  first(S) \in S
    <2>1. S \in SUBSET Nat
      BY AuthAssumption DEF SessionIndex
    <2>2. \E n \in S : \A m \in S : n <= m
      BY <1>1, <2>1, LeastElement
    <2>3. QED
      BY <2>2
  <1>2. FindSession(u) = IF Own(u) # {} THEN first(Own(u))
                         ELSE IF Free # {} THEN first(Free) ELSE 0
    BY DEF FindSession, Own, Free
  <1> HIDE DEF first
  <1>3. Own(u) \in SUBSET SessionIndex /\ Free \in SUBSET SessionIndex
    BY DEF Own, Free
  <1>4. QED
    BY <1>1, <1>2, <1>3

(* authService_Issue: one session is replaced, the user's or a free one, so *)
(* all others are other users'.                                             *)
LEMMA Issued ==
  ASSUME SessionTypes, OnePerUser, NEW u, NEW role, NEW password, Issue(u, role, password)
  PROVE  \E i \in SessionIndex :
           /\ sessions' = [sessions EXCEPT ![i] =
                [active |-> TRUE, username |-> u, role |-> role, token |-> Len(tokens) + 1,
                 issuedAt |-> Tick, password |-> password]]
           /\ sessions[i].active => sessions[i].username = u
           /\ \A j \in SessionIndex : j # i /\ sessions[j].active => sessions[j].username # u
  <1> DEFINE i == FindSession(u)
  <1>1. /\ i # 0
        /\ sessions' = [sessions EXCEPT ![i] =
             [active |-> TRUE, username |-> u, role |-> role, token |-> Len(tokens) + 1,
              issuedAt |-> Tick, password |-> password]]
    BY DEF Issue
  <1>2. i \in Own(u) \/ (i \in Free /\ Own(u) = {})
    BY <1>1, FoundSession
  <1> HIDE DEF i
  <1>3. i \in SessionIndex
    BY <1>2 DEF Own, Free
  <1>4. sessions[i].active => sessions[i].username = u
    BY <1>2 DEF Own, Free
  <1>5. \A j \in SessionIndex : j # i /\ sessions[j].active => sessions[j].username # u
    BY <1>2, <1>3 DEF Own, OnePerUser
  <1>6. QED
    BY <1>1, <1>3, <1>4, <1>5

(* Clearing a user's session leaves all others. *)
LEMMA Dropped ==
  ASSUME SessionTypes, OnePerUser, NEW u, DropSession(u)
  PROVE  /\ sessions' \in [SessionIndex -> Session]
         /\ \A j \in SessionIndex : sessions'[j].active =>
              sessions'[j] = sessions[j] /\ sessions[j].username # u
         /\ \A j \in SessionIndex : sessions[j].active /\ sessions[j].username # u =>
              sessions'[j] = sessions[j]
  <1>1. \A j \in SessionIndex :
          sessions'[j] = IF j = FindSession(u) /\ sessions[j].username = u
                         THEN NoSession ELSE sessions[j]
    BY DEF DropSession
  <1>2. ~NoSession.active /\ NoSession \in Session
    BY AuthAssumption DEF NoSession, Session, Role
  <1>3. sessions' \in [SessionIndex -> Session]
    BY <1>2 DEF DropSession, SessionTypes
  <1>4. ASSUME NEW j \in SessionIndex, sessions'[j].active
        PROVE  sessions'[j] = sessions[j] /\ sessions[j].username # u
    <2>1. sessions'[j] = sessions[j] /\ sessions[j].active
      BY <1>1, <1>2, <1>4
    <2>2. ASSUME sessions[j].username = u
          PROVE  FALSE
      <3>1. j \in Own(u)
        BY <2>1, <2>2 DEF Own
      <3>2. FindSession(u) \in Own(u)
        BY <3>1, FoundSession
      <3>3. j = FindSession(u)
        BY <3>1, <3>2 DEF Own, OnePerUser
      <3>4. QED
        BY <1>1, <1>2, <1>4, <2>2, <3>3
    <2>3. QED
      BY <2>1, <2>2
  <1>5. QED
    BY <1>1, <1>3, <1>4

-----------------------------------------------------------------------------
(* The parts of the invariant a step that issues a token pair disturbs. *)
LEMMA IssueStep ==
  ASSUME IInv, NEW u \in Username \cup {Master}, NEW role \in Role,
         NEW password \in Password \cup {Master}, Issue(u, role, password),
         u # Master => \E p \in DOMAIN users :
           /\ users[p].username = u
           /\ users[p].enabled
           /\ users[p].role = role
           /\ users[p].password = password
  PROVE  IInv'
  <1> DEFINE n == Len(tokens) + 1
             new == [active |-> TRUE, username |-> u, role |-> role, token |-> n,
                     issuedAt |-> Tick, password |-> password]
  <1>1. /\ n \in Nat /\ n <= MaxTokens /\ MaxTokens \in Nat
        /\ now \in Nat /\ now <= MaxTime /\ MaxTime \in Nat
        /\ Tick \in 0 .. (TickModulus - 1)
    BY AuthAssumption DEF Issue, IInv, SessionTypes, Tick
  <1>2. new \in Session
    BY <1>1 DEF Session
  <1>3. /\ tokens' = Append(tokens, [owner |-> u, at |-> now])
        /\ retired' = retired \cup TokensOf(u)
        /\ users' = users /\ stored' = stored /\ now' = now
    BY DEF Issue
  <1>4. PICK i \in SessionIndex :
          /\ sessions' = [sessions EXCEPT ![i] = new]
          /\ sessions[i].active => sessions[i].username = u
          /\ \A j \in SessionIndex : j # i /\ sessions[j].active => sessions[j].username # u
    BY Issued DEF IInv
  <1>5. /\ new.active /\ new.username = u /\ new.role = role /\ new.token = n
        /\ new.issuedAt = Tick /\ new.password = password
    OBVIOUS
  <1> HIDE DEF new
  <1>6. [owner |-> u, at |-> now] \in Token
    BY <1>1 DEF Token
  <1>7. /\ tokens' \in Seq(Token) /\ Len(tokens') = n
        /\ DOMAIN tokens = 1 .. n - 1 /\ DOMAIN tokens' = 1 .. n
        /\ \A m \in 1 .. n - 1 : tokens'[m] = tokens[m]
        /\ tokens'[n].owner = u /\ tokens'[n].at = now
    BY <1>3, <1>6 DEF IInv, SessionTypes
  <1> HIDE DEF n
  <1>8. /\ sessions' \in [SessionIndex -> Session]
        /\ sessions'[i] = new
        /\ \A j \in SessionIndex : j # i => sessions'[j] = sessions[j]
    BY <1>2, <1>4 DEF IInv, SessionTypes
  <1>9. retired \subseteq DOMAIN tokens /\ TokensOf(u) \subseteq DOMAIN tokens
    BY DEF IInv, SessionTypes, TokensOf
  <1>10. UserTypes'
    BY <1>3 DEF IInv, UserTypes
  <1>11. SessionTypes'
    <2>1. retired' \subseteq DOMAIN tokens'
      BY <1>1, <1>3, <1>7, <1>9
    <2>2. QED
      BY <1>1, <1>3, <1>7, <1>8, <2>1 DEF IInv, SessionTypes
  <1>12. OnePerUser'
    BY <1>4, <1>5, <1>8 DEF IInv, OnePerUser
  <1>13. SessionsBacked'
    <2> SUFFICES ASSUME NEW j \in SessionIndex, sessions'[j].active
                 PROVE  /\ sessions'[j].token \in DOMAIN tokens' \ retired'
                        /\ tokens'[sessions'[j].token].owner = sessions'[j].username
                        /\ tokens'[sessions'[j].token].at <= now'
                        /\ sessions'[j].issuedAt = tokens'[sessions'[j].token].at % TickModulus
      BY DEF SessionsBacked, Backed
    <2>1. CASE j = i
      <3>1. n \notin retired'
        BY <1>1, <1>3, <1>7, <1>9
      <3>2. QED
        BY <1>1, <1>3, <1>5, <1>7, <1>8, <2>1, <3>1 DEF Tick
    <2>2. CASE j # i
      <3> DEFINE m == sessions[j].token
      <3>1. sessions'[j] = sessions[j] /\ sessions[j].active /\ sessions[j].username # u
        BY <1>4, <1>8, <2>2
      <3>2. /\ m \in DOMAIN tokens \ retired
            /\ tokens[m].owner = sessions[j].username
            /\ tokens[m].at <= now
            /\ sessions[j].issuedAt = tokens[m].at % TickModulus
        BY <3>1 DEF IInv, SessionsBacked, Backed
      <3> HIDE DEF m
      <3>3. m \notin TokensOf(u)
        BY <3>1, <3>2 DEF TokensOf
      <3>4. m \in DOMAIN tokens' /\ tokens'[m] = tokens[m]
        BY <1>1, <1>7, <3>2
      <3>5. m \notin retired'
        BY <1>3, <3>2, <3>3
      <3>6. QED
        BY <1>3, <3>1, <3>2, <3>4, <3>5 DEF m
    <2>3. QED
      BY <2>1, <2>2
  <1>14. TokensInUse'
    <2> SUFFICES ASSUME NEW m \in DOMAIN tokens', m \notin retired'
                 PROVE  \E j \in SessionIndex : sessions'[j].active /\ sessions'[j].token = m
      BY DEF TokensInUse
    <2>1. CASE m = n
      BY <1>5, <1>8, <2>1
    <2>2. CASE m # n
      <3>1. m \in DOMAIN tokens \ retired /\ tokens[m].owner # u
        BY <1>1, <1>3, <1>7, <2>2 DEF TokensOf
      <3>2. PICK j \in SessionIndex : sessions[j].active /\ sessions[j].token = m
        BY <3>1 DEF IInv, TokensInUse
      <3>3. sessions[j].username # u
        BY <3>1, <3>2 DEF IInv, SessionsBacked, Backed
      <3>4. j # i
        BY <1>4, <3>2, <3>3
      <3>5. QED
        BY <1>8, <3>2, <3>4
    <2>3. QED
      BY <2>1, <2>2
  <1>15. SessionsMatchUsers'
    BY <1>3, <1>5, <1>8 DEF IInv, SessionsMatchUsers
  <1>16. QED
    BY <1>10, <1>11, <1>12, <1>13, <1>14, <1>15 DEF IInv

(* A step that ends the session of a user, whatever becomes of the user's   *)
(* own record: the other users stay.                                        *)
LEMMA DropStep ==
  ASSUME IInv, NEW u, DropSession(u), UserTypes', tokens' = tokens, now' = now,
         \A p \in DOMAIN users : users[p].username # u =>
           \E q \in DOMAIN users' : users'[q] = users[p]
  PROVE  IInv'
  <1>1. /\ sessions' \in [SessionIndex -> Session]
        /\ \A j \in SessionIndex : sessions'[j].active =>
             sessions'[j] = sessions[j] /\ sessions[j].username # u
        /\ \A j \in SessionIndex : sessions[j].active /\ sessions[j].username # u =>
             sessions'[j] = sessions[j]
    BY Dropped DEF IInv
  <1>2. /\ retired' = retired \cup TokensOf(u)
        /\ TokensOf(u) \subseteq DOMAIN tokens
        /\ retired \subseteq DOMAIN tokens
    BY DEF DropSession, TokensOf, IInv, SessionTypes
  <1>3. SessionTypes'
    BY <1>1, <1>2 DEF IInv, SessionTypes
  <1>4. OnePerUser'
    BY <1>1 DEF IInv, OnePerUser
  <1>5. SessionsBacked'
    <2> SUFFICES ASSUME NEW j \in SessionIndex, sessions'[j].active
                 PROVE  /\ sessions'[j].token \in DOMAIN tokens' \ retired'
                        /\ tokens'[sessions'[j].token].owner = sessions'[j].username
                        /\ tokens'[sessions'[j].token].at <= now'
                        /\ sessions'[j].issuedAt = tokens'[sessions'[j].token].at % TickModulus
      BY DEF SessionsBacked, Backed
    <2> DEFINE m == sessions[j].token
    <2>1. sessions'[j] = sessions[j] /\ sessions[j].active /\ sessions[j].username # u
      BY <1>1
    <2>2. /\ m \in DOMAIN tokens \ retired
          /\ tokens[m].owner = sessions[j].username
          /\ tokens[m].at <= now
          /\ sessions[j].issuedAt = tokens[m].at % TickModulus
      BY <2>1 DEF IInv, SessionsBacked, Backed
    <2> HIDE DEF m
    <2>3. m \notin retired'
      BY <1>2, <2>1, <2>2 DEF TokensOf
    <2>4. QED
      BY <2>1, <2>2, <2>3 DEF m
  <1>6. TokensInUse'
    <2> SUFFICES ASSUME NEW m \in DOMAIN tokens, m \notin retired'
                 PROVE  \E j \in SessionIndex : sessions'[j].active /\ sessions'[j].token = m
      BY DEF TokensInUse
    <2>1. m \in DOMAIN tokens \ retired /\ tokens[m].owner # u
      BY <1>2 DEF TokensOf
    <2>2. PICK j \in SessionIndex : sessions[j].active /\ sessions[j].token = m
      BY <2>1 DEF IInv, TokensInUse
    <2>3. sessions[j].username # u
      BY <2>1, <2>2 DEF IInv, SessionsBacked, Backed
    <2>4. QED
      BY <1>1, <2>2, <2>3
  <1>7. SessionsMatchUsers'
    <2> SUFFICES ASSUME NEW j \in SessionIndex, sessions'[j].active,
                        sessions'[j].username # Master
                 PROVE  \E q \in DOMAIN users' :
                          /\ users'[q].username = sessions'[j].username
                          /\ users'[q].enabled
                          /\ users'[q].role = sessions'[j].role
                          /\ users'[q].password = sessions'[j].password
      BY DEF SessionsMatchUsers
    <2>1. sessions'[j] = sessions[j] /\ sessions[j].username # u
      BY <1>1
    <2>2. PICK p \in DOMAIN users :
            /\ users[p].username = sessions[j].username
            /\ users[p].enabled
            /\ users[p].role = sessions[j].role
            /\ users[p].password = sessions[j].password
      BY <2>1 DEF IInv, SessionsMatchUsers
    <2>3. PICK q \in DOMAIN users' : users'[q] = users[p]
      BY <2>1, <2>2
    <2>4. QED
      BY <2>1, <2>2, <2>3
  <1>8. QED
    BY <1>3, <1>4, <1>5, <1>6, <1>7 DEF IInv

(* A refused save changes at most what flash holds. *)
LEMMA RefusedStep ==
  ASSUME IInv, NEW c, c \in Seq(UserRecord), Len(c) <= MaxUsers, SaveRefused(c),
         UNCHANGED <<sessions, now, tokens, retired>>
  PROVE  IInv'
  <1>1. UserTypes'
    BY DEF IInv, UserTypes, SaveRefused
  <1>2. SessionTypes' /\ OnePerUser' /\ TokensInUse'
    BY DEF IInv, SessionTypes, OnePerUser, TokensInUse
  <1>3. SessionsBacked'
    BY DEF IInv, SessionsBacked, Backed
  <1>4. SessionsMatchUsers'
    BY DEF IInv, SessionsMatchUsers, SaveRefused
  <1>5. QED
    BY <1>1, <1>2, <1>3, <1>4 DEF IInv

LEMMA LoginMasterStep == IInv /\ LoginMaster => IInv'
  BY IssueStep DEF LoginMaster, Role

LEMMA LoginUserStep ==
  ASSUME IInv, NEW u \in Username, NEW w \in Password, LoginUser(u, w)
  PROVE  IInv'
  <1> DEFINE f == Find(u)
  <1>1. /\ f # 0 /\ users[f].enabled /\ users[f].password = w
        /\ Issue(u, users[f].role, w)
    BY DEF LoginUser
  <1>2. users \in Seq(UserRecord)
    BY DEF IInv, UserTypes
  <1>3. f \in 1 .. Len(users) /\ users[f].username = u
    BY <1>1, <1>2, FoundUser
  <1> HIDE DEF f
  <1>4. f \in DOMAIN users /\ users[f] \in UserRecord
    BY <1>2, <1>3
  <1>5. users[f].role \in Role
    BY <1>4 DEF UserRecord
  <1>6. QED
    BY <1>1, <1>3, <1>4, <1>5, IssueStep

LEMMA RefreshStep ==
  ASSUME IInv, NEW n, Refresh(n)
  PROVE  IInv'
  <1>1. PICK i \in Refreshable(n) :
          Issue(sessions[i].username, sessions[i].role, sessions[i].password)
    BY DEF Refresh
  <1>2. i \in SessionIndex /\ sessions[i].active
    BY DEF Refreshable, Valid
  <1>3. sessions[i] \in Session
    BY <1>2 DEF IInv, SessionTypes
  <1>4. /\ sessions[i].username \in Username \cup {Master}
        /\ sessions[i].role \in Role
        /\ sessions[i].password \in Password \cup {Master}
    BY <1>3 DEF Session
  <1>5. sessions[i].username # Master => \E p \in DOMAIN users :
          /\ users[p].username = sessions[i].username
          /\ users[p].enabled
          /\ users[p].role = sessions[i].role
          /\ users[p].password = sessions[i].password
    BY <1>2 DEF IInv, SessionsMatchUsers
  <1>6. QED
    BY <1>1, <1>4, <1>5, IssueStep

LEMMA RevokeStep ==
  ASSUME IInv, NEW n, Revoke(n)
  PROVE  IInv'
  <1>1. PICK i \in Authorized(n) : DropSession(sessions[i].username)
    BY DEF Revoke
  <1>2. users' = users /\ stored' = stored /\ now' = now /\ tokens' = tokens
    BY DEF Revoke
  <1>3. UserTypes'
    BY <1>2 DEF IInv, UserTypes
  <1>4. QED
    BY <1>1, <1>2, <1>3, DropStep

LEMMA PutUserStep ==
  ASSUME IInv, NEW n, NEW r \in UserRecord, PutUser(n, r)
  PROVE  IInv'
  <1>1. /\ Put(r) \in Seq(UserRecord)
        /\ Len(Put(r)) <= MaxUsers
        /\ \A p \in DOMAIN users : users[p].username # r.username =>
             p \in DOMAIN Put(r) /\ Put(r)[p] = users[p]
    BY PutUsers DEF PutUser, IInv, UserTypes
  <1>2. now' = now /\ tokens' = tokens
    BY DEF PutUser
  <1>3. CASE Saved(Put(r)) /\ DropSession(r.username)
    <2>1. users' = Put(r) /\ stored' = Put(r)
      BY <1>3 DEF Saved
    <2>2. UserTypes'
      BY <1>1, <2>1 DEF UserTypes
    <2>3. \A p \in DOMAIN users : users[p].username # r.username =>
            \E q \in DOMAIN users' : users'[q] = users[p]
      BY <1>1, <2>1
    <2>4. QED
      BY <1>2, <1>3, <2>2, <2>3, DropStep
  <1>4. CASE SaveRefused(Put(r)) /\ UNCHANGED <<sessions, retired>>
    BY <1>1, <1>2, <1>4, RefusedStep
  <1>5. QED
    BY <1>3, <1>4 DEF PutUser

LEMMA DeleteUserStep ==
  ASSUME IInv, NEW n, NEW u \in Username, DeleteUser(n, u)
  PROVE  IInv'
  <1>1. /\ Removed(u) \in Seq(UserRecord)
        /\ Len(Removed(u)) <= MaxUsers
        /\ \A p \in DOMAIN users : users[p].username # u =>
             \E q \in DOMAIN Removed(u) : Removed(u)[q] = users[p]
    BY RemovedUsers DEF DeleteUser, IInv, UserTypes
  <1>2. now' = now /\ tokens' = tokens
    BY DEF DeleteUser
  <1>3. CASE Saved(Removed(u)) /\ DropSession(u)
    <2>1. users' = Removed(u) /\ stored' = Removed(u)
      BY <1>3 DEF Saved
    <2>2. UserTypes'
      BY <1>1, <2>1 DEF UserTypes
    <2>3. QED
      BY <1>1, <1>2, <1>3, <2>1, <2>2, DropStep
  <1>4. CASE SaveRefused(Removed(u)) /\ UNCHANGED <<sessions, retired>>
    BY <1>1, <1>2, <1>4, RefusedStep
  <1>5. QED
    BY <1>3, <1>4 DEF DeleteUser

LEMMA AdvanceStep == IInv /\ Advance => IInv'
  <1> SUFFICES ASSUME IInv, Advance
               PROVE  IInv'
    OBVIOUS
  <1>1. /\ now \in Nat /\ now' = now + 1 /\ now' \in 0 .. MaxTime
        /\ UNCHANGED <<users, stored, sessions, tokens, retired>>
    BY AuthAssumption DEF Advance, IInv, SessionTypes
  <1>2. UserTypes' /\ SessionTypes' /\ OnePerUser' /\ TokensInUse' /\ SessionsMatchUsers'
    BY <1>1 DEF IInv, UserTypes, SessionTypes, OnePerUser, TokensInUse, SessionsMatchUsers
  <1>3. SessionsBacked'
    <2> SUFFICES ASSUME NEW j \in SessionIndex, sessions[j].active
                 PROVE  /\ sessions[j].token \in DOMAIN tokens \ retired
                        /\ tokens[sessions[j].token].owner = sessions[j].username
                        /\ tokens[sessions[j].token].at <= now'
                        /\ sessions[j].issuedAt = tokens[sessions[j].token].at % TickModulus
      BY <1>1 DEF SessionsBacked, Backed
    <2>1. Backed(sessions[j])
      BY DEF IInv, SessionsBacked
    <2>2. tokens[sessions[j].token] \in Token
      BY <2>1 DEF Backed, IInv, SessionTypes
    <2>3. tokens[sessions[j].token].at \in Int
      BY <2>2 DEF Token
    <2>4. QED
      BY <1>1, <2>1, <2>3 DEF Backed
  <1>4. QED
    BY <1>2, <1>3 DEF IInv

LEMMA RestartStep == IInv /\ Restart => IInv'
  <1> SUFFICES ASSUME IInv, Restart
               PROVE  IInv'
    OBVIOUS
  <1>1. ~NoSession.active /\ NoSession \in Session
    BY AuthAssumption DEF NoSession, Session, Role
  <1>2. /\ \A j \in SessionIndex : ~sessions'[j].active
        /\ sessions' \in [SessionIndex -> Session]
    BY <1>1 DEF Restart
  <1>3. UserTypes'
    BY DEF IInv, UserTypes, Restart
  <1>4. SessionTypes'
    BY <1>2, AuthAssumption DEF IInv, SessionTypes, Restart
  <1>5. OnePerUser' /\ SessionsBacked' /\ SessionsMatchUsers'
    BY <1>2 DEF OnePerUser, SessionsBacked, SessionsMatchUsers
  <1>6. TokensInUse'
    BY DEF TokensInUse, Restart
  <1>7. QED
    BY <1>3, <1>4, <1>5, <1>6 DEF IInv

-----------------------------------------------------------------------------
LEMMA InvInit == Init => IInv
  <1> SUFFICES ASSUME Init
               PROVE  IInv
    OBVIOUS
  <1>1. ~NoSession.active /\ NoSession \in Session
    BY AuthAssumption DEF NoSession, Session, Role
  <1>2. /\ \A j \in SessionIndex : ~sessions[j].active
        /\ sessions \in [SessionIndex -> Session]
    BY <1>1 DEF Init
  <1>3. UserTypes
    BY AuthAssumption DEF Init, UserTypes
  <1>4. SessionTypes
    BY <1>2, AuthAssumption DEF Init, SessionTypes
  <1>5. OnePerUser /\ SessionsBacked /\ SessionsMatchUsers
    BY <1>2 DEF OnePerUser, SessionsBacked, SessionsMatchUsers
  <1>6. TokensInUse
    BY DEF Init, TokensInUse
  <1>7. QED
    BY <1>3, <1>4, <1>5, <1>6 DEF IInv

LEMMA InvStep == IInv /\ [Next]_vars => IInv'
  <1> SUFFICES ASSUME IInv, [Next]_vars
               PROVE  IInv'
    OBVIOUS
  <1>1. CASE LoginMaster
    BY <1>1, LoginMasterStep
  <1>2. ASSUME NEW u \in Username, NEW w \in Password, LoginUser(u, w)
        PROVE  IInv'
    BY <1>2, LoginUserStep
  <1>3. ASSUME NEW n \in DOMAIN tokens, Refresh(n)
        PROVE  IInv'
    BY <1>3, RefreshStep
  <1>4. ASSUME NEW n \in DOMAIN tokens, Revoke(n)
        PROVE  IInv'
    BY <1>4, RevokeStep
  <1>5. ASSUME NEW n \in DOMAIN tokens, NEW r \in UserRecord, PutUser(n, r)
        PROVE  IInv'
    BY <1>5, PutUserStep
  <1>6. ASSUME NEW n \in DOMAIN tokens, NEW u \in Username, DeleteUser(n, u)
        PROVE  IInv'
    BY <1>6, DeleteUserStep
  <1>7. CASE Advance
    BY <1>7, AdvanceStep
  <1>8. CASE Restart
    BY <1>8, RestartStep
  <1>9. CASE UNCHANGED vars
    BY <1>9 DEF vars, IInv, UserTypes, SessionTypes, OnePerUser, SessionsBacked, Backed,
                TokensInUse, SessionsMatchUsers
  <1>10. QED
    BY <1>1, <1>2, <1>3, <1>4, <1>5, <1>6, <1>7, <1>8, <1>9 DEF Next

LEMMA Invariance == Spec => []IInv
  BY InvInit, InvStep, PTL DEF Spec

-----------------------------------------------------------------------------
(* The variables keep their types. *)
THEOREM TypeCorrect == Spec => []TypeOK
  <1>1. IInv => TypeOK
    <2> SUFFICES ASSUME IInv
                 PROVE  TypeOK
      OBVIOUS
    <2>1. Len(tokens) \in Nat /\ DOMAIN tokens = 1 .. Len(tokens) /\ Len(tokens) <= MaxTokens
      BY DEF IInv, SessionTypes
    <2>2. retired \in SUBSET (1 .. MaxTokens)
      BY <2>1, AuthAssumption DEF IInv, SessionTypes
    <2>3. QED
      BY <2>2 DEF IInv, UserTypes, SessionTypes, Session, Token, TypeOK
  <1>2. QED
    BY Invariance, <1>1, PTL

(* No session outlives a change of its user: AuthService_PutUser and        *)
(* AuthService_DeleteUser end it in the step that changes the user.         *)
THEOREM SessionsMatchUsersHolds == Spec => []SessionsMatchUsers
  <1>1. IInv => SessionsMatchUsers
    BY DEF IInv
  <1>2. QED
    BY Invariance, <1>1, PTL

(* Fewer names than places: the names of the stored users are at most       *)
(* MaxUsers, so with the master account at most as many as the table has    *)
(* places.                                                                  *)
LEMMA NamesFit ==
  ASSUME UserTypes, NEW u \in {Master} \cup {users[p].username : p \in DOMAIN users}
  PROVE  LET others == ({Master} \cup {users[p].username : p \in DOMAIN users}) \ {u}
         IN  IsFiniteSet(others) /\ Cardinality(others) <= MaxUsers
  <1> DEFINE D == 1 .. Len(users)
             N == {users[p].username : p \in D}
             f == [p \in D |-> users[p].username]
             A == N \cup {Master}
  <1>1. Len(users) \in Nat /\ Len(users) <= MaxUsers /\ DOMAIN users = D /\ MaxUsers \in Nat
    BY AuthAssumption DEF UserTypes
  <1>2. IsFiniteSet(D) /\ Cardinality(D) = Len(users)
    <2>1. /\ IsFiniteSet(D)
          /\ Cardinality(D) = IF 1 > Len(users) THEN 0 ELSE Len(users) - 1 + 1
      <3>1. 1 \in Int /\ Len(users) \in Int
        BY <1>1
      <3>2. QED
        BY <3>1, FS_Interval, Zenon
    <2>2. QED
      BY <1>1, <2>1
  <1>3. f \in Surjection(D, N)
    BY DEF Surjection
  <1>4. IsFiniteSet(N) /\ Cardinality(N) <= Len(users)
    BY <1>2, <1>3, FS_Surjection
  <1>5. Cardinality(N) \in Nat
    BY <1>4, FS_CardinalityType
  <1> HIDE DEF N, D
  <1>6. IsFiniteSet(A) /\ Cardinality(A) <= Len(users) + 1 /\ Cardinality(A) \in Nat
    <2>1. /\ IsFiniteSet(A)
          /\ Cardinality(A) = IF Master \in N THEN Cardinality(N) ELSE Cardinality(N) + 1
      BY <1>4, FS_AddElement
    <2>2. QED
      BY <1>1, <1>4, <1>5, <2>1
  <1>7. u \in A /\ {Master} \cup {users[p].username : p \in DOMAIN users} = A
    BY <1>1 DEF N
  <1> HIDE DEF A
  <1>8. IsFiniteSet(A \ {u}) /\ Cardinality(A \ {u}) = Cardinality(A) - 1
    BY <1>6, <1>7, FS_RemoveElement
  <1>9. Cardinality(A \ {u}) <= MaxUsers
    BY <1>1, <1>6, <1>8
  <1>10. QED
    BY <1>7, <1>8, <1>9, Zenon

(* The session table has one place more than there may be users, and no     *)
(* user takes two: authService_FindSession never fails for an account that  *)
(* may log in.                                                              *)
THEOREM SessionTableSufficesHolds == Spec => []SessionTableSuffices
  <1> DEFINE Names == {Master} \cup {users[p].username : p \in DOMAIN users}
  <1>1. ASSUME IInv, NEW u \in Names
        PROVE  FindSession(u) # 0
    <2> DEFINE others == Names \ {u}
               owner == [i \in SessionIndex |-> sessions[i].username]
    <2>1. IsFiniteSet(others) /\ Cardinality(others) <= MaxUsers
      BY <1>1, NamesFit DEF IInv
    <2>2. MaxUsers \in Nat /\ 0 \notin SessionIndex
      BY AuthAssumption DEF SessionIndex
    <2>3. IsFiniteSet(SessionIndex) /\ Cardinality(SessionIndex) = MaxUsers + 1
      <3>1. 1 \in Int /\ MaxUsers + 1 \in Int /\ ~(1 > MaxUsers + 1)
        BY <2>2
      <3>2. /\ IsFiniteSet(1 .. (MaxUsers + 1))
            /\ Cardinality(1 .. (MaxUsers + 1)) = (MaxUsers + 1) - 1 + 1
        BY <3>1, FS_Interval
      <3>3. QED
        BY <2>2, <3>2 DEF SessionIndex
    <2>4. ASSUME Own(u) = {}, Free = {}
          PROVE  FALSE
      <3>1. ASSUME NEW i \in SessionIndex
            PROVE  sessions[i].active /\ sessions[i].username \in others
        <4>1. sessions[i].active
          BY <2>4 DEF Free
        <4>2. sessions[i].username # u
          BY <2>4, <4>1 DEF Own
        <4>3. sessions[i].username \in Names
          BY <1>1, <4>1 DEF IInv, SessionsMatchUsers
        <4>4. QED
          BY <4>1, <4>2, <4>3
      <3>2. owner \in [SessionIndex -> others]
        BY <3>1
      <3>3. Cardinality(others) < Cardinality(SessionIndex)
        <4>1. Cardinality(others) \in Nat
          BY <2>1, FS_CardinalityType
        <4>2. QED
          BY <2>1, <2>2, <2>3, <4>1
      <3> HIDE DEF others, owner
      <3>4. \E x, y \in SessionIndex : x # y /\ owner[x] = owner[y]
        BY <2>1, <2>3, <3>2, <3>3, FS_PigeonHole
      <3>5. PICK x \in SessionIndex, y \in SessionIndex :
              x # y /\ sessions[x].username = sessions[y].username
        BY <3>4 DEF owner
      <3>6. QED
        BY <1>1, <3>1, <3>5 DEF IInv, OnePerUser
    <2>5. CASE Own(u) # {}
      BY <2>2, <2>5, FoundSession DEF Own
    <2>6. CASE Own(u) = {} /\ Free # {}
      BY <2>2, <2>6, FoundSession DEF Free
    <2>7. QED
      BY <2>4, <2>5, <2>6
  <1>2. IInv => SessionTableSuffices
    BY <1>1 DEF IInv, OnePerUser, SessionTableSuffices
  <1>3. QED
    BY Invariance, <1>2, PTL

(* Whatever ends a token ends every session that would accept it: a login   *)
(* or a refresh replaces the user's pair, a revocation or a change of the   *)
(* user clears it, a restart clears them all.                               *)
THEOREM RetiredStayRetiredHolds == Spec => []RetiredStayRetired
  <1>1. IInv => RetiredStayRetired
    <2> SUFFICES ASSUME IInv, NEW n \in retired, NEW i \in SessionIndex,
                        sessions[i].active, sessions[i].token = n
                 PROVE  FALSE
      BY DEF RetiredStayRetired, Authorized, Refreshable, Valid
    <2>1. QED
      BY DEF IInv, SessionsBacked, Backed
  <1>2. QED
    BY Invariance, <1>1, PTL

(* Below one period of the tick counter the unsigned difference of two      *)
(* readings is the age of the token, also when the counter has wrapped      *)
(* between them.                                                            *)
THEOREM LifetimesHoldAcrossWrap == Spec => []LifetimesHold
  <1>1. ASSUME IInv, NEW n \in DOMAIN tokens \ retired, now - tokens[n].at < TickModulus,
               NEW lifetime
        PROVE  Valid(n, lifetime) # {} <=> now - tokens[n].at <= lifetime
    <2>1. PICK i \in SessionIndex : sessions[i].active /\ sessions[i].token = n
      BY <1>1 DEF IInv, TokensInUse
    <2>2. tokens[n].at \in Nat /\ now \in Nat /\ TickModulus \in Nat \ {0}
      <3>1. tokens[n] \in Token
        BY <1>1 DEF IInv, SessionTypes
      <3>2. QED
        BY <1>1, <3>1, AuthAssumption DEF IInv, SessionTypes, Token
    <2>3. ASSUME NEW j \in SessionIndex, sessions[j].active, sessions[j].token = n
          PROVE  Age(j) = now - tokens[n].at
      <3>1. Backed(sessions[j])
        BY <1>1, <2>3 DEF IInv, SessionsBacked
      <3>2. tokens[n].at <= now /\ sessions[j].issuedAt = tokens[n].at % TickModulus
        BY <2>3, <3>1 DEF Backed
      <3>3. ((now % TickModulus) - (tokens[n].at % TickModulus)) % TickModulus
              = now - tokens[n].at
        BY <1>1, <2>2, <3>2, CounterDifference
      <3>4. QED
        BY <3>2, <3>3 DEF Age, Tick
    <2>4. QED
      BY <2>1, <2>3 DEF Valid
  <1>2. IInv => LifetimesHold
    BY <1>1 DEF LifetimesHold, Authorized, Refreshable
  <1>3. QED
    BY Invariance, <1>2, PTL
=============================================================================
