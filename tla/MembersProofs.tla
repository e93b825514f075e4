---------------------------- MODULE MembersProofs ---------------------------
(***************************************************************************)
(* Theorems about the management of login identities, for any number of    *)
(* identities and of requests in flight: nobody returns, and the last      *)
(* active admin is lost only to a request that another one overtook.       *)
(***************************************************************************)
EXTENDS Members, FiniteSetTheorems, TLAPS

\* A request no other one overtook still knows its target as it is, was let in
\* by somebody who still is an active admin, and is still not to be refused.
UpToDate(q) ==
    /\ q.by \in ActiveAdmins
    /\ q.phase \in {"loaded", "cleared"} =>
         /\ q.target \in members
         /\ q.isActive <=> q.target \in active
         /\ q.isAdmin <=> q.target \in admins
    /\ q.phase = "cleared" => ~Refused(q)

IInv ==
    /\ TypeOK
    /\ \A r \in Request : request[r].phase # "idle" /\ ~request[r].overtaken
                            => UpToDate(request[r])

\* A set with more than one element has one besides any given one.
LEMMA AnotherElement ==
    ASSUME NEW S, IsFiniteSet(S), ~(Cardinality(S) <= 1), NEW x
    PROVE  \E y \in S : y # x
<1> SUFFICES ASSUME \A y \in S : y = x PROVE FALSE
  OBVIOUS
<1>1. S = {} \/ S = {x}
  OBVIOUS
<1> QED
  BY <1>1, FS_EmptySet, FS_Singleton

\* A request that nobody overtook leaves an active admin when it commits: its
\* author, who may not act on themselves except to step down, or one more.
LEMMA CommitLeavesAdmin ==
    ASSUME IInv, NEW r \in Request, Commit(r), ~request[r].overtaken
    PROVE  ActiveAdmins' # {}
<1> DEFINE q == request[r]
<1>1. /\ q \in InFlight /\ q.phase = "cleared" /\ Write(q)
      /\ q.by \in ActiveAdmins
      /\ q.isActive <=> q.target \in active
      /\ q.isAdmin <=> q.target \in admins
      /\ ~Refused(q)
  BY DEF IInv, TypeOK, Commit, UpToDate
<1>2. IsFiniteSet(ActiveAdmins)
  BY MembersAssumption, FS_Subset DEF IInv, TypeOK, ActiveAdmins
<1> HIDE DEF q
<1>3. CASE q.kind = "delete"
  BY <1>1, <1>3 DEF Write, Refused, ActiveAdmins
<1>4. CASE q.kind = "toggle_active"
  BY <1>1, <1>4 DEF Write, Flipped, Refused, ActiveAdmins
<1>5. CASE q.kind = "toggle_admin"
  <2>1. active' = active /\ admins' = Flipped(admins, q.target, q.isAdmin)
    BY <1>1, <1>5 DEF Write
  <2>2. CASE ~q.isAdmin \/ q.target # q.by
    BY <1>1, <2>1, <2>2 DEF Flipped, ActiveAdmins
  <2>3. CASE q.isAdmin /\ q.target = q.by
    <3>1. ~(Cardinality(ActiveAdmins) <= 1)
      BY <1>1, <1>5, <2>3 DEF Refused, LastActiveAdmin, ActiveAdmins
    <3>2. PICK y \in ActiveAdmins : y # q.target
      BY <1>2, <3>1, AnotherElement
    <3> QED
      BY <2>1, <2>3, <3>2 DEF Flipped, ActiveAdmins
  <2> QED
    BY <2>2, <2>3
<1> QED
  BY <1>1, <1>3, <1>4, <1>5 DEF InFlight, Kind

\* Everything is empty at first.
LEMMA InitIInv == Init => IInv
BY DEF Init, IInv, TypeOK, Idle, InFlight, Kind

\* A creation adds nobody an in-flight request knows, and no admin while there
\* is a member.
LEMMA CreateKeepsIInv ==
    ASSUME IInv, NEW m \in Member, CreateUser(m)
    PROVE  IInv'
<1>1. TypeOK'
  BY DEF IInv, TypeOK, CreateUser
<1>2. ASSUME NEW r \in Request, request'[r].phase # "idle", ~request'[r].overtaken
      PROVE  UpToDate(request[r])'
  <2> DEFINE q == request[r]
  <2>1. /\ request'[r] = q /\ UpToDate(q) /\ q \in InFlight
        /\ m \notin active /\ m \notin admins /\ m \notin members
    BY <1>2 DEF IInv, TypeOK, CreateUser
  <2>2. active' = active \cup {m} /\ admins' = admins
    BY <2>1 DEF CreateUser, IInv, TypeOK, UpToDate, ActiveAdmins
  <2>3. ActiveAdmins' = ActiveAdmins
    BY <2>1, <2>2 DEF ActiveAdmins
  <2> HIDE DEF q
  <2>4. members' = members \cup {m}
    BY DEF CreateUser
  <2> QED
    BY <2>1, <2>2, <2>3, <2>4 DEF UpToDate, Refused, LastActiveAdmin, q
<1> QED
  BY <1>1, <1>2 DEF IInv

\* What the steps of one request before its commit leave alone.
LEMMA StepKeepsIInv ==
    ASSUME IInv, NEW r \in Request, NEW q \in InFlight,
           request' = [request EXCEPT ![r] = q],
           q.phase # "idle" /\ ~q.overtaken => UpToDate(q),
           UNCHANGED <<used, members, active, admins>>
    PROVE  IInv'
<1>1. TypeOK'
  BY DEF IInv, TypeOK
<1>2. ActiveAdmins' = ActiveAdmins
  BY DEF ActiveAdmins
<1>3. ASSUME NEW s \in Request, request'[s].phase # "idle", ~request'[s].overtaken
      PROVE  UpToDate(request[s])'
  <2>1. UpToDate(request'[s])
    BY <1>3 DEF IInv, TypeOK
  <2> QED
    BY <1>2, <2>1 DEF UpToDate, Refused, LastActiveAdmin
<1> QED
  BY <1>1, <1>3 DEF IInv

\* A commit marks every other request in flight as overtaken.
LEMMA CommitKeepsIInv ==
    ASSUME IInv, NEW r \in Request, Commit(r)
    PROVE  IInv'
<1>1. /\ request \in [Request -> InFlight] /\ members \subseteq used /\ used \subseteq Member
      /\ active \subseteq members /\ admins \subseteq members
  BY DEF IInv, TypeOK
<1>2. /\ members' \subseteq used' /\ used' \subseteq Member
      /\ active' \subseteq members' /\ admins' \subseteq members'
  BY <1>1 DEF Commit, Write, Flipped
<1>3. ASSUME NEW s \in Request
      PROVE  /\ request'[s] \in InFlight
             /\ request'[s].phase = "idle" \/ request'[s].overtaken
  <2>1. request[s] \in InFlight
    BY <1>1
  <2>2. CASE s = r
    BY <2>2 DEF Commit, Idle, InFlight, Kind
  <2>3. CASE s # r
    <3>1. request'[s] = [request[s] EXCEPT !.overtaken = request[s].phase # "idle"]
      BY <2>3 DEF Commit
    <3> QED
      BY <2>1, <3>1 DEF InFlight
  <2> QED
    BY <2>2, <2>3
<1>4. request' \in [Request -> InFlight]
  BY <1>3 DEF Commit
<1> QED
  BY <1>2, <1>3, <1>4 DEF IInv, TypeOK

\* Every step keeps the invariant.
LEMMA NextKeepsIInv == IInv /\ [Next]_vars => IInv'
<1> SUFFICES ASSUME IInv, [Next]_vars PROVE IInv'
  OBVIOUS
<1>0. request \in [Request -> InFlight]
  BY DEF IInv, TypeOK
<1>1. Idle \in InFlight
  BY DEF Idle, InFlight, Kind
<1>2. ASSUME NEW r \in Request, NEW u \in Member, NEW target \in Member, NEW kind \in Kind,
             Authorize(r, u, kind, target)
      PROVE  IInv'
  <2> DEFINE q == [Idle EXCEPT !.phase = "authorized", !.kind = kind, !.by = u,
                               !.target = target]
  <2>1. /\ q \in InFlight /\ q.phase = "authorized" /\ q.by = u
        /\ request' = [request EXCEPT ![r] = q]
        /\ UNCHANGED <<used, members, active, admins>>
        /\ u \in ActiveAdmins
    BY <1>2 DEF Authorize, Idle, InFlight
  <2> HIDE DEF q
  <2>2. UpToDate(q)
    BY <2>1 DEF UpToDate
  <2> QED
    BY <2>1, <2>2, StepKeepsIInv
<1>3. ASSUME NEW r \in Request, Load(r) PROVE IInv'
  <2> DEFINE p == request[r]
             own == p.target = p.by
             q == [p EXCEPT !.phase = "loaded",
                            !.isActive = own \/ p.target \in active,
                            !.isAdmin = own \/ p.target \in admins]
  <2>1. p \in InFlight /\ p.phase = "authorized" /\ UNCHANGED <<used, members, active, admins>>
    BY <1>0, <1>3 DEF Load
  <2>2. CASE ~(own \/ p.target \in members)
    <3>1. request' = [request EXCEPT ![r] = Idle]
      BY <1>3, <2>2 DEF Load
    <3> QED
      BY <1>1, <2>1, <3>1, StepKeepsIInv DEF Idle
  <2>3. CASE own \/ p.target \in members
    <3>1. request' = [request EXCEPT ![r] = q]
      BY <1>3, <2>3 DEF Load
    <3>2. /\ q \in InFlight /\ q.phase = "loaded"
          /\ q.by = p.by /\ q.target = p.target /\ q.overtaken = p.overtaken
          /\ q.isActive = (own \/ p.target \in active)
          /\ q.isAdmin = (own \/ p.target \in admins)
      BY <2>1 DEF InFlight
    <3>3. ASSUME ~q.overtaken PROVE UpToDate(q)
      <4>1. p.by \in ActiveAdmins /\ p.by \in members
        BY <2>1, <3>2, <3>3 DEF IInv, UpToDate, TypeOK, ActiveAdmins
      <4> HIDE DEF p, q
      <4> QED
        BY <2>3, <3>2, <4>1 DEF UpToDate, ActiveAdmins
    <3> HIDE DEF q
    <3> QED
      BY <2>1, <3>1, <3>2, <3>3, StepKeepsIInv
  <2> QED
    BY <2>2, <2>3
<1>4. ASSUME NEW r \in Request, Check(r) PROVE IInv'
  <2> DEFINE p == request[r]
             q == [p EXCEPT !.phase = "cleared"]
  <2>1. p \in InFlight /\ p.phase = "loaded" /\ UNCHANGED <<used, members, active, admins>>
    BY <1>0, <1>4 DEF Check
  <2>2. CASE Refused(p)
    <3>1. request' = [request EXCEPT ![r] = Idle]
      BY <1>4, <2>2 DEF Check
    <3> QED
      BY <1>1, <2>1, <3>1, StepKeepsIInv DEF Idle
  <2>3. CASE ~Refused(p)
    <3>1. request' = [request EXCEPT ![r] = q]
      BY <1>4, <2>3 DEF Check
    <3>2. /\ q \in InFlight /\ q.phase = "cleared" /\ q.kind = p.kind
          /\ q.by = p.by /\ q.target = p.target /\ q.overtaken = p.overtaken
          /\ q.isActive = p.isActive /\ q.isAdmin = p.isAdmin
      BY <2>1 DEF InFlight
    <3>3. ~q.overtaken => UpToDate(p)
      BY <2>1, <3>2 DEF IInv
    <3> HIDE DEF p, q
    <3>4. ~q.overtaken => UpToDate(q)
      BY <2>1, <2>3, <3>2, <3>3 DEF UpToDate, Refused, LastActiveAdmin
    <3> QED
      BY <2>1, <3>1, <3>2, <3>4, StepKeepsIInv
  <2> QED
    BY <2>2, <2>3
<1>5. CASE UNCHANGED vars
  BY <1>5 DEF vars, IInv, TypeOK, UpToDate, ActiveAdmins, Refused, LastActiveAdmin
<1> QED
  BY <1>2, <1>3, <1>4, <1>5, CreateKeepsIInv, CommitKeepsIInv DEF Next

-----------------------------------------------------------------------------
\* The invariant holds of every household and any number of requests at once.
THEOREM MembersInvariant == Spec => []IInv
BY InitIInv, NextKeepsIInv, PTL DEF Spec

\* Flags belong to rows that exist and requests are well formed, always.
THEOREM MembersTypeCorrect == Spec => []TypeOK
<1>1. IInv => TypeOK
  BY DEF IInv
<1> QED
  BY <1>1, MembersInvariant, PTL

\* Who was deleted never returns, however requests overlap
\* (users.delete_user, set_active, set_admin).
THEOREM DeletedStayGone == Spec => GoneForGood
<1>1. IInv /\ [Next]_vars => [NobodyReturns]_vars
  <2> SUFFICES ASSUME IInv, Next PROVE NobodyReturns
    BY DEF vars
  <2>1. CASE \E m \in Member : CreateUser(m)
    BY <2>1 DEF CreateUser, NobodyReturns
  <2>2. CASE \E r \in Request : Commit(r)
    BY <2>2 DEF Commit, Write, NobodyReturns
  <2>3. CASE members' = members
    BY <2>3 DEF NobodyReturns
  <2> QED
    BY <2>1, <2>2, <2>3 DEF Next, Authorize, Load, Check
<1> QED
  BY <1>1, InitIInv, NextKeepsIInv, PTL DEF Spec, GoneForGood

\* A household loses its last active admin only to a request that another one
\* overtook between its authorization and its commit.
THEOREM LockoutTakesARace == Spec => LockoutNeedsRace
<1>1. IInv /\ [Next]_vars => [OvertakenIfLockedOut]_vars
  <2> SUFFICES ASSUME IInv, Next, ActiveAdmins # {}, ActiveAdmins' = {}
               PROVE  \E r \in Request : request[r].overtaken /\ request'[r] = Idle
    BY DEF vars, OvertakenIfLockedOut
  <2>1. ASSUME NEW m \in Member, CreateUser(m) PROVE FALSE
    BY <2>1 DEF CreateUser, ActiveAdmins
  <2>2. ASSUME NEW r \in Request, Commit(r)
        PROVE  request[r].overtaken /\ request'[r] = Idle
    BY <2>2, CommitLeavesAdmin DEF Commit
  <2>3. CASE active' = active /\ admins' = admins
    BY <2>3 DEF ActiveAdmins
  <2> QED
    BY <2>1, <2>2, <2>3 DEF Next, Authorize, Load, Check
<1> QED
  BY <1>1, InitIInv, NextKeepsIInv, PTL DEF Spec, LockoutNeedsRace

Serial == SomeActiveAdmin /\ \A r \in Request : ~request[r].overtaken

\* One request at a time keeps an active admin as long as there is anybody at
\* all: the guard in endpoints/core/users.py, _last_active_admin, is right for a
\* server that handles requests one after the other.
THEOREM SerialKeepsAdmin ==
    ASSUME NEW only, Request = {only}
    PROVE  Spec => []SomeActiveAdmin
<1>1. Init => Serial
  BY DEF Init, Serial, SomeActiveAdmin, Idle
<1>2. IInv /\ Serial /\ [Next]_vars => Serial'
  <2> SUFFICES ASSUME IInv, Serial, [Next]_vars PROVE Serial'
    OBVIOUS
  <2>0. request \in [Request -> InFlight] /\ ~request[only].overtaken
    BY DEF IInv, TypeOK, Serial
  <2>1. ASSUME NEW m \in Member, CreateUser(m) PROVE Serial'
    BY <2>1 DEF CreateUser, Serial, SomeActiveAdmin, ActiveAdmins
  <2>2. ASSUME NEW r \in Request, Commit(r) PROVE Serial'
    <3>1. request'[only] = Idle
      BY <2>2 DEF Commit
    <3> QED
      BY <2>0, <2>2, <3>1, CommitLeavesAdmin DEF Serial, SomeActiveAdmin, Idle
  <2>3. ASSUME ~request'[only].overtaken,
               UNCHANGED <<used, members, active, admins>>
        PROVE  Serial'
    BY <2>0, <2>3 DEF Serial, SomeActiveAdmin, ActiveAdmins
  <2>4. ASSUME NEW r \in Request, NEW u \in Member, NEW target \in Member, NEW kind \in Kind,
               Authorize(r, u, kind, target)
        PROVE  Serial'
    <3>1. ~request'[only].overtaken
      BY <2>0, <2>4 DEF Authorize, Idle
    <3> QED
      BY <2>3, <2>4, <3>1 DEF Authorize
  <2>5. ASSUME NEW r \in Request, Load(r) PROVE Serial'
    <3>1. request[only] \in InFlight /\ r = only
      BY <2>0
    <3>2. ~request'[only].overtaken
      BY <2>0, <2>5, <3>1 DEF Load, Idle, InFlight
    <3> QED
      BY <2>3, <2>5, <3>2 DEF Load
  <2>6. ASSUME NEW r \in Request, Check(r) PROVE Serial'
    <3>1. request[only] \in InFlight /\ r = only
      BY <2>0
    <3>2. ~request'[only].overtaken
      BY <2>0, <2>6, <3>1 DEF Check, Idle, InFlight
    <3> QED
      BY <2>3, <2>6, <3>2 DEF Check
  <2>7. CASE UNCHANGED vars
    BY <2>7 DEF vars, Serial, SomeActiveAdmin, ActiveAdmins
  <2> QED
    BY <2>1, <2>2, <2>4, <2>5, <2>6, <2>7 DEF Next
<1>3. Serial => SomeActiveAdmin
  BY DEF Serial
<1> QED
  BY <1>1, <1>2, <1>3, InitIInv, NextKeepsIInv, PTL DEF Spec
=============================================================================
