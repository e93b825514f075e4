------------------------------ MODULE Members -------------------------------
(***************************************************************************)
(* The login identities of the household and the three requests that       *)
(* manage them: toggle active, toggle admin, delete.                       *)
(*                                                                         *)
(* Handlers run in a thread pool, each in a database session of its own at *)
(* READ COMMITTED, so a management request is four steps that interleave   *)
(* with those of others: the AdminUser dependency reads the author's row,  *)
(* the handler loads the target's row, counts the active admins, and       *)
(* commits what it computed from the row it loaded.                        *)
(*                                                                         *)
(* Abstracted: names and passwords.  Any active admin may have a session:  *)
(* the cookie is got by logging in while active and outlives a             *)
(* deactivation, but is worth nothing during one.                          *)
(***************************************************************************)
EXTENDS Integers, FiniteSets

CONSTANTS
    Member,    \* ids of login identities, each used once (bounds creations)
    Request,   \* slots for management requests in flight
    NoMember

ASSUME MembersAssumption == IsFiniteSet(Member) /\ NoMember \notin Member

VARIABLES
    used,      \* ids handed out so far
    members,   \* the rows of table owner
    active,    \* those with is_active set
    admins,    \* those with is_admin set
    request    \* the management requests in flight

vars == <<used, members, active, admins, request>>

-----------------------------------------------------------------------------
Kind == {"toggle_active", "toggle_admin", "delete"}

Idle == [phase |-> "idle", kind |-> "delete", by |-> NoMember, target |-> NoMember,
         isActive |-> FALSE, isAdmin |-> FALSE, overtaken |-> FALSE]

\* isActive and isAdmin are the target's flags as loaded; overtaken says that
\* another request committed since this one began (history, read by no action).
InFlight == [phase : {"idle", "authorized", "loaded", "cleared"}, kind : Kind,
             by : Member \cup {NoMember}, target : Member \cup {NoMember},
             isActive : BOOLEAN, isAdmin : BOOLEAN, overtaken : BOOLEAN]

TypeOK ==
    /\ used \subseteq Member /\ members \subseteq used
    /\ active \subseteq members /\ admins \subseteq members
    /\ request \in [Request -> InFlight]

Init ==
    /\ used = {} /\ members = {} /\ active = {} /\ admins = {}
    /\ request = [r \in Request |-> Idle]

ActiveAdmins == active \cap admins

\* The command line, or any member on the Users page: who joins an empty table
\* is the admin.
CreateUser(m) ==
    /\ m \notin used
    /\ used' = used \cup {m}
    /\ members' = members \cup {m}
    /\ active' = active \cup {m}
    /\ admins' = IF members = {} THEN admins \cup {m} ELSE admins
    /\ UNCHANGED request

\* The AdminUser dependency lets the request in.
Authorize(r, u, kind, target) ==
    /\ request[r].phase = "idle"
    /\ u \in ActiveAdmins
    /\ request' = [request EXCEPT ![r] =
          [Idle EXCEPT !.phase = "authorized", !.kind = kind, !.by = u, !.target = target]]
    /\ UNCHANGED <<used, members, active, admins>>

\* The handler loads its target.  The author's own row is in the session
\* already, as the dependency read it.
Load(r) ==
    LET q == request[r]
        own == q.target = q.by
    IN  /\ q.phase = "authorized"
        /\ request' = [request EXCEPT ![r] =
              IF own \/ q.target \in members
              THEN [q EXCEPT !.phase = "loaded",
                             !.isActive = own \/ q.target \in active,
                             !.isAdmin = own \/ q.target \in admins]
              ELSE Idle]
        /\ UNCHANGED <<used, members, active, admins>>

\* Mutant: the last of two admins counts as one too many.
LastActiveAdminOffByOne(q) == q.isAdmin /\ q.isActive /\ Cardinality(ActiveAdmins) < 1

LastActiveAdmin(q) == q.isAdmin /\ q.isActive /\ Cardinality(ActiveAdmins) <= 1

\* What each handler refuses before it writes.
Refused(q) ==
    \/ q.kind \in {"toggle_active", "delete"} /\ q.target = q.by
    \/ q.kind = "toggle_active" /\ q.isActive /\ LastActiveAdmin(q)
    \/ q.kind = "delete" /\ LastActiveAdmin(q)
    \/ q.kind = "toggle_admin" /\ q.isAdmin /\ LastActiveAdmin(q)

Check(r) ==
    /\ request[r].phase = "loaded"
    /\ request' = [request EXCEPT ![r] = IF Refused(request[r]) THEN Idle
                                         ELSE [request[r] EXCEPT !.phase = "cleared"]]
    /\ UNCHANGED <<used, members, active, admins>>

\* Mutant: the flag is written whether or not the row is still there.
FlippedUnmatched(flags, m, was) == IF was THEN flags \ {m} ELSE flags \cup {m}

\* A flag column after one row of it was set to the opposite of what was loaded;
\* a row that is gone by now matches nothing.
Flipped(flags, m, was) == IF was THEN flags \ {m} ELSE flags \cup ({m} \cap members)

Write(q) ==
    \/ /\ q.kind = "toggle_active"
       /\ active' = Flipped(active, q.target, q.isActive)
       /\ UNCHANGED <<members, admins>>
    \/ /\ q.kind = "toggle_admin"
       /\ admins' = Flipped(admins, q.target, q.isAdmin)
       /\ UNCHANGED <<members, active>>
    \/ /\ q.kind = "delete"
       /\ members' = members \ {q.target}
       /\ active' = active \ {q.target}
       /\ admins' = admins \ {q.target}

Commit(r) ==
    /\ request[r].phase = "cleared"
    /\ Write(request[r])
    /\ request' = [s \in Request |->
          IF s = r THEN Idle
          ELSE [request[s] EXCEPT !.overtaken = request[s].phase # "idle"]]
    /\ UNCHANGED used

Next ==
    \/ \E m \in Member : CreateUser(m)
    \/ \E r \in Request, u, target \in Member, kind \in Kind : Authorize(r, u, kind, target)
    \/ \E r \in Request : Load(r) \/ Check(r) \/ Commit(r)

Spec == Init /\ [][Next]_vars

-----------------------------------------------------------------------------
\* Who was deleted never comes back, not even through a toggle that loaded the
\* row before (users.py, delete_user).
NobodyReturns == \A m \in used \ members : m \notin members'

GoneForGood == [][NobodyReturns]_vars

\* Only a request that another one overtook can take the last active admin
\* away: by itself no sequence of creations, toggles and deletions does
\* (endpoints/core/users.py, _last_active_admin).
OvertakenIfLockedOut ==
    ActiveAdmins # {} /\ ActiveAdmins' = {} =>
        \E r \in Request : request[r].overtaken /\ request'[r] = Idle

LockoutNeedsRace == [][OvertakenIfLockedOut]_vars

\* "You cannot strip the last active admin": somebody can always manage the
\* household.
SomeActiveAdmin == members # {} => ActiveAdmins # {}

=============================================================================
