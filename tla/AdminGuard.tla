----------------------------- MODULE AdminGuard -----------------------------
(***************************************************************************)
(* Member administration (identity/services.py) and the bootstrap command  *)
(* (identity/bootstrap.py) on one members table: several administrators    *)
(* create, enable and disable accounts at the same time, while bootstrap   *)
(* commands try to create the first administrator.                         *)
(*                                                                         *)
(* A request reads its actor and its target without a lock.  Only when it  *)
(* is about to disable an active administrator does it lock the rows of    *)
(* the active administrators and count them.                               *)
(***************************************************************************)
EXTENDS Naturals, FiniteSets

CONSTANTS Members,      \* accounts, by their unique username
          Requests,     \* create_member and update_member requests
          Boots,        \* runs of the bootstrap command
          InitAdmins,   \* the sets of active administrators to start from
          None

ASSUME AdminAssumption ==
    /\ IsFiniteSet(Members)
    /\ InitAdmins \subseteq SUBSET Members
    /\ None \notin Members \cup Boots

VARIABLES
    rows,       \* members of the table
    admins,     \* those with role admin
    active,     \* those with is_active
    req,        \* the requests
    boot,       \* the bootstrap runs
    advisory,   \* the bootstrap run that holds pg_advisory_xact_lock
    created     \* history: administrators a bootstrap has created

vars == <<rows, admins, active, req, boot, advisory, created>>
table == <<rows, admins, active>>

\* seen is what was loaded of the target, snap the rows the locking query has
\* found, held the rows it has locked.
Request == [pc : {"new", "actor", "target", "count", "counted", "done"},
            kind : {"create", "enable", "disable"}, actor : Members \cup {None},
            target : Members \cup {None}, role : {"member", "admin"},
            seen : {"active_admin", "active_member", "inactive"},
            snap : SUBSET Members, held : SUBSET Members]
NewRequest == [pc |-> "new", kind |-> "create", actor |-> None, target |-> None,
               role |-> "member", seen |-> "inactive", snap |-> {}, held |-> {}]
Boot == [pc : {"new", "locked", "named", "insert", "done"}, username : Members \cup {None}]

Init ==
    /\ admins \in InitAdmins
    /\ rows = admins /\ active = admins
    /\ req = [r \in Requests |-> NewRequest]
    /\ boot = [b \in Boots |-> [pc |-> "new", username |-> None]]
    /\ advisory = None /\ created = {}

ActiveAdmins == admins \cap active

\* The columns role and is_active as a read shows them.
Columns(m) == IF m \notin active THEN "inactive"
              ELSE IF m \in admins THEN "active_admin" ELSE "active_member"

\* get_member finds the row.
Exists(m) == m \in rows

\* Slip: the username column has no unique index.
UsernameNeverTaken(m) == FALSE

\* The unique index on usernames, which refuses an insert at its flush.
UsernameTaken(m) == m \in rows

\* Slip: counting the administrators does not lock their rows.
RowUnlocked(m, r) == TRUE

\* A row is written or locked only while no other transaction holds its lock.
RowFree(m, r) == \A s \in Requests \ {r} : m \notin req[s].held

SetRequest(r, q) == /\ req' = [req EXCEPT ![r] = q]
                    /\ UNCHANGED <<boot, advisory, created>>

\* The request answers, and its transaction ends.
Finish(r) == SetRequest(r, [NewRequest EXCEPT !.pc = "done"])

-----------------------------------------------------------------------------
(* create_member and update_member *)

\* authenticated_member and require_admin.
Authenticate(r) ==
    /\ req[r].pc = "new"
    /\ \E a \in ActiveAdmins, m \in Members, k \in {"create", "enable", "disable"},
          role \in {"member", "admin"} :
        /\ k # "create" => role = "member"
        /\ SetRequest(r, [pc |-> "actor", kind |-> k, actor |-> a, target |-> m, role |-> role,
                          seen |-> "active_admin", snap |-> {}, held |-> {}])
    /\ UNCHANGED table

\* get_member or get_member_by_username.  The actor's own row is not read again:
\* the session has it.
LoadTarget(r) ==
    LET q == req[r]
        ok == IF q.kind = "create" THEN q.target \notin rows ELSE Exists(q.target) IN
    /\ q.pc = "actor"
    /\ IF ok
         THEN SetRequest(r, [q EXCEPT !.pc = "target",
                                      !.seen = IF q.target = q.actor THEN "active_admin"
                                               ELSE Columns(q.target)])
         ELSE Finish(r)
    /\ UNCHANGED table

DisablingActiveAdmin(q) == q.kind = "disable" /\ q.seen = "active_admin"

\* The locking query starts with the rows that match in its snapshot.
CountAdmins(r) ==
    /\ req[r].pc = "target" /\ DisablingActiveAdmin(req[r])
    /\ IF req[r].target = req[r].actor
         THEN Finish(r)
         ELSE SetRequest(r, [req[r] EXCEPT !.pc = "count", !.snap = ActiveAdmins])
    /\ UNCHANGED table

\* len(active_admins) <= 1
LastAdminRequired(found) == Cardinality(found) <= 1

\* It waits for each row and checks its condition again on the row's last version.
LockAdmins(r) ==
    LET found == req[r].snap \cap active IN
    /\ req[r].pc = "count"
    /\ \A m \in req[r].snap : RowFree(m, r)
    /\ IF LastAdminRequired(found)
         THEN Finish(r)
         ELSE SetRequest(r, [req[r] EXCEPT !.pc = "counted", !.held = found])
    /\ UNCHANGED table

\* The commit of update_member: is_active is written when it differs from the
\* loaded value.
UpdateMember(r) ==
    LET q == req[r] IN
    /\ q.kind \in {"enable", "disable"}
    /\ q.pc = "counted" \/ (q.pc = "target" /\ ~DisablingActiveAdmin(q))
    /\ RowFree(q.target, r)
    /\ active' = IF q.kind = "enable" /\ q.seen = "inactive" THEN active \cup {q.target}
                 ELSE IF q.kind = "disable" /\ q.seen # "inactive" THEN active \ {q.target}
                 ELSE active
    /\ UNCHANGED <<rows, admins>>
    /\ Finish(r)

Insert(m, isAdmin) ==
    /\ rows' = rows \cup {m}
    /\ admins' = IF isAdmin THEN admins \cup {m} ELSE admins
    /\ active' = active \cup {m}

\* The insert of create_member, or the IntegrityError it answers with 409.
CreateMember(r) ==
    /\ req[r].pc = "target" /\ req[r].kind = "create"
    /\ \/ UsernameTaken(req[r].target) /\ UNCHANGED table
       \/ ~UsernameTaken(req[r].target) /\ Insert(req[r].target, req[r].role = "admin")
    /\ Finish(r)

\* A deadlock, a lost connection or another error rolls the request back.
Abort(r) ==
    /\ req[r].pc \notin {"new", "done"}
    /\ Finish(r)
    /\ UNCHANGED table

-----------------------------------------------------------------------------
(* bootstrap_first_admin *)

SetBoot(b, q) == /\ boot' = [boot EXCEPT ![b] = q]
                 /\ UNCHANGED req

\* The command ends, and with its session the advisory lock.
EndBoot(b) == /\ SetBoot(b, [pc |-> "done", username |-> None])
              /\ advisory' = None

\* Slip: bootstraps are not serialized.
AdvisoryIgnored == TRUE

\* pg_advisory_xact_lock waits for the holder's transaction to end.
AdvisoryFree == advisory = None

SerializeBootstrap(b) ==
    /\ boot[b].pc = "new" /\ AdvisoryFree
    /\ \E m \in Members : SetBoot(b, [pc |-> "locked", username |-> m])
    /\ advisory' = b
    /\ UNCHANGED <<table, created>>

\* An existing account of that name is left as it is, whatever its role.
BootFindUsername(b) ==
    /\ boot[b].pc = "locked"
    /\ IF boot[b].username \in rows
         THEN EndBoot(b)
         ELSE SetBoot(b, [boot[b] EXCEPT !.pc = "named"]) /\ UNCHANGED advisory
    /\ UNCHANGED <<table, created>>

BootFindAdmin(b) ==
    /\ boot[b].pc = "named"
    /\ IF admins # {}
         THEN EndBoot(b)
         ELSE SetBoot(b, [boot[b] EXCEPT !.pc = "insert"]) /\ UNCHANGED advisory
    /\ UNCHANGED <<table, created>>

\* The commit, or the conflict the unique index reports.
BootInsert(b) ==
    /\ boot[b].pc = "insert"
    /\ \/ UsernameTaken(boot[b].username) /\ UNCHANGED <<table, created>>
       \/ /\ ~UsernameTaken(boot[b].username)
          /\ Insert(boot[b].username, TRUE)
          /\ created' = created \cup {boot[b].username}
    /\ EndBoot(b)

\* The command is killed or loses its connection.
BootAbort(b) ==
    /\ boot[b].pc \notin {"new", "done"}
    /\ EndBoot(b)
    /\ UNCHANGED <<table, created>>

-----------------------------------------------------------------------------
RequestStep(r) == \/ Authenticate(r) \/ LoadTarget(r) \/ CountAdmins(r) \/ LockAdmins(r)
                  \/ UpdateMember(r) \/ CreateMember(r) \/ Abort(r)

BootStep(b) == \/ SerializeBootstrap(b) \/ BootFindUsername(b) \/ BootFindAdmin(b)
               \/ BootInsert(b) \/ BootAbort(b)

Next == (\E r \in Requests : RequestStep(r)) \/ (\E b \in Boots : BootStep(b))

Spec == Init /\ [][Next]_vars

-----------------------------------------------------------------------------
(* Properties *)

\* Roles and activity belong to existing members; requests hold what they can load.
TypeOK ==
    /\ rows \subseteq Members /\ admins \subseteq rows /\ active \subseteq rows
    /\ req \in [Requests -> Request]
    /\ boot \in [Boots -> Boot]
    /\ advisory \in Boots \cup {None}
    /\ created \subseteq admins

\* Once there is an administrator, an active one always remains, whoever disables
\* whom at the same time (last_admin_required, services.py:108).
AdminRemains == admins # {} => ActiveAdmins # {}

\* A bootstrap creates an administrator only in a table without one, so only once
\* (README.md:61-62), however many run.
FirstAdminOnly == [][created' # created => admins = {} /\ created = {}]_vars

\* No concurrent creation or bootstrap removes an account or changes its role.
AccountsKept == [][\A m \in rows : m \in rows' /\ (m \in admins' <=> m \in admins)]_vars

-----------------------------------------------------------------------------
(* The inductive invariant behind them *)

\* A locked row stays an active administrator, and there is more than one of them.
HeldActive ==
    \A r \in Requests :
      /\ req[r].held # {} => req[r].pc = "counted"
      /\ req[r].held \subseteq ActiveAdmins
      /\ req[r].pc = "counted" => \A m \in Members : req[r].held \ {m} # {}

\* Two transactions never hold the same row.
HeldApart == \A r, s \in Requests : r # s => req[r].held \cap req[s].held = {}

\* An update without the count leaves the active administrators alone.
Uncounted ==
    \A r \in Requests : req[r].pc = "target" /\ req[r].kind # "create" =>
      /\ req[r].target \in rows
      /\ req[r].seen = "active_member" => req[r].target \notin admins

\* A request counts the administrators only to disable one that it saw active.
Counting ==
    \A r \in Requests : req[r].pc \in {"count", "counted"} =>
      DisablingActiveAdmin(req[r]) /\ req[r].snap \subseteq admins

\* Requests have an administrator as their actor and name a target.
HasActor ==
    \A r \in Requests : req[r].pc \notin {"new", "done"} =>
      admins # {} /\ req[r].target \in Members

\* The bootstrap that holds the advisory lock is the only one between its checks
\* and its insert, and no administrator can appear meanwhile.
Bootstrapping ==
    \A b \in Boots :
      /\ boot[b].pc \in {"locked", "named", "insert"} <=> advisory = b
      /\ advisory = b => boot[b].username \in Members
      /\ boot[b].pc = "insert" => admins = {}

IInv == /\ TypeOK /\ AdminRemains /\ HeldActive /\ HeldApart /\ Uncounted /\ Counting
        /\ HasActor /\ Bootstrapping
=============================================================================
