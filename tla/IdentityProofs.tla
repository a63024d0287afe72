--------------------------- MODULE IdentityProofs ---------------------------
(***************************************************************************)
(* Proofs about the identity module, for any number of members, requests   *)
(* and bootstrap runs.  AdminGuard: an active administrator always remains,*)
(* and a bootstrap creates at most the first one.  ProviderSettings: a key *)
(* stays with its URL, and a PATCH changes nothing but the timeout.        *)
(***************************************************************************)
EXTENDS AdminGuard, ProviderSettings, FiniteSetTheorems, TLAPS

\* A step of one request leaves the others and the bootstraps alone.
LEMMA SetRequestType ==
    ASSUME TypeOK, NEW r \in Requests, NEW q \in Request, SetRequest(r, q)
    PROVE  /\ req' \in [Requests -> Request]
           /\ req'[r] = q
           /\ \A s \in Requests : s # r => req'[s] = req[s]
           /\ UNCHANGED <<boot, advisory, created>>
BY DEF SetRequest, TypeOK

\* A finished request has the fields of a new one and holds nothing.
LEMMA FinishType ==
    ASSUME TypeOK, NEW r \in Requests, Finish(r)
    PROVE  /\ req' \in [Requests -> Request]
           /\ req'[r].pc = "done" /\ req'[r].held = {}
           /\ \A s \in Requests : s # r => req'[s] = req[s]
           /\ UNCHANGED <<boot, advisory, created>>
<1>1. PICK q : q = [NewRequest EXCEPT !.pc = "done"]
  OBVIOUS
<1>2. q \in Request /\ q.pc = "done" /\ q.held = {}
  BY <1>1 DEF NewRequest, Request
<1>3. SetRequest(r, q)
  BY <1>1 DEF Finish
<1> QED BY <1>2, <1>3, SetRequestType

\* The invariant holds initially.
LEMMA InvInit == Init => IInv
<1> SUFFICES ASSUME Init PROVE IInv
  OBVIOUS
<1>1. NewRequest \in Request
  BY DEF NewRequest, Request
<1>2. [pc |-> "new", username |-> None] \in Boot
  BY DEF Boot
<1>3. TypeOK
  BY <1>1, <1>2, AdminAssumption DEF Init, TypeOK
<1>4. AdminRemains
  BY DEF Init, AdminRemains, ActiveAdmins
<1>5. HeldActive /\ HeldApart /\ Uncounted /\ Counting /\ HasActor
  BY DEF Init, NewRequest, HeldActive, HeldApart, Uncounted, Counting, HasActor
<1>6. Bootstrapping
  BY AdminAssumption DEF Init, Bootstrapping
<1> QED BY <1>3, <1>4, <1>5, <1>6 DEF IInv

\* A request that ends without a write keeps the invariant.
LEMMA FinishStep ==
    ASSUME IInv, NEW r \in Requests, Finish(r), UNCHANGED table
    PROVE  IInv'
<1> USE DEF IInv, table
<1>1. /\ req' \in [Requests -> Request]
      /\ req'[r].pc = "done" /\ req'[r].held = {}
      /\ \A s \in Requests : s # r => req'[s] = req[s]
      /\ UNCHANGED <<boot, advisory, created>>
  BY FinishType
<1>2. TypeOK' /\ AdminRemains' /\ Bootstrapping'
  BY <1>1 DEF TypeOK, AdminRemains, ActiveAdmins, Bootstrapping
<1>3. HeldActive' /\ HeldApart'
  BY <1>1 DEF HeldActive, HeldApart, ActiveAdmins
<1>4. Uncounted' /\ Counting' /\ HasActor'
  BY <1>1 DEF Uncounted, Counting, HasActor, DisablingActiveAdmin
<1> QED BY <1>2, <1>3, <1>4

\* authenticated_member and require_admin keep the invariant.
LEMMA AuthenticateStep ==
    ASSUME IInv, NEW r \in Requests, Authenticate(r)
    PROVE  IInv'
<1> USE DEF IInv, table
<1>1. UNCHANGED <<rows, admins, active>>
  BY DEF Authenticate
<1>2. PICK q : /\ q \in Request /\ q.pc = "actor" /\ q.held = {} /\ q.target \in Members
               /\ admins # {} /\ SetRequest(r, q)
  <2>1. PICK a \in ActiveAdmins, m \in Members, k \in {"create", "enable", "disable"},
             role \in {"member", "admin"} :
          SetRequest(r, [pc |-> "actor", kind |-> k, actor |-> a, target |-> m, role |-> role,
                         seen |-> "active_admin", snap |-> {}, held |-> {}])
    BY DEF Authenticate
  <2>2. a \in Members /\ admins # {}
    BY DEF ActiveAdmins, TypeOK
  <2>3. [pc |-> "actor", kind |-> k, actor |-> a, target |-> m, role |-> role,
         seen |-> "active_admin", snap |-> {}, held |-> {}] \in Request
    BY <2>2 DEF Request
  <2> QED BY <2>1, <2>2, <2>3
<1>3. /\ req' \in [Requests -> Request] /\ req'[r] = q
      /\ \A s \in Requests : s # r => req'[s] = req[s]
      /\ UNCHANGED <<boot, advisory, created>>
  BY <1>2, SetRequestType
<1>4. TypeOK' /\ AdminRemains' /\ Bootstrapping'
  BY <1>1, <1>3 DEF TypeOK, AdminRemains, ActiveAdmins, Bootstrapping
<1>5. HeldActive' /\ HeldApart'
  BY <1>1, <1>2, <1>3 DEF HeldActive, HeldApart, ActiveAdmins
<1>6. Uncounted' /\ Counting' /\ HasActor'
  BY <1>1, <1>2, <1>3 DEF Uncounted, Counting, HasActor, DisablingActiveAdmin
<1> QED BY <1>4, <1>5, <1>6

\* Loading the target keeps the invariant.
LEMMA LoadTargetStep ==
    ASSUME IInv, NEW r \in Requests, LoadTarget(r)
    PROVE  IInv'
<1> USE DEF IInv
<1>1. UNCHANGED <<rows, admins, active>> /\ req[r].pc = "actor"
  BY DEF LoadTarget, table
<1>2. CASE Finish(r)
  BY <1>1, <1>2, FinishStep DEF table
<1>3. CASE ~Finish(r)
  <2>1. PICK seen : seen = IF req[r].target = req[r].actor THEN "active_admin"
                           ELSE Columns(req[r].target)
    OBVIOUS
  <2>2. PICK q : q = [req[r] EXCEPT !.pc = "target", !.seen = seen]
    OBVIOUS
  <2>3. SetRequest(r, q) /\ (req[r].kind # "create" => req[r].target \in rows)
    BY <1>3, <2>1, <2>2 DEF LoadTarget, Exists
  <2>4. req[r] \in Request /\ seen \in {"active_admin", "active_member", "inactive"}
    BY <2>1 DEF TypeOK, Columns
  <2>5. /\ q \in Request /\ q.pc = "target" /\ q.seen = seen /\ q.kind = req[r].kind
        /\ q.target = req[r].target /\ q.held = req[r].held
    BY <2>2, <2>4 DEF Request
  <2>6. /\ req' \in [Requests -> Request] /\ req'[r] = q
        /\ \A s \in Requests : s # r => req'[s] = req[s]
        /\ UNCHANGED <<boot, advisory, created>>
    BY <2>3, <2>5, SetRequestType
  <2>7. req[r].held = {}
    BY <1>1 DEF HeldActive
  <2>8. seen = "active_member" => req[r].target \notin admins
    BY <2>1 DEF Columns
  <2>9. TypeOK' /\ AdminRemains' /\ Bootstrapping'
    BY <1>1, <2>6 DEF TypeOK, AdminRemains, ActiveAdmins, Bootstrapping
  <2>10. HeldActive' /\ HeldApart'
    BY <1>1, <2>5, <2>6, <2>7 DEF HeldActive, HeldApart, ActiveAdmins
  <2>11. Uncounted'
    BY <1>1, <2>3, <2>5, <2>6, <2>8 DEF Uncounted
  <2>12. Counting' /\ HasActor'
    BY <1>1, <2>5, <2>6 DEF Counting, HasActor, DisablingActiveAdmin
  <2> QED BY <2>9, <2>10, <2>11, <2>12
<1> QED BY <1>2, <1>3

\* Starting to count the administrators keeps the invariant.
LEMMA CountAdminsStep ==
    ASSUME IInv, NEW r \in Requests, CountAdmins(r)
    PROVE  IInv'
<1> USE DEF IInv
<1>1. /\ UNCHANGED <<rows, admins, active>> /\ req[r].pc = "target"
      /\ DisablingActiveAdmin(req[r])
  BY DEF CountAdmins, table
<1>2. CASE Finish(r)
  BY <1>1, <1>2, FinishStep DEF table
<1>3. CASE ~Finish(r)
  <2>1. PICK q : q = [req[r] EXCEPT !.pc = "count", !.snap = ActiveAdmins]
    OBVIOUS
  <2>2. SetRequest(r, q)
    BY <1>3, <2>1 DEF CountAdmins
  <2>3. req[r] \in Request /\ ActiveAdmins \subseteq Members
    BY DEF TypeOK, ActiveAdmins
  <2>4. /\ q \in Request /\ q.pc = "count" /\ q.seen = req[r].seen /\ q.kind = req[r].kind
        /\ q.target = req[r].target /\ q.held = req[r].held /\ q.snap = ActiveAdmins
    BY <2>1, <2>3 DEF Request
  <2>5. /\ req' \in [Requests -> Request] /\ req'[r] = q
        /\ \A s \in Requests : s # r => req'[s] = req[s]
        /\ UNCHANGED <<boot, advisory, created>>
    BY <2>2, <2>4, SetRequestType
  <2>6. req[r].held = {}
    BY <1>1 DEF HeldActive
  <2>7. TypeOK' /\ AdminRemains' /\ Bootstrapping'
    BY <1>1, <2>5 DEF TypeOK, AdminRemains, ActiveAdmins, Bootstrapping
  <2>8. HeldActive' /\ HeldApart'
    BY <1>1, <2>4, <2>5, <2>6 DEF HeldActive, HeldApart, ActiveAdmins
  <2>9. Uncounted' /\ HasActor'
    BY <1>1, <2>4, <2>5 DEF Uncounted, HasActor
  <2>10. Counting'
    BY <1>1, <2>4, <2>5 DEF Counting, DisablingActiveAdmin, ActiveAdmins
  <2> QED BY <2>7, <2>8, <2>9, <2>10
<1> QED BY <1>2, <1>3

\* More than one administrator: whichever is taken away, one is left.
LEMMA MoreThanOne ==
    ASSUME NEW S, IsFiniteSet(S), ~(Cardinality(S) <= 1)
    PROVE  \A m : S \ {m} # {}
<1> SUFFICES ASSUME NEW m, S \ {m} = {} PROVE FALSE
  OBVIOUS
<1>1. S = {} \/ S = {m}
  OBVIOUS
<1> QED BY <1>1, FS_EmptySet, FS_Singleton

\* Locking the rows of the active administrators keeps the invariant.
LEMMA LockAdminsStep ==
    ASSUME IInv, NEW r \in Requests, LockAdmins(r)
    PROVE  IInv'
<1> USE DEF IInv
<1>1. UNCHANGED <<rows, admins, active>> /\ req[r].pc = "count"
  BY DEF LockAdmins, table
<1>2. CASE Finish(r)
  BY <1>1, <1>2, FinishStep DEF table
<1>3. CASE ~Finish(r)
  <2>1. PICK found : found = req[r].snap \cap active
    OBVIOUS
  <2>2. PICK q : q = [req[r] EXCEPT !.pc = "counted", !.held = found]
    OBVIOUS
  <2>3. /\ SetRequest(r, q) /\ ~(Cardinality(found) <= 1)
        /\ \A m \in found : RowFree(m, r)
    BY <1>3, <2>1, <2>2 DEF LockAdmins, LastAdminRequired
  <2>4. req[r] \in Request /\ DisablingActiveAdmin(req[r]) /\ req[r].snap \subseteq admins
    BY <1>1 DEF TypeOK, Counting
  <2>5. found \subseteq ActiveAdmins /\ found \subseteq Members
    BY <2>1, <2>4 DEF ActiveAdmins, TypeOK
  <2>6. \A m : found \ {m} # {}
    BY <2>3, <2>5, AdminAssumption, FS_Subset, MoreThanOne
  <2>7. /\ q \in Request /\ q.pc = "counted" /\ q.seen = req[r].seen /\ q.kind = req[r].kind
        /\ q.target = req[r].target /\ q.held = found /\ q.snap = req[r].snap
    BY <2>2, <2>4, <2>5 DEF Request
  <2>8. /\ req' \in [Requests -> Request] /\ req'[r] = q
        /\ \A s \in Requests : s # r => req'[s] = req[s]
        /\ UNCHANGED <<boot, advisory, created>>
    BY <2>3, <2>7, SetRequestType
  <2>9. TypeOK' /\ AdminRemains' /\ Bootstrapping'
    BY <1>1, <2>8 DEF TypeOK, AdminRemains, ActiveAdmins, Bootstrapping
  <2>10. HeldActive'
    BY <1>1, <2>5, <2>6, <2>7, <2>8 DEF HeldActive, ActiveAdmins
  <2>11. HeldApart'
    <3>1. \A s \in Requests : s # r => found \cap req[s].held = {}
      BY <2>3 DEF RowFree
    <3> QED BY <2>7, <2>8, <3>1 DEF HeldApart
  <2>12. Uncounted' /\ HasActor'
    BY <1>1, <2>7, <2>8 DEF Uncounted, HasActor
  <2>13. Counting'
    BY <1>1, <2>4, <2>7, <2>8 DEF Counting, DisablingActiveAdmin
  <2> QED BY <2>9, <2>10, <2>11, <2>12, <2>13
<1> QED BY <1>2, <1>3

\* update_member keeps the invariant: an administrator it disables leaves another
\* one whose row it holds.
LEMMA UpdateMemberStep ==
    ASSUME IInv, NEW r \in Requests, UpdateMember(r)
    PROVE  IInv'
<1> USE DEF IInv
<1>1. PICK t : t = req[r].target
  OBVIOUS
<1>2. /\ UNCHANGED <<rows, admins>> /\ Finish(r) /\ RowFree(t, r)
      /\ req[r].kind # "create"
      /\ active' \in {active, active \cup {t}, active \ {t}}
      /\ active' # active /\ active' = active \ {t} =>
           req[r].kind = "disable" /\ req[r].seen # "inactive"
      /\ req[r].pc = "counted" \/ (req[r].pc = "target" /\ ~DisablingActiveAdmin(req[r]))
  BY <1>1 DEF UpdateMember
<1>3. /\ req' \in [Requests -> Request]
      /\ req'[r].pc = "done" /\ req'[r].held = {}
      /\ \A s \in Requests : s # r => req'[s] = req[s]
      /\ UNCHANGED <<boot, advisory, created>>
  BY <1>2, FinishType
<1>4. t \in Members /\ req[r] \in Request
  BY <1>1, <1>2 DEF HasActor, TypeOK
<1>5. t \in active' => t \in rows
  <2>1. CASE req[r].pc = "target"
    BY <1>1, <1>2, <2>1 DEF Uncounted
  <2>2. CASE req[r].pc = "counted"
    <3>1. active' = active \/ active' = active \ {t}
      BY <1>1, <2>2 DEF UpdateMember, Counting, DisablingActiveAdmin
    <3> QED BY <3>1 DEF TypeOK
  <2> QED BY <1>2, <2>1, <2>2
<1>6. TypeOK'
  BY <1>2, <1>3, <1>5 DEF TypeOK
<1>7. CASE active \subseteq active'
  <2>1. ActiveAdmins \subseteq ActiveAdmins'
    BY <1>2, <1>7 DEF ActiveAdmins
  <2>2. AdminRemains' /\ HeldActive' /\ HeldApart'
    BY <1>2, <1>3, <2>1 DEF AdminRemains, HeldActive, HeldApart
  <2>3. Uncounted' /\ Counting' /\ HasActor' /\ Bootstrapping'
    BY <1>2, <1>3 DEF Uncounted, Counting, HasActor, Bootstrapping, DisablingActiveAdmin
  <2> QED BY <1>6, <2>2, <2>3
<1>8. CASE ~(active \subseteq active')
  <2>1. active' = active \ {t} /\ req[r].kind = "disable" /\ req[r].seen # "inactive"
    BY <1>2, <1>8
  <2>2. ASSUME req[r].pc = "counted" PROVE AdminRemains'
    <3>1. req[r].held \subseteq ActiveAdmins /\ req[r].held \ {t} # {}
      BY <1>4, <2>2 DEF HeldActive
    <3>2. ActiveAdmins' = ActiveAdmins \ {t}
      BY <1>2, <2>1 DEF ActiveAdmins
    <3> QED BY <3>1, <3>2 DEF AdminRemains
  <2>3. ASSUME req[r].pc = "target", ~DisablingActiveAdmin(req[r]) PROVE AdminRemains'
    <3>1. req[r].seen = "active_member"
      BY <1>4, <2>1, <2>3 DEF DisablingActiveAdmin, Request
    <3>2. t \notin admins
      BY <1>1, <1>2, <2>3, <3>1 DEF Uncounted
    <3>3. ActiveAdmins' = ActiveAdmins
      BY <1>2, <2>1, <3>2 DEF ActiveAdmins
    <3> QED BY <1>2, <3>3 DEF AdminRemains
  <2>4. AdminRemains'
    BY <1>2, <2>2, <2>3
  <2>5. HeldActive' /\ HeldApart'
    <3>1. \A s \in Requests : s # r => t \notin req[s].held
      BY <1>2 DEF RowFree
    <3>2. ActiveAdmins' = ActiveAdmins \ {t}
      BY <1>2, <2>1 DEF ActiveAdmins
    <3> QED BY <1>3, <3>1, <3>2 DEF HeldActive, HeldApart
  <2>6. Uncounted' /\ Counting' /\ HasActor' /\ Bootstrapping'
    BY <1>2, <1>3 DEF Uncounted, Counting, HasActor, Bootstrapping, DisablingActiveAdmin
  <2> QED BY <1>6, <2>4, <2>5, <2>6
<1> QED BY <1>7, <1>8

\* create_member keeps the invariant.
LEMMA CreateMemberStep ==
    ASSUME IInv, NEW r \in Requests, CreateMember(r)
    PROVE  IInv'
<1> USE DEF IInv
<1>1. Finish(r) /\ req[r].pc = "target"
  BY DEF CreateMember
<1>2. CASE UNCHANGED table
  BY <1>1, <1>2, FinishStep
<1>3. CASE ~UNCHANGED table
  <2>1. PICK t : t = req[r].target
    OBVIOUS
  <2>2. t \in Members /\ admins # {}
    BY <1>1, <2>1 DEF HasActor
  <2>3. /\ t \notin rows /\ rows' = rows \cup {t} /\ active' = active \cup {t}
        /\ admins' \in {admins, admins \cup {t}}
    BY <1>3, <2>1 DEF CreateMember, Insert, UsernameTaken
  <2>4. /\ req' \in [Requests -> Request]
        /\ req'[r].pc = "done" /\ req'[r].held = {}
        /\ \A s \in Requests : s # r => req'[s] = req[s]
        /\ UNCHANGED <<boot, advisory, created>>
    BY <1>1, FinishType
  <2>5. TypeOK'
    BY <2>2, <2>3, <2>4 DEF TypeOK
  <2>6. ActiveAdmins \subseteq ActiveAdmins'
    BY <2>3 DEF ActiveAdmins
  <2>7. AdminRemains' /\ HeldActive' /\ HeldApart'
    BY <2>2, <2>4, <2>6 DEF AdminRemains, HeldActive, HeldApart
  <2>8. Uncounted' /\ Counting' /\ HasActor'
    BY <2>2, <2>3, <2>4 DEF Uncounted, Counting, HasActor, DisablingActiveAdmin
  <2>9. Bootstrapping'
    BY <2>2, <2>4 DEF Bootstrapping
  <2> QED BY <2>5, <2>7, <2>8, <2>9
<1> QED BY <1>2, <1>3

\* Steps of a bootstrap that write no row keep the invariant.
LEMMA BootReads ==
    ASSUME IInv, NEW b \in Boots,
           SerializeBootstrap(b) \/ BootFindUsername(b) \/ BootFindAdmin(b) \/ BootAbort(b)
    PROVE  IInv'
<1> USE DEF IInv
<1>1. UNCHANGED <<rows, admins, active, req, created>>
  BY DEF SerializeBootstrap, BootFindUsername, BootFindAdmin, BootAbort, EndBoot, SetBoot, table
<1>2. PICK q : /\ q \in Boot /\ boot' = [boot EXCEPT ![b] = q]
               /\ q.pc \in {"locked", "named", "insert"} => advisory' = b /\ q.username \in Members
               /\ q.pc = "insert" => admins = {}
               /\ q.pc = "done" => advisory = b /\ advisory' = None
               /\ q.pc \in {"named", "insert", "done"} => advisory = b
               /\ q.pc = "locked" => advisory = None
               /\ q.pc # "new"
  <2>1. boot[b] \in Boot /\ (boot[b].pc \in {"locked", "named", "insert"} <=> advisory = b)
        /\ (advisory = b => boot[b].username \in Members)
    BY DEF TypeOK, Bootstrapping
  <2>2. PICK d \in Boot : d.pc = "done" /\ d.username = None
                          /\ d = [pc |-> "done", username |-> None]
    BY DEF Boot
  <2>3. ASSUME EndBoot(b), boot[b].pc \notin {"new", "done"}
        PROVE  boot' = [boot EXCEPT ![b] = d] /\ advisory' = None /\ advisory = b
    BY <2>1, <2>2, <2>3 DEF EndBoot, SetBoot, Boot
  <2>4. CASE SerializeBootstrap(b)
    <3>1. PICK m \in Members : boot' = [boot EXCEPT ![b] = [pc |-> "locked", username |-> m]]
      BY <2>4 DEF SerializeBootstrap, SetBoot
    <3>2. PICK q : q = [pc |-> "locked", username |-> m]
      OBVIOUS
    <3>3. q \in Boot /\ q.pc = "locked" /\ q.username \in Members
      BY <3>2 DEF Boot
    <3>4. advisory = None /\ advisory' = b /\ boot' = [boot EXCEPT ![b] = q]
      BY <2>4, <3>1, <3>2 DEF SerializeBootstrap, AdvisoryFree
    <3> QED BY <3>3, <3>4
  <2>5. CASE BootFindUsername(b)
    <3>1. CASE EndBoot(b)
      BY <2>2, <2>3, <2>5, <3>1 DEF BootFindUsername
    <3>2. CASE ~EndBoot(b)
      <4>1. PICK q : q = [boot[b] EXCEPT !.pc = "named"]
        OBVIOUS
      <4>2. q \in Boot /\ q.pc = "named" /\ q.username = boot[b].username
        BY <2>1, <4>1 DEF Boot
      <4>3. boot' = [boot EXCEPT ![b] = q] /\ UNCHANGED advisory
        BY <2>5, <3>2, <4>1 DEF BootFindUsername, SetBoot
      <4>4. advisory = b
        BY <2>1, <2>5, <3>2 DEF BootFindUsername
      <4> QED BY <2>1, <4>2, <4>3, <4>4
    <3> QED BY <3>1, <3>2
  <2>6. CASE BootFindAdmin(b)
    <3>1. CASE EndBoot(b)
      BY <2>2, <2>3, <2>6, <3>1 DEF BootFindAdmin
    <3>2. CASE ~EndBoot(b)
      <4>1. PICK q : q = [boot[b] EXCEPT !.pc = "insert"]
        OBVIOUS
      <4>2. q \in Boot /\ q.pc = "insert" /\ q.username = boot[b].username
        BY <2>1, <4>1 DEF Boot
      <4>3. boot' = [boot EXCEPT ![b] = q] /\ UNCHANGED advisory
        BY <2>6, <3>2, <4>1 DEF BootFindAdmin, SetBoot
      <4>4. advisory = b /\ admins = {}
        BY <2>1, <2>6, <3>2 DEF BootFindAdmin
      <4> QED BY <2>1, <4>2, <4>3, <4>4
    <3> QED BY <3>1, <3>2
  <2>7. CASE BootAbort(b)
    BY <2>2, <2>3, <2>7 DEF BootAbort
  <2> QED BY <2>4, <2>5, <2>6, <2>7
<1>3. /\ boot' \in [Boots -> Boot] /\ boot'[b] = q
      /\ \A c \in Boots : c # b => boot'[c] = boot[c]
  BY <1>2 DEF TypeOK
<1>4. q.pc \in {"locked", "named", "insert", "done"} /\ advisory' \in {b, None}
  BY <1>2 DEF Boot
<1>5. TypeOK' /\ AdminRemains'
  BY <1>1, <1>3, <1>4 DEF TypeOK, AdminRemains, ActiveAdmins
<1>6. Bootstrapping'
  BY <1>1, <1>2, <1>3, <1>4, AdminAssumption DEF Bootstrapping
<1>7. HeldActive' /\ HeldApart' /\ Uncounted' /\ Counting' /\ HasActor'
  BY <1>1 DEF HeldActive, HeldApart, Uncounted, Counting, HasActor, ActiveAdmins
<1> QED BY <1>5, <1>6, <1>7

\* The insert of a bootstrap creates the first administrator and keeps the invariant.
LEMMA BootInsertStep ==
    ASSUME IInv, NEW b \in Boots, BootInsert(b)
    PROVE  IInv' /\ admins = {} /\ created = {}
<1> USE DEF IInv
<1>1. advisory = b /\ admins = {} /\ boot[b].username \in Members
  BY DEF BootInsert, Bootstrapping
<1>2. created = {} /\ \A r \in Requests : req[r].pc \in {"new", "done"}
  BY <1>1 DEF TypeOK, HasActor
<1>3. PICK d \in Boot : d.pc = "done" /\ boot' = [boot EXCEPT ![b] = d]
  <2>1. [pc |-> "done", username |-> None] \in Boot
    BY DEF Boot
  <2> QED BY <2>1 DEF BootInsert, EndBoot, SetBoot
<1>4. advisory' = None /\ UNCHANGED req
  BY DEF BootInsert, EndBoot, SetBoot
<1>5. /\ boot' \in [Boots -> Boot] /\ boot'[b].pc = "done"
      /\ \A c \in Boots : c # b => boot'[c] = boot[c]
  BY <1>3 DEF TypeOK
<1>6. \A c \in Boots : boot'[c].pc \notin {"locked", "named", "insert"}
  BY <1>1, <1>5 DEF Bootstrapping
<1>7. Bootstrapping'
  BY <1>4, <1>6, AdminAssumption DEF Bootstrapping
<1>8. \A r \in Requests : req[r].held = {}
  BY <1>2 DEF HeldActive
<1>9. HeldActive' /\ HeldApart' /\ Uncounted' /\ Counting' /\ HasActor'
  BY <1>2, <1>4, <1>8 DEF HeldActive, HeldApart, Uncounted, Counting, HasActor
<1>10. TypeOK' /\ AdminRemains'
  <2>1. CASE UNCHANGED <<table, created>>
    BY <1>4, <1>5, <2>1 DEF TypeOK, AdminRemains, ActiveAdmins, table
  <2>2. PICK u : u = boot[b].username
    OBVIOUS
  <2>3. CASE ~UNCHANGED <<table, created>>
    <3>1. /\ rows' = rows \cup {u} /\ admins' = admins \cup {u} /\ active' = active \cup {u}
          /\ created' = created \cup {u}
      BY <2>2, <2>3 DEF BootInsert, Insert
    <3> QED BY <1>1, <1>4, <1>5, <2>2, <3>1 DEF TypeOK, AdminRemains, ActiveAdmins
  <2> QED BY <2>1, <2>3
<1> QED BY <1>1, <1>2, <1>7, <1>9, <1>10

\* Every step keeps the invariant.
LEMMA InvStep == IInv /\ [Next]_vars => IInv'
<1> SUFFICES ASSUME IInv, [Next]_vars PROVE IInv'
  OBVIOUS
<1>1. ASSUME NEW r \in Requests, RequestStep(r) PROVE IInv'
  <2>1. CASE Authenticate(r)
    BY <2>1, AuthenticateStep
  <2>2. CASE LoadTarget(r)
    BY <2>2, LoadTargetStep
  <2>3. CASE CountAdmins(r)
    BY <2>3, CountAdminsStep
  <2>4. CASE LockAdmins(r)
    BY <2>4, LockAdminsStep
  <2>5. CASE UpdateMember(r)
    BY <2>5, UpdateMemberStep
  <2>6. CASE CreateMember(r)
    BY <2>6, CreateMemberStep
  <2>7. CASE Abort(r)
    BY <2>7, FinishStep DEF Abort
  <2> QED BY <1>1, <2>1, <2>2, <2>3, <2>4, <2>5, <2>6, <2>7 DEF RequestStep
<1>2. ASSUME NEW b \in Boots, BootStep(b) PROVE IInv'
  BY <1>2, BootReads, BootInsertStep DEF BootStep
<1>3. CASE UNCHANGED vars
  BY <1>3 DEF vars, IInv, TypeOK, AdminRemains, ActiveAdmins, HeldActive, HeldApart, Uncounted,
              Counting, HasActor, Bootstrapping
<1> QED BY <1>1, <1>2, <1>3 DEF Next

\* The inductive invariant: row locks, what requests have seen, and the bootstrap.
THEOREM AdminInvariant == Spec => []IInv
<1>1. Init => IInv
  BY InvInit
<1>2. IInv /\ [Next]_vars => IInv'
  BY InvStep
<1> QED BY <1>1, <1>2, PTL DEF Spec

\* The members table and the requests keep their types.
THEOREM TypeCorrect == Spec => []TypeOK
<1>1. IInv => TypeOK
  BY DEF IInv
<1> QED BY <1>1, AdminInvariant, PTL

\* Administrators that disable each other with update_member never disable the last.
THEOREM AdminAlwaysRemains == Spec => []AdminRemains
<1>1. IInv => AdminRemains
  BY DEF IInv
<1> QED BY <1>1, AdminInvariant, PTL

\* bootstrap_first_admin creates an administrator only where there was none.
THEOREM BootstrapOnce == Spec => FirstAdminOnly
<1>1. ASSUME IInv, [Next]_vars, created' # created
      PROVE  admins = {} /\ created = {}
  <2>1. ASSUME NEW r \in Requests, RequestStep(r) PROVE created' = created
    BY <2>1 DEF RequestStep, Authenticate, LoadTarget, CountAdmins, LockAdmins, UpdateMember,
                CreateMember, Abort, Finish, SetRequest
  <2>2. ASSUME NEW b \in Boots, BootStep(b) PROVE admins = {} /\ created = {}
    <3>1. BootInsert(b)
      BY <1>1, <2>2 DEF BootStep, SerializeBootstrap, BootFindUsername, BootFindAdmin, BootAbort
    <3> QED BY <1>1, <3>1, BootInsertStep
  <2>3. CASE UNCHANGED vars
    BY <1>1, <2>3 DEF vars
  <2> QED BY <1>1, <2>1, <2>2, <2>3 DEF Next
<1>2. IInv /\ [Next]_vars => [created' # created => admins = {} /\ created = {}]_vars
  BY <1>1
<1> QED BY <1>2, AdminInvariant, PTL DEF Spec, FirstAdminOnly

\* Neither create_member nor a bootstrap touches an account that exists.
THEOREM AccountsStay == Spec => AccountsKept
<1>1. ASSUME [Next]_vars, NEW m \in rows
      PROVE  m \in rows' /\ (m \in admins' <=> m \in admins)
  <2>1. ASSUME NEW r \in Requests, RequestStep(r)
        PROVE  m \in rows' /\ (m \in admins' <=> m \in admins)
    <3>1. CASE UNCHANGED <<rows, admins>>
      BY <3>1
    <3>2. CASE CreateMember(r)
      BY <3>2 DEF CreateMember, Insert, UsernameTaken, table
    <3> QED BY <2>1, <3>1, <3>2 DEF RequestStep, Authenticate, LoadTarget, CountAdmins,
                                    LockAdmins, UpdateMember, Abort, table
  <2>2. ASSUME NEW b \in Boots, BootStep(b)
        PROVE  m \in rows' /\ (m \in admins' <=> m \in admins)
    BY <2>2 DEF BootStep, SerializeBootstrap, BootFindUsername, BootFindAdmin, BootAbort,
                BootInsert, Insert, UsernameTaken, table
  <2>3. CASE UNCHANGED vars
    BY <2>3 DEF vars
  <2> QED BY <1>1, <2>1, <2>2, <2>3 DEF Next
<1>2. [Next]_vars => [\A m \in rows : m \in rows' /\ (m \in admins' <=> m \in admins)]_vars
  BY <1>1
<1> QED BY <1>2, PTL DEF Spec, AccountsKept

-----------------------------------------------------------------------------
(* The provider settings: the other component of identity/services.py that   *)
(* requests change concurrently                                              *)

\* What the UPDATE does to a column: a written row is a row, a column that the
\* request did not change stays as it is, and one that it changed is written.
LEMMA FlushSetting ==
    ASSUME NEW loaded \in Setting, NEW assigned \in Setting,
           NEW current \in Setting, NEW new,
           new = Flush(loaded, assigned, current)
    PROVE  /\ new \in Setting
           /\ \A c \in SettingColumns :
                new[c] = IF assigned[c] # loaded[c] THEN assigned[c] ELSE current[c]
<1>1. new \in Setting
  BY DEF Flush, Setting, SettingColumns
<1>2. \A c \in SettingColumns :
        new[c] = IF assigned[c] # loaded[c] THEN assigned[c] ELSE current[c]
  BY DEF Flush
<1> QED BY <1>1, <1>2

\* A PUT carries a whole connection, with its own key and the URL that was sent with it.
LEMMA PutCarries ==
    ASSUME NEW r \in Changes, NEW d \in Carries(r, "put")
    PROVE  d \in Setting /\ d.encrypted_api_key = <<r, d.base_url>>
BY DEF Carries, Setting

\* Whatever a request carries has the type of what requests carry.
LEMMA CarriesType ==
    ASSUME NEW r \in Changes, NEW k \in Kinds, NEW d \in Carries(r, k)
    PROVE  d \in Sent
BY DEF Carries, Kinds, Sent, Setting

\* A PATCH carries a timeout.
LEMMA PatchCarries ==
    ASSUME NEW r \in Changes, NEW d \in Carries(r, "patch")
    PROVE  d.timeout_seconds \in Timeouts
BY DEF Carries

\* A request that no step touches stays as it was loaded.
LEMMA StillLoaded ==
    ASSUME NEW q \in Changes, LoadedRequest(q), change'[q] = change[q]
    PROVE  LoadedRequest(q)'
<1>1. CASE change[q].pc # "loaded"
  BY <1>1 DEF LoadedRequest
<1>2. CASE change[q].pc = "loaded"
  <2>1. /\ change'[q].kind = change[q].kind
        /\ change'[q].data \in Carries(q, change[q].kind)
        /\ change'[q].outcome = "none"
        /\ change'[q].seen # NoConnection => change'[q].seen.data.encrypted_api_key[1] # q
    BY <1>2 DEF LoadedRequest
  <2> QED BY <2>1 DEF LoadedRequest, Carries
<1> QED BY <1>1, <1>2

\* The answer of a request ends it and leaves the others as they are.
LEMMA FinishEffect ==
    ASSUME SettingsInv, NEW r \in Changes, NEW outcome \in Outcomes, Answered(r, outcome)
    PROVE  /\ change' \in [Changes -> Change]
           /\ change'[r].pc = "done" /\ change'[r].outcome = outcome
           /\ \A q \in Changes \ {r} : change'[q] = change[q]
           /\ \A q \in Changes : LoadedRequest(q)'
           /\ \A q \in Changes : change[q].pc = "done" => change'[q].pc = "done"
<1> USE DEF SettingsInv
<1>1. change \in [Changes -> Change]
  BY DEF SettingsTypeOK
<1>2. PICK answer : answer = [NewChange EXCEPT !.pc = "done", !.kind = change[r].kind,
                                                          !.outcome = outcome]
  OBVIOUS
<1>3. answer \in Change /\ answer.pc = "done" /\ answer.outcome = outcome
  BY <1>1, <1>2 DEF NewChange, Change, Sent
<1>4. change' = [change EXCEPT ![r] = answer]
  BY <1>2 DEF Answered
<1>5. /\ change' \in [Changes -> Change] /\ change'[r] = answer
      /\ \A q \in Changes \ {r} : change'[q] = change[q]
  BY <1>1, <1>3, <1>4
<1>6. ASSUME NEW q \in Changes
      PROVE  LoadedRequest(q)'
  <2>1. CASE q = r
    BY <1>3, <1>5, <2>1 DEF LoadedRequest
  <2>2. CASE q # r
    BY <1>5, <2>2, StillLoaded
  <2> QED BY <2>1, <2>2
<1>7. \A q \in Changes : change[q].pc = "done" => change'[q].pc = "done"
  BY <1>3, <1>5
<1> QED BY <1>3, <1>5, <1>6, <1>7

\* The stored key stays that of a request that has ended.
LEMMA KeyStaysStored ==
    ASSUME SettingsInv, row' = row \/ row' = NoConnection,
           \A q \in Changes : change[q].pc = "done" => change'[q].pc = "done"
    PROVE  StoredKey'
<1> SUFFICES ASSUME row' # NoConnection PROVE change'[row'.data.encrypted_api_key[1]].pc = "done"
  BY DEF StoredKey
<1>1. row' = row /\ row.data.encrypted_api_key[1] \in Changes
  BY DEF SettingsInv, SettingsTypeOK, Row, Setting
<1>2. change[row.data.encrypted_api_key[1]].pc = "done"
  BY <1>1 DEF SettingsInv, StoredKey
<1> QED BY <1>1, <1>2

\* Every initial state satisfies the invariant.
LEMMA SettingsStart == SettingsInit => SettingsInv
<1> SUFFICES ASSUME SettingsInit PROVE SettingsInv
  OBVIOUS
<1>1. NewChange \in Change /\ NewChange.pc = "new"
  BY DEF NewChange, Change, Kinds, Outcomes,
         Sent
<1>2. \A r \in Changes : change[r] = NewChange
  BY DEF SettingsInit
<1>3. SettingsTypeOK
  BY <1>1 DEF SettingsInit, SettingsTypeOK
<1>4. \A r \in Changes : LoadedRequest(r)
  BY <1>1, <1>2 DEF LoadedRequest
<1>5. StoredKey /\ Matched
  BY DEF SettingsInit, StoredKey, Matched
<1> QED BY <1>3, <1>4, <1>5 DEF SettingsInv

\* A request loads the row.
LEMMA LoadSettings ==
    ASSUME SettingsInv, NEW r \in Changes, Load(r)
    PROVE  SettingsInv'
<1> USE DEF SettingsInv
<1>1. PICK k \in Kinds : \E d \in Carries(r, k) :
        change' = [change EXCEPT ![r] = [pc |-> "loaded", kind |-> k, seen |-> row, data |-> d,
                                         outcome |-> "none"]]
  BY DEF Load
<1>2. PICK d \in Carries(r, k) :
        change' = [change EXCEPT ![r] = [pc |-> "loaded", kind |-> k, seen |-> row, data |-> d,
                                         outcome |-> "none"]]
  BY <1>1
<1>3. PICK new : new = [pc |-> "loaded", kind |-> k, seen |-> row, data |-> d,
                        outcome |-> "none"]
  OBVIOUS
<1>4. UNCHANGED <<row, ids, call, mixed>>
  BY DEF Load
<1>5. new \in Change
  BY <1>3, CarriesType DEF SettingsTypeOK, Change, Outcomes
<1>6. change' = [change EXCEPT ![r] = new]
  BY <1>2, <1>3
<1>7. SettingsTypeOK'
  BY <1>4, <1>5, <1>6 DEF SettingsTypeOK
<1>8. /\ change[r].pc = "new" /\ change'[r] = new
      /\ \A q \in Changes : q # r => change'[q] = change[q]
  BY <1>6 DEF SettingsTypeOK, Load
<1>9. ASSUME NEW q \in Changes
      PROVE  LoadedRequest(q)'
  <2>1. CASE q = r
    <3>1. /\ change'[q].kind = k /\ change'[q].data \in Carries(q, k)
          /\ change'[q].outcome = "none" /\ change'[q].seen = row
      BY <1>3, <1>4, <1>8, <2>1
    <3>2. row # NoConnection => row.data.encrypted_api_key[1] # q
      BY <1>8, <2>1 DEF StoredKey
    <3> QED BY <3>1, <3>2 DEF LoadedRequest, Carries
  <2>2. CASE q # r
    BY <1>4, <1>8, <2>2, StillLoaded
  <2> QED BY <2>1, <2>2
<1>10. Matched'
  BY <1>4 DEF Matched, Matching
<1>11. StoredKey'
  BY <1>4, <1>8, KeyStaysStored
<1> QED BY <1>7, <1>9, <1>10, <1>11

\* GET, and requests that found no row.
LEMMA ReadSettings ==
    ASSUME SettingsInv, NEW r \in Changes, Read(r)
    PROVE  SettingsInv'
<1> USE DEF SettingsInv
<1>1. PICK outcome : outcome = IF change[r].seen = NoConnection THEN "not_found" ELSE "ok"
  OBVIOUS
<1>2. UNCHANGED <<row, ids, call, mixed>> /\ Answered(r, outcome)
  BY <1>1 DEF Read
<1>3. outcome \in Outcomes
  BY <1>1 DEF Outcomes
<1>4. /\ change' \in [Changes -> Change] /\ \A q \in Changes : LoadedRequest(q)'
      /\ StoredKey'
  BY <1>2, <1>3, FinishEffect, KeyStaysStored
<1> QED BY <1>2, <1>4 DEF SettingsTypeOK, Matched, Matching

\* PUT of a new connection.
LEMMA InsertSetting ==
    ASSUME SettingsInv, NEW r \in Changes, PutInsert(r)
    PROVE  SettingsInv'
<1> USE DEF SettingsInv
<1>1. UNCHANGED <<call, mixed>> /\ change[r].kind = "put" /\ change[r].pc = "loaded"
  BY DEF PutInsert, Loaded
<1>2. PICK data : data = change[r].data
  OBVIOUS
<1>3. data \in Setting /\ data.encrypted_api_key = <<r, data.base_url>>
  BY <1>1, <1>2, PutCarries DEF LoadedRequest
<1>4. "ok" \in Outcomes /\ "conflict" \in Outcomes
  BY DEF Outcomes
<1>5. CASE row = NoConnection
  <2>1. row' = [id |-> ids, data |-> data] /\ ids' = ids + 1 /\ Answered(r, "ok")
    BY <1>2, <1>5 DEF PutInsert
  <2>2. /\ change' \in [Changes -> Change] /\ change'[r].pc = "done"
        /\ \A q \in Changes : LoadedRequest(q)'
    BY <1>4, <2>1, FinishEffect
  <2>3. row' \in Row /\ row'.data = data
    BY <1>3, <2>1 DEF Row, SettingsTypeOK
  <2>4. SettingsTypeOK'
    BY <1>1, <2>1, <2>2, <2>3 DEF SettingsTypeOK
  <2>5. Matched'
    BY <1>1, <1>3, <2>3 DEF Matched, Matching
  <2>6. StoredKey'
    BY <1>3, <2>2, <2>3 DEF StoredKey
  <2> QED BY <2>2, <2>4, <2>5, <2>6
<1>6. CASE row # NoConnection
  <2>1. UNCHANGED <<row, ids>> /\ Answered(r, "conflict")
    BY <1>6 DEF PutInsert
  <2>2. /\ change' \in [Changes -> Change] /\ \A q \in Changes : LoadedRequest(q)'
        /\ StoredKey'
    BY <1>4, <2>1, FinishEffect, KeyStaysStored
  <2> QED BY <1>1, <2>1, <2>2 DEF SettingsTypeOK, Matched, Matching
<1> QED BY <1>5, <1>6

\* The UPDATE of a row that is still there: after a PATCH only the timeout can
\* differ; after a PUT the key is its own, and the URL too where the row still has
\* the URL that the PUT loaded.
LEMMA UpdatedRow ==
    ASSUME SettingsInv, NEW r \in Changes, Update(r), Same(r)
    PROVE  /\ row \in Row /\ row' \in Row
           /\ change[r].kind = "patch" =>
                \A c \in SettingColumns \ {"timeout_seconds"} : row'.data[c] = row.data[c]
           /\ change[r].kind = "put" =>
                /\ row'.data.encrypted_api_key = <<r, change[r].data.base_url>>
                /\ ~UrlMoved(r) => row'.data.base_url = change[r].data.base_url
<1> USE DEF SettingsInv
<1>1. /\ change[r].pc = "loaded" /\ change[r].kind \in {"put", "patch"}
      /\ change[r].seen # NoConnection /\ row # NoConnection
      /\ row' = [row EXCEPT !.data = Flush(change[r].seen.data, Assigned(r), row.data)]
  BY DEF Update, Loaded, Same
<1>2. /\ row \in Row /\ change[r].seen \in Row
      /\ row.data \in Setting /\ change[r].seen.data \in Setting
  BY <1>1 DEF SettingsTypeOK, Change, Row
<1>3. PICK loaded, assigned, new :
        /\ loaded = change[r].seen.data /\ assigned = Assigned(r)
        /\ new = Flush(loaded, assigned, row.data)
  OBVIOUS
<1>4. change[r].data \in Carries(r, change[r].kind) /\ loaded.encrypted_api_key[1] # r
  BY <1>1, <1>3 DEF LoadedRequest
<1>5. CASE change[r].kind = "put"
  <2>1. /\ assigned = change[r].data /\ assigned \in Setting
        /\ assigned.encrypted_api_key = <<r, assigned.base_url>>
    BY <1>3, <1>4, <1>5, PutCarries DEF Assigned
  <2>2. /\ new \in Setting
        /\ new["encrypted_api_key"] =
             IF assigned["encrypted_api_key"] # loaded["encrypted_api_key"]
               THEN assigned["encrypted_api_key"] ELSE row.data["encrypted_api_key"]
        /\ new["base_url"] = IF assigned["base_url"] # loaded["base_url"]
                               THEN assigned["base_url"] ELSE row.data["base_url"]
    <3>1. \A c \in SettingColumns :
            new[c] = IF assigned[c] # loaded[c] THEN assigned[c] ELSE row.data[c]
      BY <1>2, <1>3, <2>1, FlushSetting
    <3>2. new \in Setting
      BY <1>2, <1>3, <2>1, FlushSetting
    <3> QED BY <3>1, <3>2 DEF SettingColumns
  <2>3. row' \in Row /\ row'.data = new
    BY <1>1, <1>2, <1>3, <2>2 DEF Row
  <2>4. assigned.encrypted_api_key # loaded.encrypted_api_key
    BY <1>4, <2>1
  <2>5. new.encrypted_api_key = assigned.encrypted_api_key
    BY <1>2, <1>3, <2>1, <2>2, <2>4 DEF Setting
  <2>6. ~UrlMoved(r) => new.base_url = assigned.base_url
    BY <1>2, <1>3, <2>1, <2>2 DEF Setting, UrlMoved
  <2> QED BY <1>2, <1>5, <2>1, <2>3, <2>5, <2>6
<1>6. CASE change[r].kind = "patch"
  <2>1. PICK t : t = change[r].data.timeout_seconds
    OBVIOUS
  <2>2. t \in Timeouts
    BY <1>4, <1>6, <2>1, PatchCarries
  <2>3. assigned = [loaded EXCEPT !.timeout_seconds = t]
    BY <1>3, <1>6, <2>1 DEF Assigned
  <2>4. assigned \in Setting
    BY <1>2, <1>3, <2>2, <2>3 DEF Setting
  <2>5. \A c \in SettingColumns \ {"timeout_seconds"} : assigned[c] = loaded[c]
    BY <1>2, <1>3, <2>3 DEF SettingColumns, Setting
  <2>6. /\ new \in Setting
        /\ \A c \in SettingColumns : assigned[c] = loaded[c] => new[c] = row.data[c]
    BY <1>2, <1>3, <2>4, FlushSetting
  <2>7. row' \in Row /\ row'.data = new
    BY <1>1, <1>2, <1>3, <2>6 DEF Row
  <2> QED BY <1>2, <1>6, <2>5, <2>6, <2>7
<1> QED BY <1>1, <1>5, <1>6

\* PUT over a row, or PATCH: the row keeps a key with its URL, unless a PUT meets
\* another URL than it loaded, which is then recorded.
LEMMA UpdateSetting ==
    ASSUME SettingsInv, NEW r \in Changes, Update(r)
    PROVE  SettingsInv'
<1> USE DEF SettingsInv
<1>1. UNCHANGED <<ids, call>> /\ change[r].pc = "loaded" /\ change[r].kind \in {"put", "patch"}
  BY DEF Update, Loaded
<1>2. "ok" \in Outcomes /\ "conflict" \in Outcomes
  BY DEF Outcomes
<1>3. CASE ~Same(r)
  <2>1. UNCHANGED <<row, mixed>> /\ Answered(r, "conflict")
    BY <1>3 DEF Update
  <2>2. /\ change' \in [Changes -> Change] /\ \A q \in Changes : LoadedRequest(q)'
        /\ StoredKey'
    BY <1>2, <2>1, FinishEffect, KeyStaysStored
  <2> QED BY <1>1, <2>1, <2>2 DEF SettingsTypeOK, Matched, Matching
<1>4. CASE Same(r)
  <2>1. /\ mixed' = mixed \cup {q \in {r} : change[r].kind = "put" /\ UrlMoved(r)}
        /\ Answered(r, "ok") /\ row # NoConnection
    BY <1>4 DEF Update, Same
  <2>2. /\ change' \in [Changes -> Change] /\ change'[r].pc = "done"
        /\ \A q \in Changes : LoadedRequest(q)'
        /\ \A q \in Changes : change[q].pc = "done" => change'[q].pc = "done"
    BY <1>2, <2>1, FinishEffect
  <2>3. /\ row \in Row /\ row' \in Row
        /\ change[r].kind = "patch" =>
             \A c \in SettingColumns \ {"timeout_seconds"} : row'.data[c] = row.data[c]
        /\ change[r].kind = "put" =>
             /\ row'.data.encrypted_api_key = <<r, change[r].data.base_url>>
             /\ ~UrlMoved(r) => row'.data.base_url = change[r].data.base_url
    BY <1>4, UpdatedRow
  <2>4. mixed \subseteq mixed' /\ mixed' \subseteq Changes
    BY <2>1 DEF SettingsTypeOK
  <2>5. SettingsTypeOK'
    BY <1>1, <2>2, <2>3, <2>4 DEF SettingsTypeOK
  <2>6. call' # NoConnection => Matching(call)'
    BY <1>1, <2>4 DEF Matched, Matching
  <2>7. CASE change[r].kind = "put"
    <3>1. Matching(row.data)'
      <4>1. UrlMoved(r) => r \in mixed'
        BY <2>1, <2>7
      <4> QED BY <2>3, <2>7, <4>1 DEF Matching
    <3>2. StoredKey'
      BY <2>2, <2>3, <2>7 DEF StoredKey
    <3> QED BY <2>2, <2>5, <2>6, <3>1, <3>2 DEF Matched
  <2>8. CASE change[r].kind = "patch"
    <3>1. Matching(row.data)
      BY <2>1 DEF Matched
    <3>2. /\ row'.data["encrypted_api_key"] = row.data["encrypted_api_key"]
          /\ row'.data["base_url"] = row.data["base_url"]
      BY <2>3, <2>8 DEF SettingColumns
    <3>3. row.data \in Setting /\ row'.data \in Setting
      BY <2>3 DEF Row
    <3>4. /\ row'.data.encrypted_api_key = row.data.encrypted_api_key
          /\ row'.data.base_url = row.data.base_url
      BY <3>2, <3>3 DEF Setting
    <3>5. Matching(row.data)'
      BY <2>4, <3>1, <3>4 DEF Matching
    <3>6. StoredKey'
      <4>1. row.data.encrypted_api_key[1] \in Changes
        BY <3>3 DEF Setting
      <4> QED BY <2>1, <2>2, <3>4, <4>1 DEF StoredKey
    <3> QED BY <2>2, <2>5, <2>6, <3>5, <3>6 DEF Matched
  <2> QED BY <1>1, <2>7, <2>8
<1> QED BY <1>3, <1>4

\* DELETE of the row that was loaded.
LEMMA DeleteSetting ==
    ASSUME SettingsInv, NEW r \in Changes, Delete(r)
    PROVE  SettingsInv'
<1> USE DEF SettingsInv
<1>1. UNCHANGED <<ids, call, mixed>> /\ Answered(r, "ok") /\ (row' = NoConnection \/ row' = row)
  BY DEF Delete
<1>2. "ok" \in Outcomes
  BY DEF Outcomes
<1>3. /\ change' \in [Changes -> Change] /\ \A q \in Changes : LoadedRequest(q)'
      /\ StoredKey'
  BY <1>1, <1>2, FinishEffect, KeyStaysStored
<1>4. SettingsTypeOK'
  BY <1>1, <1>3 DEF SettingsTypeOK
<1>5. Matched'
  BY <1>1 DEF Matched, Matching
<1> QED BY <1>3, <1>4, <1>5

\* The worker reads the row.
LEMMA UseSetting ==
    ASSUME SettingsInv, ProviderContext
    PROVE  SettingsInv'
<1> USE DEF SettingsInv
<1>1. UNCHANGED <<row, ids, change, mixed>> /\ row # NoConnection /\ call' = row.data
  BY DEF ProviderContext
<1>2. row.data \in Setting
  BY <1>1 DEF SettingsTypeOK, Row
<1>3. SettingsTypeOK'
  BY <1>1, <1>2 DEF SettingsTypeOK
<1>4. \A q \in Changes : LoadedRequest(q)'
  BY <1>1, StillLoaded
<1>5. Matched'
  BY <1>1 DEF Matched, Matching
<1>6. StoredKey'
  BY <1>1, KeyStaysStored
<1> QED BY <1>3, <1>4, <1>5, <1>6

\* Requests in any interleaving, and a worker that reads the row at any time.
THEOREM SettingsInductive == SettingsSpec => []SettingsInv
<1>1. ASSUME SettingsInv, [SettingsNext]_settingsVars
      PROVE  SettingsInv'
  <2>1. ASSUME NEW r \in Changes, Load(r)
        PROVE  SettingsInv'
    BY <1>1, <2>1, LoadSettings
  <2>2. ASSUME NEW r \in Changes, Read(r)
        PROVE  SettingsInv'
    BY <1>1, <2>2, ReadSettings
  <2>3. ASSUME NEW r \in Changes, PutInsert(r)
        PROVE  SettingsInv'
    BY <1>1, <2>3, InsertSetting
  <2>4. ASSUME NEW r \in Changes, Update(r)
        PROVE  SettingsInv'
    BY <1>1, <2>4, UpdateSetting
  <2>5. ASSUME NEW r \in Changes, Delete(r)
        PROVE  SettingsInv'
    BY <1>1, <2>5, DeleteSetting
  <2>6. CASE ProviderContext
    BY <1>1, <2>6, UseSetting
  <2>7. CASE UNCHANGED settingsVars
    <3>1. UNCHANGED <<row, ids, change, call, mixed>>
      BY <2>7 DEF settingsVars
    <3>2. \A q \in Changes : LoadedRequest(q)'
      BY <1>1, <3>1, StillLoaded DEF SettingsInv
    <3>3. StoredKey'
      BY <1>1, <3>1, KeyStaysStored
    <3> QED BY <1>1, <3>1, <3>2, <3>3
          DEF SettingsInv, SettingsTypeOK, Matched, Matching
  <2> QED BY <1>1, <2>1, <2>2, <2>3, <2>4, <2>5, <2>6, <2>7 DEF SettingsNext
<1> QED BY <1>1, SettingsStart, PTL DEF SettingsSpec

\* Every variable of the provider settings keeps its type.
THEOREM SettingsTypeCorrect == SettingsSpec => []SettingsTypeOK
<1>1. SettingsInv => SettingsTypeOK
  BY DEF SettingsInv
<1> QED BY <1>1, SettingsInductive, PTL

\* _provider_context: the provider is called with a key and the URL it was saved
\* with, for any number of overlapping requests; where it is not, the PUT that stored
\* this key was committed while the stored URL was not the one it had loaded.
THEOREM KeyStaysWithUrl == SettingsSpec => []KeyGoesToItsUrl
<1>1. SettingsInv => KeyGoesToItsUrl
  BY DEF SettingsInv, Matched, Matching, KeyGoesToItsUrl
<1> QED BY <1>1, SettingsInductive, PTL

\* PATCH of the timeout: a successful one leaves key, URL and model as they are,
\* also when the row was written since the request loaded it.
THEOREM PatchOnlyTimeout == SettingsSpec => PatchKeepsConnection
<1>1. ASSUME SettingsInv, [SettingsNext]_settingsVars, NEW r \in Changes,
             change[r].kind = "patch", change[r].pc = "loaded",
             change'[r].outcome = "ok", row # NoConnection
      PROVE  /\ row' # NoConnection
             /\ \A c \in SettingColumns \ {"timeout_seconds"} : row'.data[c] = row.data[c]
  <2>1. change[r].outcome = "none"
    BY <1>1 DEF SettingsInv, LoadedRequest
  <2>2. Update(r)
    <3>1. ASSUME NEW q \in Changes, Load(q)
          PROVE  FALSE
      BY <1>1, <2>1, <3>1 DEF Load, SettingsInv, SettingsTypeOK
    <3>2. ASSUME NEW q \in Changes, NEW o \in Outcomes, Answered(q, o)
          PROVE  q = r /\ o = "ok"
      <4>1. /\ change'[q].outcome = o
            /\ \A p \in Changes \ {q} : change'[p] = change[p]
        BY <1>1, <3>2, FinishEffect
      <4> QED BY <1>1, <2>1, <4>1
    <3>3. ASSUME NEW q \in Changes, Read(q)
          PROVE  FALSE
      <4>1. PICK o : o = IF change[q].seen = NoConnection THEN "not_found" ELSE "ok"
        OBVIOUS
      <4>2. Answered(q, o) /\ o \in Outcomes
        BY <3>3, <4>1 DEF Read, Outcomes
      <4>3. q = r /\ o = "ok"
        BY <3>2, <4>2
      <4> QED BY <1>1, <3>3, <4>1, <4>3 DEF Read
    <3>4. ASSUME NEW q \in Changes, PutInsert(q) \/ Delete(q)
          PROVE  FALSE
      <4>1. change[q].kind # "patch"
        BY <3>4 DEF PutInsert, Delete, Loaded
      <4>2. PICK o \in Outcomes : Answered(q, o)
        BY <3>4 DEF PutInsert, Delete, Outcomes
      <4> QED BY <1>1, <3>2, <4>1, <4>2
    <3>5. ASSUME NEW q \in Changes, Update(q)
          PROVE  q = r
      <4>1. PICK o \in Outcomes : Answered(q, o)
        BY <3>5 DEF Update, Outcomes
      <4> QED BY <3>2, <4>1
    <3>6. ~ProviderContext /\ change' # change
      BY <1>1, <2>1 DEF ProviderContext
    <3> QED BY <1>1, <3>1, <3>3, <3>4, <3>5, <3>6 DEF SettingsNext, settingsVars
  <2>3. Same(r)
    <3>1. ASSUME ~Same(r) PROVE FALSE
      <4>1. Answered(r, "conflict") /\ "conflict" \in Outcomes
        BY <2>2, <3>1 DEF Update, Outcomes
      <4>2. change'[r].outcome = "conflict"
        BY <1>1, <4>1, FinishEffect
      <4> QED BY <1>1, <4>2
    <3> QED BY <3>1
  <2>4. /\ row' \in Row
        /\ \A c \in SettingColumns \ {"timeout_seconds"} : row'.data[c] = row.data[c]
    BY <1>1, <2>2, <2>3, UpdatedRow
  <2>5. row' # NoConnection
    BY <2>4, SettingAssumption
  <2> QED BY <2>4, <2>5
<1>2. SettingsInv /\ [SettingsNext]_settingsVars =>
        [\A r \in Changes :
           /\ change[r].kind = "patch" /\ change[r].pc = "loaded"
           /\ change'[r].outcome = "ok" /\ row # NoConnection
           => /\ row' # NoConnection
              /\ \A c \in SettingColumns \ {"timeout_seconds"} : row'.data[c] = row.data[c]
        ]_settingsVars
  BY <1>1
<1> QED BY <1>2, SettingsInductive, PTL DEF SettingsSpec, PatchKeepsConnection
=============================================================================
