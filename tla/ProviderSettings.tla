-------------------------- MODULE ProviderSettings --------------------------
(***************************************************************************)
(* The provider connection of one member (identity/services.py): PUT       *)
(* replaces it, PATCH changes its timeout, DELETE removes it, and the      *)
(* worker reads it when it executes an operation (_provider_context).      *)
(*                                                                         *)
(* A request loads the row without a lock, changes the loaded object and   *)
(* commits.  SQLAlchemy writes only the columns whose new value differs    *)
(* from the loaded one, so requests that load the same row mix.            *)
(*                                                                         *)
(* Its names differ from those of AdminGuard, the other component of       *)
(* identity/services.py: IdentityProofs extends both.                      *)
(***************************************************************************)
EXTENDS Integers

CONSTANTS Changes, Urls, Models, Timeouts, NoConnection

\* A stored key is known by the PUT that encrypted it (each encryption draws a new
\* nonce, so ciphertexts always differ) and the URL it was sent with.
Setting == [encrypted_api_key : Changes \X Urls, base_url : Urls, model_id : Models,
            timeout_seconds : Timeouts]
Row == [id : Nat, data : Setting]
SettingColumns == {"encrypted_api_key", "base_url", "model_id", "timeout_seconds"}
Kinds == {"put", "patch", "delete", "get"}
Outcomes == {"none", "ok", "not_found", "conflict"}

ASSUME SettingAssumption ==
    /\ Timeouts # {} /\ Urls # {} /\ Models # {}
    /\ NoConnection \notin Setting /\ NoConnection \notin Row

VARIABLES row,      \* the member's row of provider_settings: its id and columns
          ids,      \* row ids given out
          change,   \* the requests, with the row as they loaded it
          call,     \* the connection the worker last called the provider with
          mixed     \* history: the PUTs committed over a URL other than the one they loaded

settingsVars == <<row, ids, change, call, mixed>>

Sent == Setting \cup [timeout_seconds : Timeouts] \cup {NoConnection}
Change == [pc : {"new", "loaded", "done"}, kind : Kinds, data : Sent,
           seen : Row \cup {NoConnection}, outcome : Outcomes]

NewChange == [pc |-> "new", kind |-> "get", data |-> NoConnection, seen |-> NoConnection,
              outcome |-> "none"]

SettingsInit ==
    /\ row = NoConnection /\ ids = 0
    /\ change = [r \in Changes |-> NewChange]
    /\ call = NoConnection /\ mixed = {}

\* What a request carries: PUT all columns, PATCH the timeout.
Carries(r, kind) ==
    CASE kind = "put" ->
           {[encrypted_api_key |-> <<r, u>>, base_url |-> u, model_id |-> m, timeout_seconds |-> t] :
              u \in Urls, m \in Models, t \in Timeouts}
      [] kind = "patch" -> [timeout_seconds : Timeouts]
      [] OTHER -> {NoConnection}

\* get_provider_setting
Load(r) ==
    /\ change[r].pc = "new"
    /\ \E k \in Kinds : \E d \in Carries(r, k) :
         change' = [change EXCEPT ![r] = [pc |-> "loaded", kind |-> k, seen |-> row, data |-> d,
                                          outcome |-> "none"]]
    /\ UNCHANGED <<row, ids, call, mixed>>

Loaded(r, kinds) == change[r].pc = "loaded" /\ change[r].kind \in kinds

\* The answer of a request.
Answered(r, outcome) ==
    change' = [change EXCEPT ![r] = [NewChange EXCEPT !.pc = "done", !.kind = change[r].kind,
                                                      !.outcome = outcome]]

\* GET, and PATCH or DELETE of a setting that is not there.
Read(r) ==
    /\ Loaded(r, {"get", "patch", "delete"})
    /\ change[r].kind # "get" => change[r].seen = NoConnection
    /\ Answered(r, IF change[r].seen = NoConnection THEN "not_found" ELSE "ok")
    /\ UNCHANGED <<row, ids, call, mixed>>

\* save_provider_setting of a new row, then commit: a row that appeared since
\* violates the unique member_id.
PutInsert(r) ==
    /\ Loaded(r, {"put"}) /\ change[r].seen = NoConnection
    /\ IF row = NoConnection
         THEN /\ row' = [id |-> ids, data |-> change[r].data]
              /\ ids' = ids + 1
              /\ Answered(r, "ok")
         ELSE /\ Answered(r, "conflict")
              /\ UNCHANGED <<row, ids>>
    /\ UNCHANGED <<call, mixed>>

\* Slip: the URL is not assigned.
AssignedWithoutUrl(r) ==
    IF change[r].kind = "put" THEN [change[r].data EXCEPT !.base_url = change[r].seen.data.base_url]
    ELSE [change[r].seen.data EXCEPT !.timeout_seconds = change[r].data.timeout_seconds]

\* What the request assigns to the loaded object.
Assigned(r) ==
    IF change[r].kind = "put" THEN change[r].data
    ELSE [change[r].seen.data EXCEPT !.timeout_seconds = change[r].data.timeout_seconds]

\* Slips: every column is written, changed or not; unchanged columns are emptied.
FlushAll(loaded, assigned, current) == assigned
FlushEmpty(loaded, assigned, current) ==
    [c \in SettingColumns |-> IF assigned[c] # loaded[c] THEN assigned[c] ELSE NoConnection]

\* The UPDATE: columns whose assigned value differs from the loaded one.
Flush(loaded, assigned, current) ==
    [c \in SettingColumns |-> IF assigned[c] # loaded[c] THEN assigned[c] ELSE current[c]]

Same(r) == row # NoConnection /\ row.id = change[r].seen.id

\* The stored URL is no longer the one the request loaded.
UrlMoved(r) == row.data.base_url # change[r].seen.data.base_url

\* PUT of a loaded row, or PATCH: UPDATE ... WHERE id.  A row that was deleted
\* meanwhile is not inserted again, the request fails.
Update(r) ==
    /\ Loaded(r, {"put", "patch"}) /\ change[r].seen # NoConnection
    /\ IF Same(r)
         THEN /\ row' = [row EXCEPT !.data =
                           Flush(change[r].seen.data, Assigned(r), row.data)]
              /\ mixed' = mixed \cup {q \in {r} : change[r].kind = "put" /\ UrlMoved(r)}
              /\ Answered(r, "ok")
         ELSE /\ Answered(r, "conflict")
              /\ UNCHANGED <<row, mixed>>
    /\ UNCHANGED <<ids, call>>

\* DELETE ... WHERE id: if the row is already gone nothing is deleted, and a row
\* that was inserted since stays.
Delete(r) ==
    /\ Loaded(r, {"delete"}) /\ change[r].seen # NoConnection
    /\ row' = IF Same(r) THEN NoConnection ELSE row
    /\ Answered(r, "ok")
    /\ UNCHANGED <<ids, call, mixed>>

\* _provider_context: one read of the row when an operation is executed.
ProviderContext ==
    /\ row # NoConnection
    /\ call' = row.data
    /\ UNCHANGED <<row, ids, change, mixed>>

SettingsNext ==
    \/ \E r \in Changes :
         Load(r) \/ Read(r) \/ PutInsert(r) \/ Update(r) \/ Delete(r)
    \/ ProviderContext

SettingsSpec == SettingsInit /\ [][SettingsNext]_settingsVars

-----------------------------------------------------------------------------
(* Properties *)

\* Every variable keeps its type.
SettingsTypeOK ==
    /\ row \in Row \cup {NoConnection}
    /\ ids \in Nat
    /\ change \in [Changes -> Change]
    /\ call \in Setting \cup {NoConnection}
    /\ mixed \subseteq Changes

\* PATCH "update only timeout_seconds" (API_CONTRACT.md:28): whatever happened
\* since it loaded the row, key, URL and model stay as they are.
PatchKeepsConnection ==
    [][\A r \in Changes :
         /\ change[r].kind = "patch" /\ change[r].pc = "loaded"
         /\ change'[r].outcome = "ok" /\ row # NoConnection
         => /\ row' # NoConnection
            /\ \A c \in SettingColumns \ {"timeout_seconds"} : row'.data[c] = row.data[c]]_settingsVars

\* The provider is called with a key and the URL it was saved with, through any
\* inserts, deletes, timeouts, failed and overlapping requests.  The one exception is
\* tight: the PUT that stored this very key was committed while the stored URL was
\* not the one it had loaded, so it left that other PUT's URL in place
\* (API_CONTRACT.md:27 says the connection is replaced).  No PATCH ever separates a
\* pair, and a PUT that meets the URL it loaded stores a pair again.
KeyGoesToItsUrl ==
    call # NoConnection /\ call.encrypted_api_key[2] # call.base_url
      => call.encrypted_api_key[1] \in mixed

-----------------------------------------------------------------------------
(* The inductive invariant of the proofs *)

\* The key of a connection is the one that was sent with its URL, or one of a PUT
\* that met another URL than it had loaded.
Matching(data) ==
    data.encrypted_api_key[2] = data.base_url \/ data.encrypted_api_key[1] \in mixed

\* A request that has loaded carries what its kind carries, has no answer, and did
\* not load its own key.
LoadedRequest(r) ==
    change[r].pc = "loaded" =>
      /\ change[r].data \in Carries(r, change[r].kind)
      /\ change[r].outcome = "none"
      /\ change[r].seen # NoConnection => change[r].seen.data.encrypted_api_key[1] # r

\* The stored key is that of a PUT that has ended.
StoredKey == row # NoConnection => change[row.data.encrypted_api_key[1]].pc = "done"

\* The stored and the used connection match.
Matched ==
    /\ row # NoConnection => Matching(row.data)
    /\ call # NoConnection => Matching(call)

SettingsInv ==
    SettingsTypeOK /\ (\A r \in Changes : LoadedRequest(r)) /\ StoredKey /\ Matched
=============================================================================
