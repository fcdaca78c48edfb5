------------------------------- MODULE Secrets ------------------------------
(***************************************************************************)
(* The secrets at rest: the encrypted rows of the settings table           *)
(* (src/admin/settings_service.py) and the webhook secret of every         *)
(* repository (src/repo/secrets.py), all encrypted with the key the        *)
(* process was started with; and the rotation of that key.  A request      *)
(* selects its rows in one step and writes and commits in another.         *)
(***************************************************************************)
EXTENDS Naturals

CONSTANTS
  Settings,   \* the sensitive settings but the encryption key itself
  Repos,
  Requests,
  MaxKey      \* bound on the keys that are generated

StoredKey == "encryption_key"
Names == Settings \cup { StoredKey }

\* What the constants are taken to be, where this module is instantiated.
SecretsAssumption ==
  StoredKey \notin Settings /\ "webhook_secret" \in Settings /\ MaxKey \in Nat \ {0}

Keys == 1..MaxKey
None == 0    \* no row

VARIABLES
  env,      \* THESTUDIO_ENCRYPTION_KEY of the process
  cipher,   \* per setting, the key its row is encrypted with
  stored,   \* the key in the plaintext of the row encryption_key
  hook,     \* per repository, the key of webhook_secret_encrypted
  request,
  made,     \* keys generated so far
  held,     \* history: the keys the process was ever started with
  meddled   \* history: somebody replaced or deleted the stored key, or rotations overlapped

vars == << env, cipher, stored, hook, request, made, held, meddled >>

Idle == [ op |-> "idle", name |-> StoredKey, rows |-> {}, key |-> None ]

TypeOK ==
  /\ env \in Keys
  /\ cipher \in [ Names -> Keys \cup {None} ]
  /\ stored \in Keys \cup {None}
  /\ hook \in [ Repos -> Keys \cup {None} ]
  /\ request \in [ Requests -> [ op : { "idle", "set", "rotate" }, name : Names,
                                 rows : SUBSET Names, key : Keys \cup {None} ] ]
  /\ made \in Keys
  /\ held \subseteq Keys
  /\ meddled \in BOOLEAN

Init ==
  /\ env = 1 /\ made = 1 /\ held = {1}
  /\ cipher = [ n \in Names |-> None ]
  /\ stored = None
  /\ hook = [ p \in Repos |-> None ]
  /\ request = [ r \in Requests |-> Idle ]
  /\ meddled = FALSE

Rows == { n \in Names : cipher[n] # None }
Unreadable == { n \in Rows : cipher[n] # env }

-----------------------------------------------------------------------------
(* update_setting, regenerate_webhook_secret, delete_setting, register *)

\* The old value is read for the audit log: one that cannot be decrypted
\* raises.  regenerate_webhook_secret does not look.
SetReads(r, n, looks) ==
  /\ request[r].op = "idle"
  /\ looks => n \notin Unreadable
  /\ request' = [ request EXCEPT ![r] = [ Idle EXCEPT !.op = "set", !.name = n, !.rows = Rows \cap {n} ] ]
  /\ UNCHANGED << env, cipher, stored, hook, made, held, meddled >>

\* UPDATE of a row that is gone, and INSERT of one that came, fail.
Applies(r) == request[r].rows \subseteq Rows

SetCommits(r) ==
  LET n == request[r].name IN
  /\ request[r].op = "set"
  /\ IF Applies(r) /\ (n \in Rows => n \in request[r].rows)
       THEN /\ cipher' = [ cipher EXCEPT ![n] = env ]
            /\ meddled' = (meddled \/ n = StoredKey)
            /\ stored' = IF n = StoredKey THEN None ELSE stored    \* some other text
       ELSE UNCHANGED << cipher, stored, meddled >>
  /\ request' = [ request EXCEPT ![r] = Idle ]
  /\ UNCHANGED << env, hook, made, held >>

Deletes(n) ==
  /\ n \in Rows
  /\ cipher' = [ cipher EXCEPT ![n] = None ]
  /\ stored' = IF n = StoredKey THEN None ELSE stored
  /\ meddled' = (meddled \/ n = StoredKey)
  /\ UNCHANGED << env, hook, request, made, held >>

Registers(p) ==
  /\ hook[p] = None
  /\ hook' = [ hook EXCEPT ![p] = env ]
  /\ UNCHANGED << env, cipher, stored, request, made, held, meddled >>

-----------------------------------------------------------------------------
(* partial_settings_secrets_rotate_key *)

\* Every encrypted row is read and decrypted; one that cannot be, ends it.
RotationReads(r) ==
  /\ request[r].op = "idle"
  /\ made < MaxKey
  /\ made' = made + 1
  /\ Unreadable = {}
  /\ request' = [ request EXCEPT ![r] = [ Idle EXCEPT !.op = "rotate", !.rows = Rows, !.key = made + 1 ] ]
  /\ meddled' = (meddled \/ \E q \in Requests \ {r} : request[q].op = "rotate")
  /\ UNCHANGED << env, cipher, stored, hook, held >>

\* Mutant: the key is stored first, and re-encrypted with the others.
StoresFirst(r) ==
  [ n \in Names |-> IF n \in request[r].rows \cup { StoredKey } THEN request[r].key ELSE cipher[n] ]

\* The rows are re-encrypted, and then set() stores the new key, under the
\* key of the process.
Rotated(r) ==
  [ n \in Names |-> IF n = StoredKey THEN env
                    ELSE IF n \in request[r].rows THEN request[r].key ELSE cipher[n] ]

RotationCommits(r) ==
  /\ request[r].op = "rotate"
  /\ IF Applies(r) THEN cipher' = Rotated(r) /\ stored' = request[r].key
                   ELSE UNCHANGED << cipher, stored >>
  /\ request' = [ request EXCEPT ![r] = Idle ]
  /\ UNCHANGED << env, hook, made, held, meddled >>

\* The operator reads the stored key and starts the process with it.
Restarts ==
  /\ stored # None /\ cipher[StoredKey] = env
  /\ env' = stored
  /\ held' = held \cup { stored }
  /\ request' = [ r \in Requests |-> Idle ]
  /\ UNCHANGED << cipher, stored, hook, made, meddled >>

Next ==
  \/ \E r \in Requests :
       \/ \E n \in Names : SetReads(r, n, TRUE)
       \/ SetReads(r, "webhook_secret", FALSE)
       \/ SetCommits(r) \/ RotationReads(r) \/ RotationCommits(r)
  \/ \E n \in Names : Deletes(n)
  \/ \E p \in Repos : Registers(p)
  \/ Restarts

Spec == Init /\ [][Next]_vars

-----------------------------------------------------------------------------
\* Rotations, changes that overlap them and restarts lose no secret: its key is
\* one the operator had, or the one he can read in the settings, unless somebody
\* overwrote or deleted that one or rotated twice at once.
Recoverable ==
  ~meddled =>
    \A n \in Rows : \/ cipher[n] \in held
                    \/ cipher[StoredKey] \in held /\ cipher[n] = stored

-----------------------------------------------------------------------------
(* The inductive invariant of the proofs *)

Rotating(r) == request[r].op = "rotate"

\* While a rotation is under way nothing needs the key of an earlier one, and
\* it is the only one: its commit replaces the stored key.
RotationOK ==
  ~meddled =>
    \A r \in Requests : Rotating(r) =>
      /\ \A n \in Rows : cipher[n] \in held
      /\ \A q \in Requests : Rotating(q) => q = r

IInv == TypeOK /\ env \in held /\ Recoverable /\ RotationOK

Request == [ op : { "idle", "set", "rotate" }, name : Names,
             rows : SUBSET Names, key : Keys \cup {None} ]

=============================================================================
