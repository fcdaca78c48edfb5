------------------------ MODULE AdministrationProofs ------------------------
(***************************************************************************)
(* Proofs about the components of Services that keep the books of the      *)
(* administration: what is registered, held secret, checked, trusted,      *)
(* budgeted, listed and reputed, each by an inductive invariant of its own *)
(* as in DashboardProofs and TaskProofs. The last section has the types of *)
(* all components.                                                         *)
(***************************************************************************)
EXTENDS DashboardProofs, TaskProofs

(***************************************************************************)
(* Repositories: The row of the repository and the requests that change    *)
(* it.  What matters is what a request has loaded before it wrote: only an *)
(* override led it up to execute. The variables: v1 registered, v2 row, v3 *)
(* request, v4 overridden.                                                 *)
(***************************************************************************)

LEMMA RowTypes ==
  /\ Repository!NewRow \in Repository!Rows
  /\ Repository!Idle
       \in [ op : Repository!Operations, at : { "idle", "again", "write" },
             wanted : Repository!Rows, loaded : Repository!Rows ]
  /\ Repository!Idle.at = "idle"
  /\ Repository!NewRow.tier # "execute" /\ ~Repository!NewRow.deleted
  BY DEF Repository!NewRow, Repository!Idle, Repository!Rows, Repository!Operations,
         Repository!Tiers

LEMMA RepositoryInvInit == Repository!Init => Repository!IInv
  BY RowTypes
  DEF Repository!Init, Repository!IInv, Repository!TypeOK, Repository!RowOK, Repository!RequestOK,
      Repository!Changing, Repository!ExecuteIsGated

\* The compliance gate lets nobody through: of what the checker needs to know
\* of GitHub it is told that there is nothing.
LEMMA PromotionsStop ==
  ASSUME NEW from \in Repository!Tiers, NEW to \in Repository!Tiers, Repository!Eligible(from, to)
  PROVE  to # "execute"
  BY DEF Repository!Eligible, Repository!Fails, Repository!NoRulesets, Repository!NoFacts

LEMMA DemotionsDescend ==
  ASSUME NEW from \in Repository!Tiers, NEW to \in Repository!Tiers,
         Repository!Demotable(from, to)
  PROVE  to # "execute"
  BY DEF Repository!Demotable, Repository!ValidDemotions, Repository!Tiers

-----------------------------------------------------------------------------
(* Requests that ask *)

\* A request that asks for a row no higher than the one it loaded, or for an
\* override, keeps the invariant.
LEMMA AskStep ==
  ASSUME Repository!IInv, NEW r \in Requests, NEW op \in Repository!Operations,
         NEW at \in { "again", "write" },
         NEW wanted \in Repository!Rows, Repository!Asks(r, op, at, wanted),
         wanted.tier = "execute" => v2.tier = "execute" \/ op = "override"
  PROVE  Repository!IInv'
<1> DEFINE asked == [ op |-> op, at |-> at, wanted |-> wanted, loaded |-> v2 ]
<1>1. asked
        \in [ op : Repository!Operations, at : { "idle", "again", "write" },
              wanted : Repository!Rows, loaded : Repository!Rows ]
  BY DEF Repository!IInv, Repository!TypeOK
<1>2. v3' = [ v3 EXCEPT ![r] = asked ]
  BY DEF Repository!Asks
<1> HIDE DEF asked
<1>3. Repository!TypeOK'
  BY <1>1, <1>2 DEF Repository!IInv, Repository!TypeOK, Repository!Asks
<1>4. Repository!RequestOK'
  <2> SUFFICES ASSUME NEW q \in Requests, Repository!Changing(q)'
               PROVE  /\ v1'
                      /\ ~(v3[q].loaded.deleted)'
                      /\ (v3[q].wanted.tier)' = "execute"
                           => (v3[q].loaded.tier)' = "execute" \/ (v3[q].op)' = "override"
    BY DEF Repository!RequestOK
  <2>1. CASE q = r
    <3>1. v3'[q] = asked
      BY <1>2, <2>1 DEF Repository!IInv, Repository!TypeOK
    <3> QED
      BY <3>1 DEF asked, Repository!Asks, Repository!Visible
  <2>2. CASE q # r
    BY <1>2, <2>2
    DEF Repository!IInv, Repository!RequestOK, Repository!Changing, Repository!TypeOK,
        Repository!Asks
  <2> QED
    BY <2>1, <2>2
<1>5. Repository!RowOK' /\ Repository!ExecuteIsGated'
  BY DEF Repository!IInv, Repository!RowOK, Repository!ExecuteIsGated, Repository!Asks
<1> QED
  BY <1>3, <1>4, <1>5 DEF Repository!IInv

\* The three ways to a tier.
LEMMA TierStep ==
  ASSUME Repository!IInv, NEW r \in Requests, NEW tier \in Repository!Tiers,
         Repository!Promote(r, tier) \/ Repository!Demote(r, tier)
           \/ Repository!ChangeTier(r, tier)
  PROVE  Repository!IInv'
<1> DEFINE wanted == [ v2 EXCEPT !.tier = tier ]
<1>1. wanted \in Repository!Rows /\ wanted.tier = tier /\ v2.tier \in Repository!Tiers
  BY DEF Repository!IInv, Repository!TypeOK, Repository!Rows
<1>2. "promote" \in Repository!Operations /\ "demote" \in Repository!Operations
        /\ "override" \in Repository!Operations
  BY DEF Repository!Operations
<1>3. CASE Repository!Promote(r, tier)
  <2>1. Repository!Asks(r, "promote", "again", wanted)
    BY <1>3 DEF Repository!Promote, Repository!SetTier
  <2>2. tier # "execute"
    BY <1>1, <1>3, PromotionsStop DEF Repository!Promote
  <2> HIDE DEF wanted
  <2> QED
    BY <1>1, <1>2, <2>1, <2>2, AskStep
<1>4. CASE Repository!Demote(r, tier)
  <2>1. Repository!Asks(r, "demote", "again", wanted)
    BY <1>4 DEF Repository!Demote, Repository!SetTier
  <2>2. tier # "execute"
    BY <1>1, <1>4, DemotionsDescend DEF Repository!Demote
  <2> HIDE DEF wanted
  <2> QED
    BY <1>1, <1>2, <2>1, <2>2, AskStep
<1>5. CASE Repository!ChangeTier(r, tier)
  <2>1. Repository!Asks(r, "override", "again", wanted)
    BY <1>5 DEF Repository!ChangeTier, Repository!SetTier
  <2> HIDE DEF wanted
  <2> QED
    BY <1>1, <1>2, <2>1, AskStep
<1> QED
  BY <1>3, <1>4, <1>5

\* The changes that leave the tier as it was loaded.
LEMMA ChangeStep ==
  ASSUME Repository!IInv, NEW r \in Requests,
         Repository!Pause(r) \/ Repository!Resume(r) \/ Repository!Delete(r)
           \/ Repository!UpdateProfile(r) \/ Repository!ToggleWrites(r)
  PROVE  Repository!IInv'
<1>1. ASSUME NEW wanted \in Repository!Rows, wanted.tier = v2.tier, Repository!Change(r, wanted)
      PROVE  Repository!IInv'
  BY <1>1, AskStep DEF Repository!Change, Repository!Operations
<1>2. v2 \in Repository!Rows
  BY DEF Repository!IInv, Repository!TypeOK
<1>3. CASE Repository!Pause(r)
  BY <1>1, <1>2, <1>3 DEF Repository!Pause, Repository!Rows
<1>4. CASE Repository!Resume(r)
  BY <1>1, <1>2, <1>4 DEF Repository!Resume, Repository!Rows
<1>5. CASE Repository!Delete(r)
  BY <1>1, <1>2, <1>5 DEF Repository!Delete, Repository!Rows
<1>6. CASE Repository!UpdateProfile(r)
  BY <1>1, <1>2, <1>6 DEF Repository!UpdateProfile, Repository!Rows
<1>7. CASE Repository!ToggleWrites(r)
  BY <1>1, <1>2, <1>7 DEF Repository!ToggleWrites, Repository!Rows
<1> QED
  BY <1>3, <1>4, <1>5, <1>6, <1>7

LEMMA AsksToRegisterStep ==
  ASSUME Repository!IInv, NEW r \in Requests, Repository!AsksToRegister(r) PROVE Repository!IInv'
<1> DEFINE asked == [ v3[r] EXCEPT !.op = "register", !.at = "write" ]
<1>1. asked
        \in [ op : Repository!Operations, at : { "idle", "again", "write" },
              wanted : Repository!Rows, loaded : Repository!Rows ]
      /\ asked.op = "register"
  BY DEF Repository!IInv, Repository!TypeOK, Repository!Operations
<1>2. v3' = [ v3 EXCEPT ![r] = asked ]
  BY DEF Repository!AsksToRegister
<1> HIDE DEF asked
<1>3. Repository!TypeOK'
  BY <1>1, <1>2 DEF Repository!IInv, Repository!TypeOK, Repository!AsksToRegister
<1>4. Repository!RequestOK'
  BY <1>1, <1>2
  DEF Repository!IInv, Repository!TypeOK, Repository!RequestOK, Repository!Changing,
      Repository!AsksToRegister
<1> QED
  BY <1>3, <1>4
  DEF Repository!IInv, Repository!RowOK, Repository!ExecuteIsGated, Repository!AsksToRegister

-----------------------------------------------------------------------------
(* Requests that go on *)

\* A request that is over or goes on with what it has.
LEMMA LoadsAgainStep ==
  ASSUME Repository!IInv, NEW r \in Requests, Repository!LoadsAgain(r)
  PROVE  Repository!IInv'
<1> DEFINE asked == IF Repository!Visible THEN [ v3[r] EXCEPT !.at = "write" ] ELSE Repository!Idle
<1>1. /\ asked
           \in [ op : Repository!Operations, at : { "idle", "again", "write" },
                 wanted : Repository!Rows, loaded : Repository!Rows ]
      /\ asked.at # "idle" => /\ asked.op = v3[r].op
                              /\ asked.loaded = v3[r].loaded
                              /\ asked.wanted = v3[r].wanted
  BY RowTypes DEF Repository!IInv, Repository!TypeOK
<1>2. /\ v3' = [ v3 EXCEPT ![r] = asked ] /\ v3[r].at # "idle"
      /\ UNCHANGED << v1, v2, v4 >>
  BY DEF Repository!LoadsAgain
<1> HIDE DEF asked
<1>3. Repository!TypeOK'
  BY <1>1, <1>2 DEF Repository!IInv, Repository!TypeOK
<1>4. Repository!RequestOK'
  <2>1. ASSUME NEW q \in Requests, q # r PROVE v3'[q] = v3[q]
    BY <1>2, <2>1 DEF Repository!IInv, Repository!TypeOK
  <2>2. v3'[r] = asked
    BY <1>2 DEF Repository!IInv, Repository!TypeOK
  <2> QED
    BY <1>1, <1>2, <2>1, <2>2 DEF Repository!IInv, Repository!RequestOK, Repository!Changing
<1> QED
  BY <1>2, <1>3, <1>4 DEF Repository!IInv, Repository!RowOK, Repository!ExecuteIsGated

LEMMA RepositoryRegistersStep ==
  ASSUME Repository!IInv, NEW r \in Requests, Repository!Registers(r)
  PROVE  Repository!IInv'
<1>1. Repository!TypeOK'
  BY RowTypes DEF Repository!IInv, Repository!TypeOK, Repository!Registers
<1>2. Repository!RequestOK'
  BY RowTypes
  DEF Repository!IInv, Repository!TypeOK, Repository!RequestOK, Repository!Changing,
      Repository!Registers
<1> QED
  BY <1>1, <1>2, RowTypes
  DEF Repository!IInv, Repository!RowOK, Repository!ExecuteIsGated, Repository!Registers

\* The columns of the row a request writes.
LEMMA Written ==
  ASSUME Repository!IInv, NEW r \in Requests, Repository!Writes(r)
  PROVE  /\ v2' \in Repository!Rows
         /\ v1
         /\ v2.deleted => v2'.deleted
         /\ v2'.tier = "execute" => v2.tier = "execute" \/ v4'
<1> DEFINE asked == v3[r]
<1>1. asked.wanted \in Repository!Rows /\ asked.loaded \in Repository!Rows
        /\ v2 \in Repository!Rows
  BY DEF Repository!IInv, Repository!TypeOK
<1>2. v2'
        = [ c \in DOMAIN v2 |-> IF asked.wanted[c] # asked.loaded[c] THEN asked.wanted[c] ELSE v2[c] ]
  BY DEF Repository!Writes
<1>3. DOMAIN v2 = { "tier", "status", "deleted", "polled", "writes" }
  BY <1>1 DEF Repository!Rows
<1>4. v1 /\ ~asked.loaded.deleted
      /\ (asked.wanted.tier = "execute" => asked.loaded.tier = "execute" \/ asked.op = "override")
  BY DEF Repository!IInv, Repository!RequestOK, Repository!Changing, Repository!Writes
<1>5. v4' = (v4 \/ (asked.op = "override" /\ asked.wanted.tier = "execute"))
  BY DEF Repository!Writes
<1> HIDE DEF asked
<1>6. v2' \in Repository!Rows
  BY <1>1, <1>2, <1>3 DEF Repository!Rows
<1>7. v2.deleted => v2'.deleted
  BY <1>1, <1>2, <1>3, <1>4 DEF Repository!Rows
<1>8. v2'.tier = "execute" => v2.tier = "execute" \/ v4'
  BY <1>1, <1>2, <1>3, <1>4, <1>5 DEF Repository!Rows
<1> QED
  BY <1>4, <1>6, <1>7, <1>8

LEMMA RepositoryWritesStep ==
  ASSUME Repository!IInv, NEW r \in Requests, Repository!Writes(r)
  PROVE  Repository!IInv'
<1>1. v4' \in BOOLEAN /\ (v4 => v4')
  BY DEF Repository!IInv, Repository!TypeOK, Repository!Writes
<1>2. v3' = [ v3 EXCEPT ![r] = Repository!Idle ] /\ v1' = v1
  BY DEF Repository!Writes
<1>3. Repository!TypeOK'
  BY <1>1, <1>2, RowTypes, Written DEF Repository!IInv, Repository!TypeOK
<1>4. Repository!RequestOK'
  BY <1>2, RowTypes
  DEF Repository!IInv, Repository!TypeOK, Repository!RequestOK, Repository!Changing
<1>5. Repository!RowOK'
  BY <1>2, Written DEF Repository!RowOK
<1>6. Repository!ExecuteIsGated'
  BY <1>1, Written DEF Repository!IInv, Repository!ExecuteIsGated
<1> QED
  BY <1>3, <1>4, <1>5, <1>6 DEF Repository!IInv

-----------------------------------------------------------------------------
LEMMA RepositoryInvNext ==
  ASSUME Repository!IInv, [Repository!Next]_Repository!vars
  PROVE  Repository!IInv'
<1>1. CASE UNCHANGED Repository!vars
  BY <1>1
  DEF Repository!vars, Repository!IInv, Repository!TypeOK, Repository!RowOK, Repository!RequestOK,
      Repository!Changing, Repository!ExecuteIsGated
<1>2. CASE Repository!Next
  BY <1>2, AsksToRegisterStep, RepositoryRegistersStep, TierStep, ChangeStep, LoadsAgainStep,
     RepositoryWritesStep
     DEF Repository!Next
<1> QED
  BY <1>1, <1>2

\* What was loaded before a deletion and is committed after it sends other columns.
LEMMA DeletionStep ==
  ASSUME Repository!IInv, [Repository!Next]_Repository!vars
  PROVE  Repository!StaysDeleted
<1>1. CASE \E r \in Requests : Repository!Writes(r)
  BY <1>1, Written DEF Repository!StaysDeleted
<1>2. CASE \E r \in Requests : Repository!Registers(r)
  BY <1>2, RowTypes
  DEF Repository!IInv, Repository!RowOK, Repository!Registers, Repository!StaysDeleted
<1>3. CASE v2' = v2
  BY <1>3 DEF Repository!StaysDeleted
<1> QED
  BY <1>1, <1>2, <1>3
  DEF Repository!Next, Repository!vars, Repository!AsksToRegister, Repository!Promote,
      Repository!Demote, Repository!ChangeTier,
     Repository!SetTier, Repository!Pause, Repository!Resume, Repository!Delete,
     Repository!UpdateProfile, Repository!ToggleWrites, Repository!Change, Repository!Asks,
     Repository!LoadsAgain

LEMMA RepositorySteps ==
  ASSUME focus = "repository", [Next]_v
  PROVE  focus' = "repository" /\ [Repository!Next]_Repository!vars
  BY DEF Next, v, Repository!vars, Kept4

LEMMA RepositoryInvariant == Spec => [](focus = "repository" => Repository!IInv)
<1> DEFINE Inv == focus = "repository" => Repository!IInv
<1>1. Init => Inv
  BY RepositoryInvInit DEF Init
<1>2. Inv /\ [Next]_v => Inv'
  BY RepositoryInvNext, RepositorySteps, FocusStays
<1> QED
  BY <1>1, <1>2, PTL DEF Spec

\* src/compliance: a repository is at execute only if an administrator put it there,
\* however many promotions, demotions and overrides overlap.
THEOREM ExecuteTakesAnOverride == Spec => []ExecuteIsGated
<1>1. (focus = "repository" => Repository!IInv) => ExecuteIsGated
  BY DEF ExecuteIsGated, Repository!IInv
<1> QED
  BY <1>1, RepositoryInvariant, PTL

\* src/repo/repository.py: a deletion is final, whatever requests loaded the row before it.
THEOREM DeletionStays == Spec => DeletionIsFinal
<1>1. (focus = "repository" => Repository!IInv) /\ [Next]_v
        => [ focus = "repository" => Repository!StaysDeleted ]_v
  BY DeletionStep, RepositorySteps
<1> QED
  BY <1>1, RepositoryInvariant, PTL DEF Spec, DeletionIsFinal

(***************************************************************************)
(* Secrets: The stored secrets and the rotation of their key.  While one   *)
(* is under way nothing needs an earlier key, and it is the only one. The  *)
(* variables: v1 env, v2 cipher, v3 stored, v4 hook, v5 request, v6 made,  *)
(* v7 held, v8 meddled.                                                    *)
(***************************************************************************)

LEMMA IdleTypes == Setting!Idle \in Setting!Request /\ Setting!Idle.op = "idle"
  BY DEF Setting!Idle, Setting!Request, Setting!Names

LEMMA SettingInvInit == ASSUME Setting!SecretsAssumption, Setting!Init PROVE Setting!IInv
<1>1. Setting!TypeOK
  <2>1. 1 \in Setting!Keys
    BY DEF Setting!SecretsAssumption, Setting!Keys
  <2>2. v5 \in [ Requests -> Setting!Request ]
    BY IdleTypes DEF Setting!Init
  <2> QED
    BY <2>1, <2>2 DEF Setting!Init, Setting!TypeOK, Setting!Request
<1>2. Setting!Rows = {}
  BY DEF Setting!Init, Setting!Rows
<1> QED
  BY <1>1, <1>2, IdleTypes
  DEF Setting!Init, Setting!IInv, Setting!Recoverable, Setting!RotationOK, Setting!Rotating

-----------------------------------------------------------------------------
(* Requests on one setting *)

\* A request that starts or ends and leaves the rows alone.
LEMMA SettingRequestStep ==
  ASSUME Setting!IInv, NEW r \in Requests, NEW what \in Setting!Request, what.op # "rotate",
         v5' = [ v5 EXCEPT ![r] = what ],
         UNCHANGED << v1, v2, v3, v4, v6, v7, v8 >>
  PROVE  Setting!IInv'
<1>1. Setting!TypeOK'
  BY DEF Setting!IInv, Setting!TypeOK, Setting!Request
<1>2. \A q \in Requests : Setting!Rotating(q)' => Setting!Rotating(q)
  BY DEF Setting!IInv, Setting!TypeOK, Setting!Rotating
<1>3. Setting!RotationOK' /\ Setting!Recoverable'
  BY <1>2 DEF Setting!IInv, Setting!RotationOK, Setting!Recoverable, Setting!Rows
<1> QED
  BY <1>1, <1>3 DEF Setting!IInv

LEMMA SetReadsStep ==
  ASSUME Setting!IInv, NEW r \in Requests, NEW n \in Setting!Names, NEW looks \in BOOLEAN,
         Setting!SetReads(r, n, looks)
  PROVE  Setting!IInv'
<1> DEFINE what == [ Setting!Idle EXCEPT !.op = "set", !.name = n, !.rows = Setting!Rows \cap {n} ]
<1>1. what \in Setting!Request /\ what.op # "rotate"
  BY DEF Setting!Idle, Setting!Request
<1>2. v5' = [ v5 EXCEPT ![r] = what ]
  BY DEF Setting!SetReads
<1>3. UNCHANGED << v1, v2, v3, v4, v6, v7, v8 >>
  BY DEF Setting!SetReads
<1> HIDE DEF what
<1> QED
  BY <1>1, <1>2, <1>3, SettingRequestStep

\* One setting is encrypted with the key of the process or deleted; the key in
\* the settings is touched by those who meddle.
LEMMA OneRowStep ==
  ASSUME Setting!SecretsAssumption, Setting!IInv, NEW n \in Setting!Names,
         NEW key \in { v1, Setting!None },
         v2' = [ v2 EXCEPT ![n] = key ],
         v8' = (v8 \/ n = Setting!StoredKey),
         v3' = IF n = Setting!StoredKey THEN Setting!None ELSE v3,
         v5' \in [ Requests -> Setting!Request ],
         \A q \in Requests : Setting!Rotating(q)' => Setting!Rotating(q),
         UNCHANGED << v1, v4, v6, v7 >>
  PROVE  Setting!IInv'
<1>1. Setting!TypeOK'
  BY DEF Setting!SecretsAssumption, Setting!IInv, Setting!TypeOK, Setting!Request, Setting!Keys,
         Setting!None
<1>2. ASSUME ~v8'
      PROVE  /\ v2'[Setting!StoredKey] = v2[Setting!StoredKey] /\ v3' = v3
             /\ \A m \in Setting!Rows' : v2'[m] = v1 \/ (m \in Setting!Rows /\ v2'[m] = v2[m])
  <2>1. ~v8 /\ n # Setting!StoredKey
    BY <1>2 DEF Setting!IInv, Setting!TypeOK
  <2>2. /\ v2'[n] = key
        /\ \A m \in Setting!Names : m # n => v2'[m] = v2[m]
    BY DEF Setting!IInv, Setting!TypeOK
  <2>3. ASSUME NEW m \in Setting!Rows'
        PROVE  v2'[m] = v1 \/ (m \in Setting!Rows /\ v2'[m] = v2[m])
    BY <2>2, <2>3 DEF Setting!Rows
  <2> QED
    BY <2>1, <2>2, <2>3 DEF Setting!Names
<1>3. Setting!Recoverable'
  <2> SUFFICES ASSUME ~v8', NEW m \in Setting!Rows'
               PROVE  v2'[m] \in v7 \/ (v2'[Setting!StoredKey] \in v7 /\ v2'[m] = v3')
    BY DEF Setting!Recoverable
  <2>1. ~v8 /\ v7' = v7 /\ v1 \in v7
    BY DEF Setting!IInv, Setting!TypeOK
  <2>2. CASE v2'[m] = v1
    BY <2>1, <2>2
  <2>3. CASE m \in Setting!Rows /\ v2'[m] = v2[m]
    <3>1. v2[m] \in v7 \/ (v2[Setting!StoredKey] \in v7 /\ v2[m] = v3)
      BY <2>1, <2>3 DEF Setting!IInv, Setting!Recoverable
    <3> QED
      BY <1>2, <2>1, <2>3, <3>1
  <2> QED
    BY <1>2, <2>2, <2>3
<1>4. Setting!RotationOK'
  <2> SUFFICES ASSUME ~v8', NEW r \in Requests, Setting!Rotating(r)'
               PROVE  /\ \A m \in Setting!Rows' : v2'[m] \in v7
                      /\ \A q \in Requests : Setting!Rotating(q)' => q = r
    BY DEF Setting!RotationOK
  <2> QED
    BY <1>2 DEF Setting!IInv, Setting!RotationOK
<1> QED
  BY <1>1, <1>3, <1>4 DEF Setting!IInv

LEMMA SetCommitsStep ==
  ASSUME Setting!SecretsAssumption, Setting!IInv, NEW r \in Requests,
         Setting!SetCommits(r) PROVE Setting!IInv'
<1> DEFINE n == v5[r].name
<1>1. n \in Setting!Names
  BY DEF Setting!IInv, Setting!TypeOK
<1>2. /\ v5' = [ v5 EXCEPT ![r] = Setting!Idle ]
      /\ UNCHANGED << v1, v4, v6, v7 >>
  BY DEF Setting!SetCommits
<1>3. v5' \in [ Requests -> Setting!Request ] /\ \A q \in Requests : Setting!Rotating(q)'
        => Setting!Rotating(q)
  BY <1>2, IdleTypes DEF Setting!IInv, Setting!TypeOK, Setting!Request, Setting!Rotating
<1>4. \/ /\ v2' = [ v2 EXCEPT ![n] = v1 ]
         /\ v8' = (v8 \/ n = Setting!StoredKey)
         /\ v3' = IF n = Setting!StoredKey THEN Setting!None ELSE v3
      \/ UNCHANGED << v2, v3, v8 >>
  BY DEF Setting!SetCommits
<1> HIDE DEF n
<1>5. CASE UNCHANGED << v2, v3, v8 >>
  BY <1>2, <1>5, IdleTypes, SettingRequestStep
<1>6. CASE ~UNCHANGED << v2, v3, v8 >>
  BY <1>1, <1>2, <1>3, <1>4, <1>6, OneRowStep
<1> QED
  BY <1>5, <1>6

LEMMA DeletesStep ==
  ASSUME Setting!SecretsAssumption, Setting!IInv, NEW n \in Setting!Names, Setting!Deletes(n)
  PROVE  Setting!IInv'
<1>1. v5' \in [ Requests -> Setting!Request ] /\ \A q \in Requests : Setting!Rotating(q)'
        => Setting!Rotating(q)
  BY DEF Setting!Deletes, Setting!IInv, Setting!TypeOK, Setting!Request, Setting!Rotating
<1> QED
  BY <1>1, OneRowStep DEF Setting!Deletes

LEMMA SettingRegistersStep ==
  ASSUME Setting!IInv, NEW p \in HookedRepos, Setting!Registers(p)
  PROVE  Setting!IInv'
  BY DEF Setting!Registers, Setting!IInv, Setting!TypeOK, Setting!Recoverable, Setting!RotationOK,
         Setting!Rotating, Setting!Rows

-----------------------------------------------------------------------------
(* The rotation and the restart *)

\* It starts only if the process can read every row.
LEMMA RotationReadsStep ==
  ASSUME Setting!SecretsAssumption, Setting!IInv, NEW r \in Requests,
         Setting!RotationReads(r) PROVE Setting!IInv'
<1> DEFINE what == [ Setting!Idle EXCEPT !.op = "rotate", !.rows = Setting!Rows, !.key = v6 + 1 ]
<1>1. v6 + 1 \in Setting!Keys
  BY DEF Setting!SecretsAssumption, Setting!IInv, Setting!TypeOK, Setting!RotationReads,
         Setting!Keys
<1>2. what \in Setting!Request
  BY <1>1 DEF Setting!Idle, Setting!Request, Setting!Rows, Setting!Names
<1>3. /\ v5' = [ v5 EXCEPT ![r] = what ] /\ v5[r].op = "idle"
      /\ v6' = v6 + 1
      /\ v8' = (v8 \/ \E q \in Requests \ {r} : v5[q].op = "rotate")
      /\ UNCHANGED << v1, v2, v3, v4, v7 >>
  BY DEF Setting!RotationReads
<1>4. \A n \in Setting!Rows : v2[n] = v1
  BY DEF Setting!RotationReads, Setting!Unreadable
<1> HIDE DEF what
<1>5. Setting!TypeOK'
  BY <1>1, <1>2, <1>3 DEF Setting!IInv, Setting!TypeOK, Setting!Request
<1>6. Setting!Recoverable'
  BY <1>3 DEF Setting!IInv, Setting!Recoverable, Setting!Rows
<1>7. Setting!RotationOK'
  <2>1. Setting!Rows' = Setting!Rows
    BY <1>3 DEF Setting!Rows
  <2>2. ~v8' => \A q \in Requests : Setting!Rotating(q)' => q = r
    BY <1>3 DEF Setting!IInv, Setting!TypeOK, Setting!Rotating
  <2> QED
    BY <1>3, <1>4, <2>1, <2>2 DEF Setting!IInv, Setting!RotationOK
<1> QED
  BY <1>3, <1>5, <1>6, <1>7 DEF Setting!IInv

\* The rows it has read have the new key, which the settings now hold; the
\* others have a key the operator had.
LEMMA RotationCommitsStep ==
  ASSUME Setting!SecretsAssumption, Setting!IInv, NEW r \in Requests,
         Setting!RotationCommits(r) PROVE Setting!IInv'
<1>1. /\ Setting!Rotating(r) /\ v5' = [ v5 EXCEPT ![r] = Setting!Idle ]
      /\ UNCHANGED << v1, v4, v6, v7, v8 >>
  BY DEF Setting!RotationCommits, Setting!Rotating
<1>2. \/ v2' = Setting!Rotated(r) /\ v3' = v5[r].key
      \/ UNCHANGED << v2, v3 >>
  BY DEF Setting!RotationCommits
<1>3. CASE UNCHANGED << v2, v3 >>
  BY <1>1, <1>3, IdleTypes, SettingRequestStep
<1>4. CASE v2' = Setting!Rotated(r) /\ v3' = v5[r].key
  <2>1. v5[r].key \in Setting!Keys \cup {Setting!None}
    BY DEF Setting!IInv, Setting!TypeOK
  <2>2. v2' \in [ Setting!Names -> Setting!Keys \cup {Setting!None} ]
    BY <1>4, <2>1 DEF Setting!Rotated, Setting!IInv, Setting!TypeOK
  <2>3. Setting!TypeOK'
    BY <1>1, <1>4, <2>1, <2>2, IdleTypes DEF Setting!IInv, Setting!TypeOK, Setting!Request
  <2>4. ~v8 => \A q \in Requests : ~Setting!Rotating(q)'
    BY <1>1, IdleTypes DEF Setting!IInv, Setting!TypeOK, Setting!RotationOK, Setting!Rotating
  <2>5. Setting!RotationOK'
    BY <1>1, <2>4 DEF Setting!RotationOK
  <2>6. v2'[Setting!StoredKey] = v1
    BY <1>4 DEF Setting!Rotated, Setting!Names
  <2>7. ASSUME ~v8, NEW n \in Setting!Rows'
        PROVE  v2'[n] \in v7 \/ v2'[n] = v3'
    <3>1. n \in Setting!Names /\ v2'[n] # Setting!None
      BY DEF Setting!Rows
    <3>2. CASE n = Setting!StoredKey
      BY <2>6, <3>2 DEF Setting!IInv
    <3>3. CASE n # Setting!StoredKey /\ n \in v5[r].rows
      BY <1>4, <3>1, <3>3 DEF Setting!Rotated
    <3>4. CASE n # Setting!StoredKey /\ n \notin v5[r].rows
      <4>1. v2'[n] = v2[n]
        BY <1>4, <3>1, <3>4 DEF Setting!Rotated
      <4> QED
        BY <1>1, <2>7, <3>1, <4>1 DEF Setting!IInv, Setting!RotationOK, Setting!Rows
    <3> QED
      BY <3>2, <3>3, <3>4
  <2>8. Setting!Recoverable'
    BY <1>1, <2>6, <2>7 DEF Setting!Recoverable, Setting!IInv
  <2> QED
    BY <1>1, <2>3, <2>5, <2>8 DEF Setting!IInv
<1> QED
  BY <1>2, <1>3, <1>4

LEMMA SettingRestartsStep == ASSUME Setting!IInv, Setting!Restarts PROVE Setting!IInv'
<1>1. /\ v3 \in Setting!Keys /\ v1' = v3 /\ v7' = v7 \cup {v3}
      /\ v5' = [ r \in Requests |-> Setting!Idle ]
      /\ UNCHANGED << v2, v3, v4, v6, v8 >>
  BY DEF Setting!Restarts, Setting!IInv, Setting!TypeOK
<1>2. Setting!TypeOK'
  BY <1>1, IdleTypes DEF Setting!IInv, Setting!TypeOK, Setting!Request
<1>3. Setting!RotationOK'
  BY <1>1, IdleTypes DEF Setting!RotationOK, Setting!Rotating
<1>4. Setting!Recoverable'
  BY <1>1 DEF Setting!IInv, Setting!Recoverable, Setting!Rows
<1> QED
  BY <1>1, <1>2, <1>3, <1>4 DEF Setting!IInv

-----------------------------------------------------------------------------
LEMMA SettingInvNext ==
  ASSUME Setting!SecretsAssumption, Setting!IInv, [Setting!Next]_Setting!vars
  PROVE  Setting!IInv'
<1>1. CASE UNCHANGED Setting!vars
  BY <1>1
  DEF Setting!vars, Setting!IInv, Setting!TypeOK, Setting!Recoverable, Setting!RotationOK,
      Setting!Rotating, Setting!Rows
<1>2. CASE \E r \in Requests : \/ \E n \in Setting!Names : Setting!SetReads(r, n, TRUE)
                               \/ Setting!SetReads(r, "webhook_secret", FALSE)
  BY <1>2, SetReadsStep DEF Setting!SecretsAssumption, Setting!Names
<1>3. CASE \E r \in Requests :
             Setting!SetCommits(r) \/ Setting!RotationReads(r) \/ Setting!RotationCommits(r)
  BY <1>3, SetCommitsStep, RotationReadsStep, RotationCommitsStep
<1>4. CASE \/ \E n \in Setting!Names : Setting!Deletes(n)
           \/ \E p \in HookedRepos : Setting!Registers(p)
           \/ Setting!Restarts
  BY <1>4, DeletesStep, SettingRegistersStep, SettingRestartsStep
<1> QED
  BY <1>1, <1>2, <1>3, <1>4 DEF Setting!Next

LEMMA SettingSteps ==
  ASSUME focus = "setting", [Next]_v
  PROVE  focus' = "setting" /\ [Setting!Next]_Setting!vars
  BY DEF Next, v, Setting!vars, Kept8

LEMMA SettingInvariant == Spec => [](focus = "setting" => Setting!IInv)
<1> DEFINE Inv == focus = "setting" => Setting!IInv
<1>1. Init => Inv
  BY SettingAssumption, SettingInvInit DEF Init
<1>2. Inv /\ [Next]_v => Inv'
  BY SettingAssumption, SettingInvNext, SettingSteps, FocusStays
<1> QED
  BY <1>1, <1>2, PTL DEF Spec

\* src/admin/settings_service.py: no rotation, no change that overlaps it and no restart
\* makes a setting unreadable, unless somebody meddled with the stored key.
THEOREM SecretsSurvive == Spec => []Recoverable
<1>1. (focus = "setting" => Setting!IInv) => Recoverable
  BY DEF Recoverable, Setting!IInv
<1> QED
  BY <1>1, SettingInvariant, PTL

(***************************************************************************)
(* Compliance: The one checker that all requests share.  That a list is    *)
(* whole and of one repository needs that its list before the first await  *)
(* is, and that one check is at work. The variables: v1 facts, v2          *)
(* workspaces, v3 tools, v4 results, v5 request, v6 verdict, v7 blocked,   *)
(* v8 troubles.                                                            *)
(***************************************************************************)

Checks == Complied!FactChecks \cup Complied!LiveChecks
CompliedEntry == {Complied!Idle} \cup [ at : { "loaded", "checking" }, repo : Repos,
                       op : { "compliance", "eligibility" } ]
CompliedVerdicts == [ at : {"answered"}, repo : Repos, results : Seq(Complied!Results), passed : BOOLEAN ]

\* The order of all the checks, and what their results say when they are of one
\* repository.
Order == << "rulesets", "reviewers", "protection", "labels",
            "projects", "plane", "idempotency", "credentials", "policy" >>
IsWhole(list, repo) ==
  /\ list \in Seq(Complied!Results) /\ Len(list) = 9
  /\ \A i \in 1..9 :
       /\ list[i].check = Order[i] /\ list[i].of = repo
       /\ Order[i] \in Complied!FactChecks => (list[i].passed <=> Order[i] \in v1[repo])

\* What VerdictIsOwn says of the verdict of one request.
IsOwn(given) ==
  given.at = "answered" =>
    /\ { given.results[i].check : i \in DOMAIN given.results } = Checks
    /\ Len(given.results) = Len(Complied!First) + Len(Complied!Then)
    /\ \A i \in DOMAIN given.results : given.results[i].of = given.repo
    /\ given.passed => v1[given.repo] = Complied!FactChecks
NamesAll(repo) == v7[repo] # {} => Complied!FactChecks \ v1[repo] \subseteq v7[repo]

LEMMA OwnParts ==
  Complied!VerdictIsOwn
    <=> (\A r \in Requests : IsOwn(v6[r])) /\ \A repo \in Repos : NamesAll(repo)
  BY DEF Complied!VerdictIsOwn, IsOwn, NamesAll, Checks

LEMMA CompliedInvInit == ASSUME Complied!ComplianceAssumption, Complied!Init PROVE Complied!IInv
<1>1. Complied!TypeOK
  BY DEF Complied!Init, Complied!TypeOK, Complied!ComplianceAssumption
<1>2. Complied!OneAtWork /\ Complied!HalfDone
  BY DEF Complied!Init, Complied!OneAtWork, Complied!HalfDone, Complied!AtWork, Complied!Idle
<1>3. Complied!VerdictIsOwn
  BY DEF Complied!Init, Complied!VerdictIsOwn, Complied!Unanswered
<1> QED
  BY <1>1, <1>2, <1>3 DEF Complied!IInv

LEMMA ListLengths ==
  /\ Len(Complied!First) = 4 /\ DOMAIN Complied!First = 1..4 /\ Complied!First \in Seq(Checks)
  /\ Len(Complied!Then) = 5 /\ DOMAIN Complied!Then = 1..5 /\ Complied!Then \in Seq(Checks)
  BY DEF Complied!First, Complied!Then, Checks, Complied!FactChecks, Complied!LiveChecks

\* What each of the two lists names.
LEMMA Named ==
  /\ \A i \in 1..4 : Complied!First[i] \in Checks
  /\ \A i \in 1..5 : Complied!Then[i] \in Checks
<1>1. ASSUME NEW i \in 1..4 PROVE Complied!First[i] \in Checks
  <2>1. i = 1 \/ i = 2 \/ i = 3 \/ i = 4
    OBVIOUS
  <2> QED
    BY <2>1 DEF Complied!First, Checks, Complied!FactChecks
<1>2. ASSUME NEW i \in 1..5 PROVE Complied!Then[i] \in Checks
  <2>1. i = 1 \/ i = 2 \/ i = 3 \/ i = 4 \/ i = 5
    OBVIOUS
  <2> QED
    BY <2>1 DEF Complied!Then, Checks, Complied!FactChecks, Complied!LiveChecks
<1> QED
  BY <1>1, <1>2

LEMMA OrderIs ==
  /\ \A i \in 1..4 : Order[i] = Complied!First[i]
  /\ \A i \in 1..5 : Order[i + 4] = Complied!Then[i]
<1>1. ASSUME NEW i \in 1..4 PROVE Order[i] = Complied!First[i]
  <2>1. i = 1 \/ i = 2 \/ i = 3 \/ i = 4
    OBVIOUS
  <2> QED
    BY <2>1 DEF Order, Complied!First
<1>2. ASSUME NEW i \in 1..5 PROVE Order[i + 4] = Complied!Then[i]
  <2>1. i = 1 \/ i = 2 \/ i = 3 \/ i = 4 \/ i = 5
    OBVIOUS
  <2> QED
    BY <2>1 DEF Order, Complied!Then
<1> QED
  BY <1>1, <1>2

\* A check of GitHub's facts asks no client.
LEMMA FactsDecide ==
  ASSUME NEW check \in Complied!FactChecks, NEW repo \in Repos, NEW says
  PROVE  Complied!Passes(check, repo, says) = (check \in v1[repo])
<1>1. check \notin { "projects", "plane", "idempotency", "credentials" }
  BY DEF Complied!FactChecks
<1> QED
  BY <1>1 DEF Complied!Passes

\* What a check finds is yes or no.
LEMMA PassesOrNot ==
  ASSUME Complied!TypeOK, NEW check \in Checks, NEW repo \in Repos,
         NEW says \in [ Clients -> BOOLEAN ]
  PROVE  Complied!Passes(check, repo, says) \in BOOLEAN
<1>1. CASE check \in Complied!FactChecks
  <2>1. (check \in v1[repo]) \in BOOLEAN
    OBVIOUS
  <2> HIDE DEF Checks
  <2>2. Complied!Passes(check, repo, says) = (check \in v1[repo])
    BY <1>1, FactsDecide
  <2> QED
    BY <2>1, <2>2
<1>2. CASE check \in Complied!LiveChecks
  <2>1. \A client : Complied!Asked(client, says) \in BOOLEAN
    BY DEF Complied!Asked
  <2>2. Complied!PlaneHealthy(repo, says) \in BOOLEAN
    BY DEF Complied!PlaneHealthy
  <2> QED
    BY <1>2, <2>1, <2>2
    DEF Complied!LiveChecks, Complied!Passes, Complied!ProjectsConfigured,
        Complied!LookupOperational, Complied!ScopesSuffice
<1> QED
  BY <1>1, <1>2 DEF Checks

LEMMA ResultsAre ==
  ASSUME Complied!TypeOK, NEW checks \in Seq(Checks), NEW repo \in Repos, NEW says,
         \A i \in DOMAIN checks : Complied!Passes(checks[i], repo, says) \in BOOLEAN
  PROVE  /\ Complied!ResultsOf(checks, repo, says) \in Seq(Complied!Results)
         /\ Len(Complied!ResultsOf(checks, repo, says)) = Len(checks)
         /\ \A i \in 1..Len(checks) :
              LET result == Complied!ResultsOf(checks, repo, says)[i] IN
              /\ result.check = checks[i] /\ result.of = repo
              /\ checks[i] \in Complied!FactChecks => (result.passed <=> checks[i] \in v1[repo])
<1>1. DOMAIN checks = 1..Len(checks) /\ Len(checks) \in Nat
      /\ \A i \in 1..Len(checks) : checks[i] \in Checks
  OBVIOUS
<1> DEFINE list == Complied!ResultsOf(checks, repo, says)
<1>2. list = [ i \in 1..Len(checks) |->
                 Complied!Result(checks[i], repo, Complied!Passes(checks[i], repo, says)) ]
  BY <1>1 DEF Complied!ResultsOf
<1>3. ASSUME NEW i \in 1..Len(checks)
      PROVE  Complied!Result(checks[i], repo, Complied!Passes(checks[i], repo, says))
               \in Complied!Results
  BY <1>1 DEF Complied!Result, Complied!Results, Checks
<1> HIDE DEF list
<1>4. list \in Seq(Complied!Results) /\ Len(list) = Len(checks)
  BY <1>1, <1>2, <1>3
<1>5. ASSUME NEW i \in 1..Len(checks)
      PROVE  /\ list[i].check = checks[i] /\ list[i].of = repo
             /\ checks[i] \in Complied!FactChecks => (list[i].passed <=> checks[i] \in v1[repo])
  <2>1. list[i].check = checks[i] /\ list[i].of = repo
        /\ list[i].passed = Complied!Passes(checks[i], repo, says)
    BY <1>2 DEF Complied!Result
  <2>2. checks[i] \in Complied!FactChecks
          => Complied!Passes(checks[i], repo, says) = (checks[i] \in v1[repo])
    BY FactsDecide
  <2> QED
    BY <2>1, <2>2
<1> QED
  BY <1>4, <1>5 DEF list

-----------------------------------------------------------------------------
(* Types, whatever clients there are *)

LEMMA AsksTypes ==
  ASSUME Complied!TypeOK, NEW r \in Requests, NEW repo \in Repos,
         Complied!ChecksCompliance(r, repo) \/ Complied!ChecksEligibility(r, repo)
  PROVE  Complied!TypeOK'
<1>1. PICK op \in { "compliance", "eligibility" } : Complied!Asks(r, repo, op)
  BY DEF Complied!ChecksCompliance, Complied!ChecksEligibility
<1>2. /\ v5' = [ v5 EXCEPT ![r] = [ at |-> "loaded", repo |-> repo, op |-> op ] ]
      /\ v6' = [ v6 EXCEPT ![r] = Complied!Unanswered ]
      /\ UNCHANGED << v1, v2, v3, v4, v7, v8 >>
  BY <1>1 DEF Complied!Asks
<1>3. [ at |-> "loaded", repo |-> repo, op |-> op ] \in CompliedEntry
  BY DEF CompliedEntry
<1>4. v5' \in [ Requests -> CompliedEntry ]
        /\ v6' \in [ Requests -> {Complied!Unanswered} \cup CompliedVerdicts ]
  BY <1>2, <1>3 DEF Complied!TypeOK, CompliedEntry, CompliedVerdicts
<1> QED
  BY <1>2, <1>4 DEF Complied!TypeOK, CompliedEntry, CompliedVerdicts

\* What the first checks find asks no client.
LEMMA FirstResults ==
  ASSUME Complied!TypeOK, NEW repo \in Repos
  PROVE  LET list == Complied!ResultsOf(Complied!First, repo, << >>) IN
         /\ list \in Seq(Complied!Results) /\ Len(list) = 4
         /\ \A i \in 1..4 :
              /\ list[i].check = Complied!First[i] /\ list[i].of = repo
              /\ list[i].passed <=> Complied!First[i] \in v1[repo]
<1>1. ASSUME NEW i \in 1..4 PROVE Complied!First[i] \in Complied!FactChecks
  <2>1. i = 1 \/ i = 2 \/ i = 3 \/ i = 4
    OBVIOUS
  <2> QED
    BY <2>1 DEF Complied!First, Complied!FactChecks
<1>2. ASSUME NEW i \in DOMAIN Complied!First
      PROVE  Complied!Passes(Complied!First[i], repo, << >>) \in BOOLEAN
  <2>1. Complied!First[i] \in Complied!FactChecks
    BY <1>1, ListLengths
  <2>2. Complied!Passes(Complied!First[i], repo, << >>) = (Complied!First[i] \in v1[repo])
    BY <2>1, FactsDecide
  <2>3. (Complied!First[i] \in v1[repo]) \in BOOLEAN
    OBVIOUS
  <2> QED
    BY <2>2, <2>3
<1> QED
  BY <1>1, <1>2, ListLengths, ResultsAre

LEMMA RestResults ==
  ASSUME Complied!TypeOK, NEW repo \in Repos, NEW says \in [ Clients -> BOOLEAN ]
  PROVE  LET list == Complied!ResultsOf(Complied!Then, repo, says) IN
         /\ list \in Seq(Complied!Results) /\ Len(list) = 5
         /\ \A i \in 1..5 :
              /\ list[i].check = Complied!Then[i] /\ list[i].of = repo
              /\ Complied!Then[i] \in Complied!FactChecks
                   => (list[i].passed <=> Complied!Then[i] \in v1[repo])
<1>1. ASSUME NEW i \in DOMAIN Complied!Then
      PROVE  Complied!Passes(Complied!Then[i], repo, says) \in BOOLEAN
  <2>1. Complied!Then[i] \in Checks
    BY Named, ListLengths
  <2> QED
    BY <2>1, PassesOrNot
<1> QED
  BY <1>1, ListLengths, ResultsAre

LEMMA BeginsTypes ==
  ASSUME Complied!TypeOK, NEW r \in Requests, Complied!Begins(r)
  PROVE  Complied!TypeOK'
<1> DEFINE repo == v5[r].repo
<1>1. v5[r] \in CompliedEntry /\ v5[r] # Complied!Idle /\ repo \in Repos
      /\ v5[r].op \in { "compliance", "eligibility" }
  BY DEF Complied!Begins, Complied!TypeOK, CompliedEntry, Complied!Idle
<1>2. v4' \in Seq(Complied!Results)
  BY <1>1, FirstResults DEF Complied!Begins
<1>3. v5'[r] = [ at |-> "checking", repo |-> repo, op |-> v5[r].op ]
      /\ v5' = [ v5 EXCEPT ![r] = v5'[r] ]
  BY <1>1 DEF Complied!Begins, Complied!TypeOK, CompliedEntry, Complied!Idle
<1>4. v5' \in [ Requests -> CompliedEntry ]
  BY <1>1, <1>3 DEF Complied!TypeOK, CompliedEntry
<1> QED
  BY <1>2, <1>4 DEF Complied!Begins, Complied!TypeOK, CompliedEntry

LEMMA ConcludesTypes ==
  ASSUME Complied!TypeOK, NEW r \in Requests, Complied!Concludes(r)
  PROVE  Complied!TypeOK'
<1> DEFINE repo == v5[r].repo
           given == [ at |-> "answered", repo |-> repo, results |-> v4',
                      passed |-> Complied!Failed(v4') = {} ]
<1>1. repo \in Repos
  BY DEF Complied!Concludes, Complied!TypeOK, Complied!Idle
<1>2. v4' \in Seq(Complied!Results)
  <2>1. PICK says \in [ Clients -> BOOLEAN ] :
          v4' = v4 \o Complied!ResultsOf(Complied!Then, repo, says)
    BY DEF Complied!Concludes
  <2>2. Complied!ResultsOf(Complied!Then, repo, says) \in Seq(Complied!Results)
          /\ v4 \in Seq(Complied!Results)
    BY <1>1, RestResults DEF Complied!TypeOK
  <2> QED
    BY <2>1, <2>2, ConcatProperties
<1>3. Complied!Failed(v4') \subseteq Checks
  <2>1. ASSUME NEW i \in DOMAIN v4' PROVE v4'[i] \in Complied!Results
    BY <1>2
  <2> QED
    BY <2>1 DEF Complied!Failed, Complied!Results, Checks
<1>4. /\ v6' = [ v6 EXCEPT ![r] = given ]
      /\ v5' = [ v5 EXCEPT ![r] = Complied!Idle ]
      /\ UNCHANGED << v1, v2, v3, v8 >>
      /\ v7' = v7 \/ v7' = [ v7 EXCEPT ![repo] = Complied!Failed(v4') ]
  BY DEF Complied!Concludes
<1>5. given \in CompliedVerdicts
  <2>1. (Complied!Failed(v4') = {}) \in BOOLEAN
    OBVIOUS
  <2> QED
    BY <1>1, <1>2, <2>1 DEF CompliedVerdicts
<1> HIDE DEF given
<1>6. v6' \in [ Requests -> {Complied!Unanswered} \cup CompliedVerdicts ]
  BY <1>4, <1>5 DEF Complied!TypeOK, CompliedVerdicts
<1>7. v5' \in [ Requests -> CompliedEntry ]
  BY <1>4 DEF Complied!TypeOK, CompliedEntry
<1>8. v7' \in [ Repos -> SUBSET Checks ]
  BY <1>1, <1>3, <1>4 DEF Complied!TypeOK, Checks
<1> QED
  BY <1>2, <1>4, <1>6, <1>7, <1>8 DEF Complied!TypeOK, CompliedVerdicts, CompliedEntry, Checks

LEMMA DisturbsTypes ==
  ASSUME Complied!ComplianceAssumption, Complied!TypeOK,
         Complied!ToolsChange \/ \E repo \in Repos : Complied!WorkspaceChanges(repo)
  PROVE  Complied!TypeOK'
<1>1. UNCHANGED << v1, v4, v5, v6, v7 >>
  BY DEF Complied!ToolsChange, Complied!WorkspaceChanges, Complied!Disturbs
<1>2. v8' \in 0..MaxChanges
  BY DEF Complied!ToolsChange, Complied!WorkspaceChanges, Complied!Disturbs, Complied!TypeOK,
         Complied!ComplianceAssumption
<1>3. v2' \subseteq Repos
  BY DEF Complied!ToolsChange, Complied!WorkspaceChanges, Complied!TypeOK
<1>4. v3' \in BOOLEAN
  BY DEF Complied!ToolsChange, Complied!WorkspaceChanges, Complied!TypeOK
<1> QED
  BY <1>1, <1>2, <1>3, <1>4 DEF Complied!TypeOK

LEMMA TypesInit == ASSUME Complied!ComplianceAssumption, Complied!Init PROVE Complied!TypeOK
  BY DEF Complied!Init, Complied!TypeOK, Complied!ComplianceAssumption

LEMMA TypesStay ==
  ASSUME Complied!ComplianceAssumption, Complied!TypeOK, [Complied!Next]_Complied!vars
  PROVE  Complied!TypeOK'
<1>1. CASE UNCHANGED Complied!vars
  BY <1>1 DEF Complied!vars, Complied!TypeOK
<1> QED
  BY <1>1, AsksTypes, BeginsTypes, ConcludesTypes, DisturbsTypes DEF Complied!Next

-----------------------------------------------------------------------------
(* CompliedVerdicts *)

\* A request that loads its repository, or starts over, is in no check.
LEMMA CompliedAsksStep ==
  ASSUME Complied!ComplianceAssumption, Complied!IInv, NEW r \in Requests, NEW repo \in Repos,
         Complied!ChecksCompliance(r, repo) \/ Complied!ChecksEligibility(r, repo)
  PROVE  Complied!IInv'
<1>1. PICK op \in { "compliance", "eligibility" } : Complied!Asks(r, repo, op)
  BY DEF Complied!ChecksCompliance, Complied!ChecksEligibility
<1>2. /\ v5' = [ v5 EXCEPT ![r] = [ at |-> "loaded", repo |-> repo, op |-> op ] ]
      /\ v6' = [ v6 EXCEPT ![r] = Complied!Unanswered ]
      /\ UNCHANGED << v1, v2, v3, v4, v7, v8 >>
  BY <1>1 DEF Complied!Asks
<1>5. Complied!TypeOK'
  BY AsksTypes DEF Complied!IInv
<1>6. \A s \in Requests : Complied!AtWork(s)' => Complied!AtWork(s) /\ v5'[s] = v5[s]
  BY <1>2 DEF Complied!AtWork, Complied!IInv, Complied!TypeOK
<1>7. Complied!OneAtWork'
  BY <1>6 DEF Complied!IInv, Complied!OneAtWork
<1>8. Complied!HalfDone'
  BY <1>2, <1>6 DEF Complied!IInv, Complied!HalfDone, Complied!Result
<1>9. Complied!VerdictIsOwn'
  <2>1. \A s \in Requests : IsOwn(v6'[s])
    <3>1. \A s \in Requests : v6'[s] = Complied!Unanswered \/ v6'[s] = v6[s]
      BY <1>2 DEF Complied!IInv, Complied!TypeOK
    <3>2. IsOwn(Complied!Unanswered)
      BY DEF IsOwn, Complied!Unanswered
    <3> QED
      BY <3>1, <3>2, OwnParts DEF Complied!IInv
  <2>2. \A s \in Requests : IsOwn(v6[s])'
    BY <1>2, <2>1 DEF IsOwn
  <2>3. \A p \in Repos : NamesAll(p)'
    BY <1>2, OwnParts DEF Complied!IInv, NamesAll
  <2> QED
    BY <2>2, <2>3 DEF Complied!VerdictIsOwn, IsOwn, NamesAll, Checks
<1> QED
  BY <1>5, <1>7, <1>8, <1>9 DEF Complied!IInv

\* Nobody else is at work: the list is the request's own.
LEMMA CompliedBeginsStep ==
  ASSUME Complied!ComplianceAssumption, Clients = {}, Complied!IInv, NEW r \in Requests,
         Complied!Begins(r)
  PROVE  Complied!IInv'
<1> DEFINE repo == v5[r].repo
<1>1. v5[r] \in CompliedEntry /\ v5[r] # Complied!Idle /\ repo \in Repos
      /\ v5[r].op \in { "compliance", "eligibility" }
  BY DEF Complied!Begins, Complied!IInv, Complied!TypeOK, CompliedEntry, Complied!Idle
<1>2. /\ \A s \in Requests : ~Complied!AtWork(s)
      /\ v4' = Complied!ResultsOf(Complied!First, repo, << >>)
      /\ UNCHANGED << v1, v2, v3, v6, v7, v8 >>
  BY DEF Complied!Begins, Complied!MayOverlap, Complied!AtWork
<1>3. v5'[r] = [ at |-> "checking", repo |-> repo, op |-> v5[r].op ]
      /\ v5' = [ v5 EXCEPT ![r] = v5'[r] ]
  BY <1>1 DEF Complied!Begins, Complied!IInv, Complied!TypeOK, CompliedEntry, Complied!Idle
<1>5. /\ v4' \in Seq(Complied!Results) /\ Len(v4') = 4
      /\ \A i \in 1..4 :
           /\ v4'[i].check = Complied!First[i] /\ v4'[i].of = repo
           /\ v4'[i].passed <=> Complied!First[i] \in v1[repo]
  BY <1>1, <1>2, FirstResults DEF Complied!IInv
<1>6. Complied!TypeOK'
  BY BeginsTypes DEF Complied!IInv
<1>7. \A s \in Requests : Complied!AtWork(s)' => s = r
  BY <1>2, <1>3 DEF Complied!AtWork, Complied!IInv, Complied!TypeOK
<1>8. Complied!OneAtWork'
  BY <1>7 DEF Complied!OneAtWork
<1>9. Complied!HalfDone'
  BY <1>2, <1>3, <1>5, <1>7, ListLengths DEF Complied!HalfDone
<1>10. Complied!VerdictIsOwn'
  BY <1>2 DEF Complied!IInv, Complied!VerdictIsOwn
<1> QED
  BY <1>6, <1>8, <1>9, <1>10 DEF Complied!IInv

\* Four results and five more are nine.
LEMMA Joined ==
  ASSUME NEW S, NEW one \in Seq(S), NEW other \in Seq(S), Len(one) = 4, Len(other) = 5
  PROVE  /\ one \o other \in Seq(S) /\ Len(one \o other) = 9
         /\ \A i \in 1..9 : (one \o other)[i] = IF i <= 4 THEN one[i] ELSE other[i - 4]
<1>1. /\ one \o other \in Seq(S)
      /\ Len(one \o other) = Len(one) + Len(other)
      /\ \A i \in 1 .. Len(one) + Len(other) :
           (one \o other)[i] = IF i <= Len(one) THEN one[i] ELSE other[i - Len(one)]
  BY ConcatProperties
<1>2. Len(one) + Len(other) = 9
  OBVIOUS
<1> QED
  BY <1>1, <1>2

\* The list of a check that concludes has every check's result, of its repository.
LEMMA ListIsWhole ==
  ASSUME Complied!ComplianceAssumption, Complied!IInv, NEW r \in Requests, Complied!AtWork(r),
         NEW says \in [ Clients -> BOOLEAN ],
         v5[r].repo \in Repos
  PROVE  IsWhole(v4 \o Complied!ResultsOf(Complied!Then, v5[r].repo, says), v5[r].repo)
<1> DEFINE repo == v5[r].repo
           rest == Complied!ResultsOf(Complied!Then, repo, says)
           list == v4 \o rest
<1>1. /\ v4 \in Seq(Complied!Results) /\ Len(v4) = 4
      /\ \A i \in 1..4 :
           /\ v4[i].check = Complied!First[i] /\ v4[i].of = repo
           /\ v4[i].passed <=> Complied!First[i] \in v1[repo]
  BY ListLengths DEF Complied!IInv, Complied!TypeOK, Complied!HalfDone
<1>2. /\ rest \in Seq(Complied!Results) /\ Len(rest) = 5
      /\ \A i \in 1..5 :
           /\ rest[i].check = Complied!Then[i] /\ rest[i].of = repo
           /\ Complied!Then[i] \in Complied!FactChecks
                => (rest[i].passed <=> Complied!Then[i] \in v1[repo])
  BY RestResults DEF Complied!IInv
<1> HIDE DEF rest
<1>3. list \in Seq(Complied!Results) /\ Len(list) = 9
      /\ \A i \in 1..9 : list[i] = IF i <= 4 THEN v4[i] ELSE rest[i - 4]
  <2>1. v4 \in Seq(Complied!Results) /\ Len(v4) = 4 /\ rest \in Seq(Complied!Results)
          /\ Len(rest) = 5
    BY <1>1, <1>2
  <2> QED
    BY <2>1, Joined DEF list
<1> HIDE DEF list
<1>4. ASSUME NEW i \in 1..9
      PROVE  /\ list[i].check = Order[i] /\ list[i].of = repo
             /\ Order[i] \in Complied!FactChecks => (list[i].passed <=> Order[i] \in v1[repo])
  <2>1. CASE i <= 4
    <3>1. i \in 1..4 /\ list[i] = v4[i]
      BY <1>3, <2>1
    <3> QED
      BY <1>1, <3>1, OrderIs
  <2>2. CASE ~(i <= 4)
    <3>1. i - 4 \in 1..5 /\ list[i] = rest[i - 4] /\ (i - 4) + 4 = i
      BY <1>3, <2>2
    <3>2. Order[i] = Complied!Then[i - 4]
      BY <3>1, OrderIs
    <3> QED
      BY <1>2, <3>1, <3>2
  <2> QED
    BY <2>1, <2>2
<1>5. IsWhole(list, repo)
  BY <1>3, <1>4 DEF IsWhole
<1> QED
  BY <1>5 DEF list, rest

\* The checks of the facts, and all of them, by their numbers.
LEMMA AllNamed ==
  /\ \A check \in Complied!FactChecks : \E i \in 1..9 : Order[i] = check
  /\ { Order[i] : i \in 1..9 } = Checks
<1>1. ASSUME NEW check \in Checks PROVE \E i \in 1..9 : Order[i] = check
  <2>1. /\ Order[1] = "rulesets" /\ Order[2] = "reviewers" /\ Order[3] = "protection"
        /\ Order[4] = "labels" /\ Order[5] = "projects" /\ Order[6] = "plane"
        /\ Order[7] = "idempotency" /\ Order[8] = "credentials" /\ Order[9] = "policy"
    BY DEF Order
  <2>2. \/ check = Order[1] \/ check = Order[2] \/ check = Order[3]
        \/ check = Order[4] \/ check = Order[5] \/ check = Order[6]
        \/ check = Order[7] \/ check = Order[8] \/ check = Order[9]
    BY <2>1 DEF Checks, Complied!FactChecks, Complied!LiveChecks
  <2>3. 1 \in 1..9 /\ 2 \in 1..9 /\ 3 \in 1..9 /\ 4 \in 1..9 /\ 5 \in 1..9
        /\ 6 \in 1..9 /\ 7 \in 1..9 /\ 8 \in 1..9 /\ 9 \in 1..9
    OBVIOUS
  <2> QED
    BY <2>2, <2>3
<1>2. ASSUME NEW i \in 1..9 PROVE Order[i] \in Checks
  <2>1. CASE i <= 4
    <3>1. i \in 1..4
      BY <2>1
    <3> QED
      BY <3>1, Named, OrderIs
  <2>2. CASE ~(i <= 4)
    <3>1. i - 4 \in 1..5 /\ (i - 4) + 4 = i
      BY <2>2
    <3>2. Order[i] = Complied!Then[i - 4]
      BY <3>1, OrderIs
    <3> QED
      BY <3>1, <3>2, Named
  <2> QED
    BY <2>1, <2>2
<1> QED
  BY <1>1, <1>2 DEF Checks

\* What a whole list says.
LEMMA WholeTells ==
  ASSUME Complied!TypeOK, Complied!ComplianceAssumption, NEW repo \in Repos, NEW list,
         IsWhole(list, repo)
  PROVE  /\ { list[i].check : i \in DOMAIN list } = Checks
         /\ Len(list) = Len(Complied!First) + Len(Complied!Then)
         /\ \A i \in DOMAIN list : list[i].of = repo
         /\ Complied!Failed(list) = {} => v1[repo] = Complied!FactChecks
         /\ Complied!Failed(list) \subseteq Checks
         /\ Complied!FactChecks \ v1[repo] \subseteq Complied!Failed(list)
<1>1. DOMAIN list = 1..9 /\ Len(list) = 9
      /\ \A i \in 1..9 :
           /\ list[i].check = Order[i] /\ list[i].of = repo
           /\ Order[i] \in Complied!FactChecks => (list[i].passed <=> Order[i] \in v1[repo])
  BY DEF IsWhole
<1>2. { list[i].check : i \in DOMAIN list } = Checks
  <2>1. { list[i].check : i \in DOMAIN list } = { Order[i] : i \in 1..9 }
    BY <1>1
  <2> QED
    BY <2>1, AllNamed
<1>3. Complied!Failed(list) \subseteq Checks
  BY <1>2 DEF Complied!Failed
<1>4. ASSUME NEW check \in Complied!FactChecks \ v1[repo] PROVE check \in Complied!Failed(list)
  <2>1. PICK i \in 1..9 : Order[i] = check
    BY AllNamed
  <2>2. list[i].check = check /\ ~list[i].passed /\ i \in DOMAIN list
    BY <1>1, <2>1
  <2> QED
    BY <2>2 DEF Complied!Failed
<1>5. Complied!Failed(list) = {} => v1[repo] = Complied!FactChecks
  <2>1. v1[repo] \subseteq Complied!FactChecks
    BY DEF Complied!TypeOK, Complied!ComplianceAssumption
  <2> QED
    BY <1>4, <2>1
<1> QED
  BY <1>1, <1>2, <1>3, <1>4, <1>5, ListLengths

LEMMA ConcludesStep ==
  ASSUME Complied!ComplianceAssumption, Complied!IInv, NEW r \in Requests, Complied!Concludes(r)
  PROVE  Complied!IInv'
<1> DEFINE repo == v5[r].repo
           given == [ at |-> "answered", repo |-> repo, results |-> v4',
                      passed |-> Complied!Failed(v4') = {} ]
<1>1. Complied!AtWork(r) /\ repo \in Repos
  BY DEF Complied!Concludes, Complied!AtWork, Complied!IInv, Complied!TypeOK, Complied!Idle
<1>2. IsWhole(v4', repo)
  <2>1. PICK says \in [ Clients -> BOOLEAN ] :
          v4' = v4 \o Complied!ResultsOf(Complied!Then, repo, says)
    BY DEF Complied!Concludes
  <2> QED
    BY <1>1, <2>1, ListIsWhole
<1>3. /\ { v4'[i].check : i \in DOMAIN v4' } = Checks
      /\ Len(v4') = Len(Complied!First) + Len(Complied!Then)
      /\ \A i \in DOMAIN v4' : v4'[i].of = repo
      /\ Complied!Failed(v4') = {} => v1[repo] = Complied!FactChecks
      /\ Complied!Failed(v4') \subseteq Checks
      /\ Complied!FactChecks \ v1[repo] \subseteq Complied!Failed(v4')
  BY <1>1, <1>2, WholeTells DEF Complied!IInv
<1>4. /\ v6' = [ v6 EXCEPT ![r] = given ]
      /\ v5' = [ v5 EXCEPT ![r] = Complied!Idle ]
      /\ UNCHANGED << v1, v2, v3, v8 >>
      /\ v7' = v7 \/ v7' = [ v7 EXCEPT ![repo] = Complied!Failed(v4') ]
  BY DEF Complied!Concludes
<1>5. given.at = "answered" /\ given.repo = repo /\ given.results = v4'
      /\ (given.passed <=> Complied!Failed(v4') = {})
  OBVIOUS
<1> HIDE DEF given
<1>10. Complied!TypeOK'
  BY ConcludesTypes DEF Complied!IInv
<1>11. \A s \in Requests : Complied!AtWork(s)' => s # r /\ Complied!AtWork(s)
  BY <1>4 DEF Complied!AtWork, Complied!IInv, Complied!TypeOK, Complied!Idle
<1>12. \A s \in Requests : ~Complied!AtWork(s)'
  BY <1>1, <1>11 DEF Complied!IInv, Complied!OneAtWork
<1>13. Complied!OneAtWork' /\ Complied!HalfDone'
  BY <1>12 DEF Complied!OneAtWork, Complied!HalfDone
<1>14. IsOwn(given)
  BY <1>3, <1>5 DEF IsOwn
<1>15. \A s \in Requests : IsOwn(v6[s])'
  <2>1. \A s \in Requests : v6'[s] = given \/ v6'[s] = v6[s]
    BY <1>4 DEF Complied!IInv, Complied!TypeOK
  <2>2. \A s \in Requests : IsOwn(v6[s])
    BY OwnParts DEF Complied!IInv
  <2>3. \A s \in Requests : IsOwn(v6'[s])
    BY <1>14, <2>1, <2>2
  <2> QED
    BY <1>4, <2>3 DEF IsOwn
<1>16. \A p \in Repos : NamesAll(p)'
  <2>1. \A p \in Repos : NamesAll(p)
    BY OwnParts DEF Complied!IInv
  <2>2. \A p \in Repos : v7'[p] = v7[p] \/ (p = repo /\ v7'[p] = Complied!Failed(v4'))
    BY <1>4 DEF Complied!IInv, Complied!TypeOK
  <2> QED
    BY <1>3, <1>4, <2>1, <2>2 DEF NamesAll
<1>17. Complied!VerdictIsOwn'
  BY <1>15, <1>16 DEF Complied!VerdictIsOwn, IsOwn, NamesAll, Checks
<1> QED
  BY <1>10, <1>13, <1>17 DEF Complied!IInv

LEMMA DisturbsStep ==
  ASSUME Complied!ComplianceAssumption, Complied!IInv,
         Complied!ToolsChange \/ \E repo \in Repos : Complied!WorkspaceChanges(repo)
  PROVE  Complied!IInv'
<1>1. UNCHANGED << v1, v4, v5, v6, v7 >>
  BY DEF Complied!ToolsChange, Complied!WorkspaceChanges, Complied!Disturbs
<1>5. Complied!TypeOK'
  BY DisturbsTypes DEF Complied!IInv
<1>6. Complied!OneAtWork' /\ Complied!HalfDone' /\ Complied!VerdictIsOwn'
  BY <1>1
  DEF Complied!IInv, Complied!OneAtWork, Complied!HalfDone, Complied!AtWork, Complied!VerdictIsOwn
<1> QED
  BY <1>5, <1>6 DEF Complied!IInv

LEMMA CompliedInvNext ==
  ASSUME Complied!ComplianceAssumption, Clients = {}, Complied!IInv, [Complied!Next]_Complied!vars
  PROVE  Complied!IInv'
<1>1. CASE UNCHANGED Complied!vars
  BY <1>1
  DEF Complied!vars, Complied!IInv, Complied!TypeOK, Complied!OneAtWork, Complied!HalfDone,
      Complied!AtWork, Complied!VerdictIsOwn
<1> QED
  BY <1>1, CompliedAsksStep, CompliedBeginsStep, ConcludesStep, DisturbsStep DEF Complied!Next

LEMMA CompliedSteps ==
  ASSUME focus = "complied", [Next]_v
  PROVE  focus' = "complied" /\ [Complied!Next]_Complied!vars
  BY DEF Next, v, Complied!vars, Kept8

\* src/compliance/router.py, src/compliance/promotion.py make the checker
\* without clients: no check awaits anything, so that no other comes between.
LEMMA CompliedInvariant ==
  ASSUME Clients = {}
  PROVE  Spec => [](focus = "complied" => Complied!IInv)
<1> DEFINE Inv == focus = "complied" => Complied!IInv
<1>1. Init => Inv
  BY CompliedAssumption, CompliedInvInit DEF Init
<1>2. Inv /\ [Next]_v => Inv'
  BY CompliedAssumption, CompliedInvNext, CompliedSteps, FocusStays
<1> QED
  BY <1>1, <1>2, PTL DEF Spec

\* The types do not depend on it.
LEMMA CompliedTyped == Spec => [](focus = "complied" => Complied!TypeOK)
<1> DEFINE Inv == focus = "complied" => Complied!TypeOK
<1>1. Init => Inv
  BY CompliedAssumption, TypesInit DEF Init
<1>2. Inv /\ [Next]_v => Inv'
  BY CompliedAssumption, TypesStay, CompliedSteps, FocusStays
<1> QED
  BY <1>1, <1>2, PTL DEF Spec

(***************************************************************************)
(* Planes: The registry of execution planes and the cards made from it.  A *)
(* card that says healthy by the registry is no younger than the time that *)
(* the plane was last healthy. The variables: v1 status, v2 assigned, v3   *)
(* stored, v4 card, v5 sick, v6 shown.                                     *)
(***************************************************************************)

\* What the invariant says of a card and the time since.
Backed(c, time) == c # Plane!None /\ ~c.asserted /\ c.healthy => time <= c.age

LEMMA CardsBacked == Plane!CardsOK
  <=> \A r \in FleetRepos : (Plane!HasPlane(r) => v5[r] = 0) /\ Backed(v4[r], v5[r])
  BY DEF Plane!CardsOK, Backed

LEMMA PlaneInvInit == ASSUME Plane!PlanesAssumption, Plane!Init PROVE Plane!IInv
<1>1. Plane!TypeOK
  BY DEF Plane!Init, Plane!TypeOK, Plane!PlanesAssumption, Plane!NothingShown
<1>2. Plane!CardsOK
  BY DEF Plane!Init, Plane!CardsOK, Plane!HasPlane, Plane!Healthy
<1>3. Plane!ShownWasSo
  BY DEF Plane!Init, Plane!ShownWasSo, Plane!NothingShown
<1> QED
  BY <1>1, <1>2, <1>3 DEF Plane!IInv

LEMMA PlaneChangesStep ==
  ASSUME Plane!PlanesAssumption, Plane!IInv,
         NEW newStatus \in [ Requests -> { "none", "active", "paused" } ],
         NEW newAssigned \in [ Requests -> SUBSET FleetRepos ],
         Plane!Changes(newStatus, newAssigned)
  PROVE  Plane!IInv'
<1>1. UNCHANGED << v3, v4, v6 >> /\ v1' = newStatus /\ v2' = newAssigned
  BY DEF Plane!Changes
<1>2. \A r \in FleetRepos : v5'[r] = IF Plane!HasPlane(r) \/ Plane!HasPlane(r)' THEN 0 ELSE v5[r]
  BY DEF Plane!Changes
<1>3. \A r \in FleetRepos : v5'[r] \in { 0, v5[r] } /\ (Plane!HasPlane(r)' => v5'[r] = 0)
  BY <1>2
<1>4. v5' \in [ FleetRepos -> 0..Ttl ]
  <2>1. v5' = [ r \in FleetRepos |-> v5'[r] ]
    BY DEF Plane!Changes
  <2>2. 0 \in 0..Ttl
    BY DEF Plane!PlanesAssumption
  <2> QED
    BY <1>3, <2>1, <2>2 DEF Plane!IInv, Plane!TypeOK
<1>5. Plane!TypeOK'
  BY <1>1, <1>4 DEF Plane!IInv, Plane!TypeOK, Plane!Cards, Plane!None
<1>6. ASSUME NEW r \in FleetRepos PROVE Backed(v4'[r], v5'[r])
  <2>1. Backed(v4[r], v5[r]) /\ v5[r] \in Nat
    BY CardsBacked DEF Plane!IInv, Plane!TypeOK, Plane!PlanesAssumption
  <2>2. v4[r] # Plane!None => v4[r].age \in Nat
    BY DEF Plane!IInv, Plane!TypeOK, Plane!Cards, Plane!PlanesAssumption
  <2> QED
    BY <1>1, <1>3, <2>1, <2>2 DEF Backed
<1>7. Plane!CardsOK'
  BY <1>3, <1>6 DEF Plane!CardsOK, Backed, Plane!None
<1>8. Plane!ShownWasSo'
  BY <1>1 DEF Plane!IInv, Plane!ShownWasSo, Plane!None
<1> QED
  BY <1>5, <1>7, <1>8 DEF Plane!IInv

LEMMA RegistryStep ==
  ASSUME Plane!PlanesAssumption, Plane!IInv, NEW p \in Requests,
         \/ Plane!Register(p) \/ Plane!Pause(p) \/ Plane!Resume(p) \/ Plane!Remove(p)
         \/ \E r \in FleetRepos : Plane!Assign(p, r) \/ Plane!Unassign(p, r)
  PROVE  Plane!IInv'
<1>1. CASE \E to \in { "none", "active", "paused" } : Plane!SetStatus(p, to)
  <2>1. PICK to \in { "none", "active", "paused" } : Plane!SetStatus(p, to)
    BY <1>1
  <2>2. [ v1 EXCEPT ![p] = to ] \in [ Requests -> { "none", "active", "paused" } ]
        /\ v2 \in [ Requests -> SUBSET FleetRepos ]
    BY DEF Plane!IInv, Plane!TypeOK
  <2> QED
    BY <2>1, <2>2, PlaneChangesStep DEF Plane!SetStatus
<1>2. CASE \E r \in FleetRepos : Plane!Assign(p, r) \/ Plane!Unassign(p, r)
  <2>1. PICK repos \in SUBSET FleetRepos : Plane!Changes(v1, [ v2 EXCEPT ![p] = repos ])
    BY <1>2 DEF Plane!Assign, Plane!Unassign, Plane!IInv, Plane!TypeOK
  <2>2. [ v2 EXCEPT ![p] = repos ] \in [ Requests -> SUBSET FleetRepos ]
        /\ v1 \in [ Requests -> { "none", "active", "paused" } ]
    BY DEF Plane!IInv, Plane!TypeOK
  <2> QED
    BY <2>1, <2>2, PlaneChangesStep
<1> QED
  BY <1>1, <1>2 DEF Plane!Register, Plane!Pause, Plane!Resume, Plane!Remove

\* A card of the repository as it is now, or as it was less than Ttl ago, may be shown.
LEMMA PlaneAnswersStep ==
  ASSUME Plane!PlanesAssumption, Plane!IInv, NEW r \in FleetRepos, NEW c \in Plane!Cards,
         c.asserted \/ (Backed(c, v5[r]) /\ c.age < Ttl), Plane!Answers(r, c)
  PROVE  Plane!IInv'
<1>1. /\ v4' = [ v4 EXCEPT ![r] = c ] /\ v6' = [ card |-> c, sick |-> v5[r] ]
      /\ UNCHANGED << v1, v2, v3, v5 >>
  BY DEF Plane!Answers
<1>2. Plane!TypeOK'
  BY <1>1 DEF Plane!IInv, Plane!TypeOK
<1>3. Backed(c, v5[r])
  BY DEF Backed
<1>4. \A q \in FleetRepos : Plane!HasPlane(q)' = Plane!HasPlane(q)
  BY <1>1 DEF Plane!HasPlane, Plane!Healthy
<1>5. \A q \in FleetRepos : Backed(v4'[q], v5'[q])
  BY <1>1, <1>3, CardsBacked DEF Plane!IInv, Plane!TypeOK
<1>6. Plane!CardsOK'
  <2>1. \A q \in FleetRepos : Plane!HasPlane(q)' => v5'[q] = 0
    BY <1>1, <1>4, CardsBacked DEF Plane!IInv
  <2> QED
    BY <1>5, <2>1 DEF Plane!CardsOK, Backed, Plane!None
<1>7. Plane!ShownWasSo'
  <2>1. v5[r] \in Nat /\ c.age \in Nat /\ Ttl \in Nat
    BY DEF Plane!IInv, Plane!TypeOK, Plane!Cards, Plane!PlanesAssumption
  <2>2. c # Plane!None /\ ~c.asserted /\ c.healthy => v5[r] < Ttl
    BY <1>3, <2>1 DEF Backed
  <2>3. v6'.card = c /\ v6'.sick = v5[r]
    BY <1>1
  <2> QED
    BY <2>2, <2>3 DEF Plane!ShownWasSo, Plane!None
<1> QED
  BY <1>2, <1>6, <1>7 DEF Plane!IInv

LEMMA ViewsStep ==
  ASSUME Plane!PlanesAssumption, Plane!IInv, NEW r \in FleetRepos, Plane!Views(r)
  PROVE  Plane!IInv'
<1>1. CASE Plane!Fresh(r)
  <2>1. v4[r] # Plane!None
    BY <1>1 DEF Plane!Fresh, Plane!None, Plane!PlanesAssumption
  <2>2. v4[r] \in Plane!Cards
    BY <2>1 DEF Plane!IInv, Plane!TypeOK
  <2>3. Backed(v4[r], v5[r]) /\ v4[r].age < Ttl
    BY <1>1, CardsBacked DEF Plane!IInv, Plane!Fresh
  <2>4. Plane!Answers(r, v4[r])
    BY <1>1 DEF Plane!Views
  <2> QED
    BY <2>2, <2>3, <2>4, PlaneAnswersStep
<1>2. CASE ~Plane!Fresh(r)
  <2> DEFINE c == Plane!Fetched(r)
  <2>1. c = [ healthy |-> Plane!HasPlane(r), rest |-> r \in v3, asserted |-> FALSE, age |-> 0 ]
    BY DEF Plane!Fetched, Plane!Card
  <2>2. c \in Plane!Cards
    <3>1. Plane!HasPlane(r) \in BOOLEAN /\ (r \in v3) \in BOOLEAN /\ 0 \in 0..Ttl
      BY DEF Plane!HasPlane, Plane!PlanesAssumption
    <3> QED
      BY <2>1, <3>1 DEF Plane!Cards
  <2>3. Backed(c, v5[r]) /\ c.age < Ttl
    <3>1. c.age = 0 /\ (c.healthy => Plane!HasPlane(r))
      BY <2>1
    <3>2. c.healthy => v5[r] = 0
      BY <3>1, CardsBacked DEF Plane!IInv
    <3> QED
      BY <3>1, <3>2 DEF Backed, Plane!PlanesAssumption
  <2>4. Plane!Answers(r, c)
    BY <1>2 DEF Plane!Views
  <2> HIDE DEF c
  <2> QED
    BY <2>2, <2>3, <2>4, PlaneAnswersStep
<1> QED
  BY <1>1, <1>2

LEMMA AssertsStep ==
  ASSUME Plane!PlanesAssumption, Plane!IInv, NEW r \in FleetRepos, NEW healthy \in BOOLEAN,
         NEW rest \in BOOLEAN,
         Plane!Asserts(r, healthy, rest)
  PROVE  Plane!IInv'
<1> DEFINE c == Plane!Card(healthy, rest, TRUE)
<1>1. c \in Plane!Cards /\ c.asserted
  BY DEF Plane!Card, Plane!Cards, Plane!PlanesAssumption
<1>2. Plane!Answers(r, c)
  BY DEF Plane!Asserts
<1> HIDE DEF c
<1> QED
  BY <1>1, <1>2, PlaneAnswersStep

LEMMA KeptStep ==
  ASSUME Plane!PlanesAssumption, Plane!IInv, NEW r \in FleetRepos,
         Plane!Stores(r) \/ Plane!Invalidates(r)
  PROVE  Plane!IInv'
<1>1. UNCHANGED << v1, v2, v5, v6 >> /\ v3' \subseteq FleetRepos
  BY DEF Plane!Stores, Plane!Invalidates, Plane!IInv, Plane!TypeOK
<1>2. v4' \in [ FleetRepos -> {Plane!None} \cup Plane!Cards ]
      /\ \A q \in FleetRepos : v4'[q] = Plane!None \/ v4'[q] = v4[q]
  BY DEF Plane!Stores, Plane!Invalidates, Plane!IInv, Plane!TypeOK
<1>3. Plane!TypeOK'
  BY <1>1, <1>2 DEF Plane!IInv, Plane!TypeOK, Plane!Cards, Plane!None
<1>4. \A q \in FleetRepos : Backed(v4'[q], v5'[q])
  BY <1>1, <1>2, CardsBacked DEF Plane!IInv, Backed
<1>5. \A q \in FleetRepos : Plane!HasPlane(q)' => v5'[q] = 0
  BY <1>1, CardsBacked DEF Plane!IInv, Plane!HasPlane, Plane!Healthy
<1>6. Plane!CardsOK' /\ Plane!ShownWasSo'
  BY <1>1, <1>4, <1>5 DEF Plane!CardsOK, Backed, Plane!None, Plane!IInv, Plane!ShownWasSo
<1> QED
  BY <1>3, <1>6 DEF Plane!IInv

LEMMA OlderIs ==
  ASSUME Plane!PlanesAssumption, NEW n \in 0..Ttl
  PROVE  Plane!Older(n) \in 0..Ttl /\ \A m \in 0..Ttl : m <= n => Plane!Older(m) <= Plane!Older(n)
  BY DEF Plane!Older, Plane!PlanesAssumption

LEMMA TimePassesStep ==
  ASSUME Plane!PlanesAssumption, Plane!IInv, Plane!TimePasses
  PROVE  Plane!IInv'
<1>1. UNCHANGED << v1, v2, v3, v6 >>
  BY DEF Plane!TimePasses
<1>2. \A r \in FleetRepos : v5'[r] = IF Plane!HasPlane(r) THEN 0 ELSE Plane!Older(v5[r])
  BY DEF Plane!TimePasses
<1>3. ASSUME NEW r \in FleetRepos, v4[r] # Plane!None
      PROVE  /\ v4'[r] \in Plane!Cards /\ v4'[r].age = Plane!Older(v4[r].age)
             /\ v4'[r].healthy = v4[r].healthy /\ v4'[r].asserted = v4[r].asserted
  <2>1. v4[r] \in Plane!Cards
    BY <1>3 DEF Plane!IInv, Plane!TypeOK
  <2>2. v4'[r] = [ v4[r] EXCEPT !.age = Plane!Older(v4[r].age) ]
    BY <1>3 DEF Plane!TimePasses
  <2>3. Plane!Older(v4[r].age) \in 0..Ttl
    BY <2>1, OlderIs DEF Plane!Cards
  <2> QED
    BY <2>1, <2>2, <2>3 DEF Plane!Cards
<1>4. \A r \in FleetRepos : v4[r] = Plane!None => v4'[r] = Plane!None
  BY DEF Plane!TimePasses
<1>5. v5' \in [ FleetRepos -> 0..Ttl ]
  <2>1. \A r \in FleetRepos : Plane!Older(v5[r]) \in 0..Ttl
    BY OlderIs DEF Plane!IInv, Plane!TypeOK
  <2>2. 0 \in 0..Ttl
    BY DEF Plane!PlanesAssumption
  <2> QED
    BY <2>1, <2>2 DEF Plane!TimePasses
<1>6. v4' \in [ FleetRepos -> {Plane!None} \cup Plane!Cards ]
  <2>1. v4' = [ r \in FleetRepos |-> v4'[r] ]
    BY DEF Plane!TimePasses
  <2> QED
    BY <1>3, <1>4, <2>1
<1>7. Plane!TypeOK'
  BY <1>1, <1>5, <1>6 DEF Plane!IInv, Plane!TypeOK, Plane!Cards, Plane!None
<1>8. ASSUME NEW r \in FleetRepos
      PROVE  Backed(v4'[r], v5'[r]) /\ (Plane!HasPlane(r)' => v5'[r] = 0)
  <2>1. Plane!HasPlane(r)' = Plane!HasPlane(r)
    BY <1>1 DEF Plane!HasPlane, Plane!Healthy
  <2>2. CASE v4[r] = Plane!None
    BY <1>2, <1>4, <2>1, <2>2 DEF Backed
  <2>3. CASE v4[r] # Plane!None
    <3>1. v4[r].age \in 0..Ttl /\ v5[r] \in 0..Ttl
      BY <2>3 DEF Plane!IInv, Plane!TypeOK, Plane!Cards
    <3>2. Plane!Older(v4[r].age) \in Nat
            /\ (v5[r] <= v4[r].age => Plane!Older(v5[r]) <= Plane!Older(v4[r].age))
      BY <3>1, OlderIs DEF Plane!PlanesAssumption
    <3>3. ~v4[r].asserted /\ v4[r].healthy => v5[r] <= v4[r].age
      BY <2>3, CardsBacked DEF Plane!IInv, Backed
    <3>4. ~v4[r].asserted /\ v4[r].healthy => v5'[r] <= v4'[r].age
      BY <1>2, <1>3, <2>3, <3>2, <3>3
    <3>5. Backed(v4'[r], v5'[r])
      BY <1>3, <2>3, <3>4 DEF Backed
    <3> QED
      BY <1>2, <2>1, <3>5
  <2> QED
    BY <2>2, <2>3
<1>9. Plane!CardsOK' /\ Plane!ShownWasSo'
  BY <1>1, <1>8 DEF Plane!CardsOK, Backed, Plane!None, Plane!IInv, Plane!ShownWasSo
<1> QED
  BY <1>7, <1>9 DEF Plane!IInv

LEMMA PlaneInvNext ==
  ASSUME Plane!PlanesAssumption, Plane!IInv, [Plane!Next]_Plane!vars
  PROVE  Plane!IInv'
<1>1. CASE UNCHANGED Plane!vars
  BY <1>1
  DEF Plane!vars, Plane!IInv, Plane!TypeOK, Plane!CardsOK, Plane!ShownWasSo, Plane!HasPlane,
      Plane!Healthy, Plane!None, Plane!Cards
<1> QED
  BY <1>1, RegistryStep, ViewsStep, AssertsStep, KeptStep, TimePassesStep DEF Plane!Next

LEMMA PlaneSteps ==
  ASSUME focus = "plane", [Next]_v
  PROVE  focus' = "plane" /\ [Plane!Next]_Plane!vars
  BY DEF Next, v, Plane!vars, Kept6

LEMMA PlaneInvariant == Spec => [](focus = "plane" => Plane!IInv)
<1> DEFINE Inv == focus = "plane" => Plane!IInv
<1>1. Init => Inv
  BY PlaneAssumption, PlaneInvInit DEF Init
<1>2. Inv /\ [Next]_v => Inv'
  BY PlaneAssumption, PlaneInvNext, PlaneSteps, FocusStays
<1> QED
  BY <1>1, <1>2, PTL DEF Spec

\* src/compliance, src/admin/compliance_scorecard.py: whatever changes while a check
\* runs, a verdict is on the repository that was asked for; and however late a
\* scorecard is, what it shows was so within its time.
THEOREM ComplianceIsSound == ASSUME Clients = {} PROVE Spec => []ComplianceIsTrue
<1>1. (focus = "complied" => Complied!IInv) /\ (focus = "plane" => Plane!IInv) => ComplianceIsTrue
  BY DEF ComplianceIsTrue, Complied!IInv, Plane!IInv
<1> QED
  BY <1>1, CompliedInvariant, PlaneInvariant, PTL

(***************************************************************************)
(* TrustTier: The rules and the tasks that are given a tier.  The audit    *)
(* entry is there before the answer is. The variables: v1 rules, v2        *)
(* bounds, v3 task, v4 audit, v5 edits, v6 failures.                       *)
(***************************************************************************)

\* _cap_tier lowers a tier or leaves it as it is.
LEMMA AtMostTypes ==
  ASSUME NEW tier \in Trust!Tiers, NEW cap \in Trust!Tiers
  PROVE  Trust!AtMost(tier, cap) \in { tier, cap }
           /\ (Trust!AtMost(tier, "suggest") = "execute" => FALSE)
<1>1. Trust!Rank("observe") = 1 /\ Trust!Rank("suggest") = 2 /\ Trust!Rank("execute") = 3
  BY DEF Trust!Rank
<1> QED
  BY <1>1 DEF Trust!AtMost, Trust!Tiers

LEMMA ResultTypes ==
  ASSUME NEW raw \in Trust!Tiers, NEW tier \in Trust!Tiers, NEW packet
  PROVE  /\ Trust!ResultOf(raw, tier, packet) \in Trust!Results
         /\ Trust!ResultOf(raw, tier, packet).tier = "execute"
              => tier = "execute" /\ ~Trust!Capped(packet)
<1>1. "suggest" \in Trust!Tiers
  BY DEF Trust!Tiers
<1>2. Trust!AtMost(tier, "suggest") \in Trust!Tiers /\ Trust!AtMost(tier, "suggest") # "execute"
  BY <1>1, AtMostTypes
<1> QED
  BY <1>2 DEF Trust!ResultOf, Trust!Results

\* What a rule assigns it assigns on trial up to suggest only.
LEMMA TrialTypes ==
  ASSUME NEW shape \in Trust!Rows
  PROVE  /\ Trust!Trial(shape) \in Trust!Tiers
         /\ Trust!Trial(shape) = "execute" => shape.tier = "execute" /\ ~shape.dryRun
<1>1. "suggest" \in Trust!Tiers /\ shape.tier \in Trust!Tiers
  BY DEF Trust!Tiers, Trust!Rows
<1>2. Trust!AtMost(shape.tier, "suggest") \in Trust!Tiers
        /\ Trust!AtMost(shape.tier, "suggest") # "execute"
  BY <1>1, AtMostTypes
<1> QED
  BY <1>1, <1>2 DEF Trust!Trial

LEMMA ObserveTypes == Trust!Observe \in Trust!Results /\ Trust!Observe.tier = "observe"
  BY DEF Trust!Observe, Trust!Results, Trust!Tiers

\* A task read, as the record it is.
TrustEntry == [ at : Trust!Points, packet : Packets, list : [ Rules -> Shapes ], creates : BOOLEAN,
           result : Trust!Results ]

LEMMA TrustInvInit == ASSUME Trust!TrustTierAssumption, Trust!Init PROVE Trust!IInv
<1>1. PICK packet \in [ Tasks -> Packets ] :
        v3 = [ t \in Tasks |-> [ at |-> "rules", packet |-> packet[t], list |-> v1,
                                   creates |-> FALSE, result |-> Trust!Observe ] ]
  BY DEF Trust!Init
<1>2. /\ v1 \in [ Rules -> Shapes ] /\ v2 = FALSE /\ v4 = {}
      /\ v5 = 0 /\ v6 = 0
  BY DEF Trust!Init
<1>3. Trust!TypeOK
  <2>1. "rules" \in Trust!Points /\ 0 \in 0..MaxEdits /\ 0 \in 0..MaxFailures
    BY DEF Trust!Points, Trust!TrustTierAssumption
  <2>2. v3 \in [ Tasks -> TrustEntry ]
    BY <1>1, <1>2, <2>1, ObserveTypes DEF TrustEntry
  <2> QED
    BY <1>2, <2>1, <2>2 DEF Trust!TypeOK, TrustEntry
<1> QED
  BY <1>1, <1>2, <1>3, ObserveTypes
  DEF Trust!IInv, Trust!FreshOK, Trust!EmitOK, Trust!TierIsEarned, Trust!AnswerIsAudited

\* A step of one task leaves what the others know.
LEMMA OneTask ==
  ASSUME Trust!IInv, NEW t \in Tasks, v3'[t] \in TrustEntry, v3' = [ v3 EXCEPT ![t] = v3'[t] ]
  PROVE  v3' \in [ Tasks -> TrustEntry ] /\ \A s \in Tasks : s # t => v3'[s] = v3[s]
  BY DEF Trust!IInv, Trust!TypeOK, TrustEntry

\* What was earned stays so while the packet and the list that was read do.
LEMMA EarnedStays ==
  ASSUME Trust!IInv,
         \A s \in Tasks : v3'[s].result.tier = "execute" =>
           /\ v3[s].result.tier = "execute"
           /\ v3'[s].packet = v3[s].packet /\ v3'[s].list = v3[s].list
  PROVE  Trust!TierIsEarned'
<1>1. ASSUME NEW s \in Tasks, v3'[s].result.tier = "execute" PROVE Trust!Earned(v3'[s])
  <2>1. Trust!Earned(v3[s])
    BY <1>1 DEF Trust!IInv, Trust!TierIsEarned
  <2> QED
    BY <1>1, <2>1 DEF Trust!Earned
<1> QED
  BY <1>1 DEF Trust!TierIsEarned, Trust!Earned

LEMMA ListsRulesStep ==
  ASSUME Trust!TrustTierAssumption, Trust!IInv, NEW t \in Tasks, Trust!ListsRules(t)
  PROVE  Trust!IInv'
<1>1. v3[t] \in TrustEntry /\ v3[t].at = "rules" /\ v3[t].result = Trust!Observe
  BY DEF Trust!IInv, Trust!TypeOK, Trust!FreshOK, Trust!ListsRules, TrustEntry
<1>2. /\ v3'[t] = [ at |-> "bounds", packet |-> v3[t].packet, list |-> v1,
                    creates |-> v3[t].creates, result |-> Trust!Observe ]
      /\ v3' = [ v3 EXCEPT ![t] = v3'[t] ]
  BY <1>1 DEF Trust!ListsRules, Trust!IInv, Trust!TypeOK, TrustEntry
<1>3. UNCHANGED << v1, v2, v4, v5, v6 >>
  BY DEF Trust!ListsRules
<1>4. v3'[t] \in TrustEntry
  <2>1. v1 \in [ Rules -> Shapes ] /\ "bounds" \in Trust!Points
    BY DEF Trust!IInv, Trust!TypeOK, Trust!Points
  <2> QED
    BY <1>1, <1>2, <2>1, ObserveTypes DEF TrustEntry
<1>5. \A s \in Tasks : s # t => v3'[s] = v3[s]
  BY <1>2, <1>4, OneTask
<1>6. Trust!TypeOK'
  BY <1>2, <1>3, <1>4, OneTask DEF Trust!IInv, Trust!TypeOK, TrustEntry
<1>7. Trust!FreshOK' /\ Trust!EmitOK' /\ Trust!AnswerIsAudited'
  BY <1>2, <1>3, <1>5 DEF Trust!IInv, Trust!FreshOK, Trust!EmitOK, Trust!AnswerIsAudited
<1>8. Trust!TierIsEarned'
  BY <1>2, <1>5, ObserveTypes, EarnedStays
<1> QED
  BY <1>6, <1>7, <1>8 DEF Trust!IInv

LEMMA EvaluatesStep ==
  ASSUME Trust!TrustTierAssumption, Trust!IInv, NEW t \in Tasks, Trust!Evaluates(t)
  PROVE  Trust!IInv'
<1> DEFINE list == v3[t].list
           packet == v3[t].packet
<1>1. v3[t] \in TrustEntry
  BY DEF Trust!IInv, Trust!TypeOK, TrustEntry
<1>2. list \in [ Rules -> Trust!Rows ] /\ packet \in Packets
  BY <1>1 DEF TrustEntry, Trust!TrustTierAssumption
<1>3. PICK result :
        /\ v3' = [ v3 EXCEPT ![t].at = "commit", ![t].creates = ~v2,
                                 ![t].result = result ]
        /\ \/ result = Trust!ResultOf("observe", "observe", packet)
           \/ \E r \in Trust!First(list) :
                result = Trust!ResultOf(list[r].tier, Trust!Trial(list[r]), packet)
  BY DEF Trust!Evaluates
<1>4. /\ result \in Trust!Results
      /\ result.tier = "execute" =>
           ~Trust!Capped(packet) /\ \E r \in Trust!First(list) : list[r].tier = "execute"
             /\ ~list[r].dryRun
  <2>1. CASE result = Trust!ResultOf("observe", "observe", packet)
    BY <2>1, ResultTypes DEF Trust!Tiers
  <2>2. ASSUME NEW r \in Trust!First(list),
               result = Trust!ResultOf(list[r].tier, Trust!Trial(list[r]), packet)
        PROVE  /\ result \in Trust!Results
               /\ result.tier = "execute" =>
                    ~Trust!Capped(packet) /\ list[r].tier = "execute" /\ ~list[r].dryRun
    <3>1. list[r] \in Trust!Rows /\ list[r].tier \in Trust!Tiers
      BY <1>2 DEF Trust!First, Trust!Matching, Trust!Rows
    <3> QED
      BY <2>2, <3>1, TrialTypes, ResultTypes
  <2> QED
    BY <1>3, <2>1, <2>2
<1>5. result.tier = "execute" =>
        \E r \in Rules :
          /\ list[r] \in { shape \in Shapes : shape.tier = "execute" /\ shape.active
                             /\ ~shape.dryRun /\ shape.conditions \subseteq { "met" } }
          /\ ~\E s \in Rules : /\ list[s].active
                               /\ list[s].conditions \subseteq { "met" }
                               /\ list[s].priority < list[r].priority
  <2>1. ASSUME NEW r \in Trust!First(list), list[r].tier = "execute", ~list[r].dryRun
        PROVE  /\ r \in Rules
               /\ list[r] \in { shape \in Shapes : shape.tier = "execute" /\ shape.active
                                  /\ ~shape.dryRun /\ shape.conditions \subseteq { "met" } }
               /\ ~\E s \in Rules : /\ list[s].active
                                    /\ list[s].conditions \subseteq { "met" }
                                    /\ list[s].priority < list[r].priority
    <3>1. \A s \in Rules : list[s].priority \in Nat
      BY <1>2 DEF Trust!Rows
    <3> QED
      BY <1>1, <2>1, <3>1 DEF Trust!First, Trust!Matching, TrustEntry
  <2> QED
    BY <1>4, <2>1
<1>6. result.tier = "execute" =>
        /\ ~packet.loopbacks /\ ~packet.pattern
        /\ packet.diffLines # "many"
        /\ packet.diffLines \in { Trust!Absent, "zero" } => packet.changedLines # "many"
  BY <1>4 DEF Trust!Capped, Trust!Lines, Trust!Absent
<1>7. /\ v3'[t] = [ at |-> "commit", packet |-> packet, list |-> list,
                    creates |-> ~v2, result |-> result ]
      /\ v3' = [ v3 EXCEPT ![t] = v3'[t] ]
  BY <1>1, <1>3 DEF Trust!IInv, Trust!TypeOK, TrustEntry
<1>8. UNCHANGED << v1, v2, v4, v5, v6 >>
  BY DEF Trust!Evaluates
<1>9. v3'[t] \in TrustEntry
  BY <1>1, <1>4, <1>7 DEF TrustEntry, Trust!Points, Trust!IInv, Trust!TypeOK
<1>10. \A s \in Tasks : s # t => v3'[s] = v3[s]
  BY <1>7, <1>9, OneTask
<1>11. Trust!TypeOK'
  BY <1>7, <1>8, <1>9, OneTask DEF Trust!IInv, Trust!TypeOK, TrustEntry
<1>12. Trust!FreshOK' /\ Trust!EmitOK' /\ Trust!AnswerIsAudited'
  BY <1>7, <1>8, <1>10 DEF Trust!IInv, Trust!FreshOK, Trust!EmitOK, Trust!AnswerIsAudited
<1>13. Trust!TierIsEarned'
  <2> HIDE DEF list, packet
  <2>1. v3'[t].result.tier = "execute" => Trust!Earned(v3'[t])
    BY <1>5, <1>6, <1>7 DEF Trust!Earned
  <2> QED
    BY <1>10, <2>1 DEF Trust!IInv, Trust!TierIsEarned, Trust!Earned
<1> QED
  BY <1>11, <1>12, <1>13 DEF Trust!IInv

\* The steps after the evaluation keep the result, or go back to observe.
LEMMA AnsweringStep ==
  ASSUME Trust!TrustTierAssumption, Trust!IInv, NEW t \in Tasks,
         Trust!Commits(t) \/ Trust!WritesAudit(t) \/ Trust!Answers(t) \/ Trust!Fails(t)
           \/ Trust!Dies(t)
  PROVE  Trust!IInv'
<1>1. v3[t] \in TrustEntry
  BY DEF Trust!IInv, Trust!TypeOK, TrustEntry
<1>2. PICK at \in Trust!Points, creates \in BOOLEAN, result \in { v3[t].result, Trust!Observe } :
        /\ v3'[t] = [ at |-> at, packet |-> v3[t].packet,
                      list |-> v3[t].list, creates |-> creates,
                      result |-> result ]
        /\ v3' = [ v3 EXCEPT ![t] = v3'[t] ]
        /\ at \in { "rules", "bounds" } => result = Trust!Observe
        /\ at = "emit" => [ task |-> t, result |-> result ] \in v4'
        /\ at = "publish" /\ result # Trust!Observe => v3[t].at = "emit" /\ v4' = v4
  <2>1. CASE Trust!Commits(t)
    <3>1. /\ v3'[t] = [ at |-> "audit", packet |-> v3[t].packet,
                        list |-> v3[t].list, creates |-> FALSE,
                        result |-> v3[t].result ]
          /\ v3' = [ v3 EXCEPT ![t] = v3'[t] ]
      BY <1>1, <2>1 DEF Trust!Commits, Trust!IInv, Trust!TypeOK, TrustEntry
    <3> QED
      BY <3>1 DEF Trust!Points
  <2>2. CASE Trust!WritesAudit(t)
    <3>1. /\ v3'[t] = [ at |-> "emit", packet |-> v3[t].packet,
                        list |-> v3[t].list, creates |-> v3[t].creates,
                        result |-> v3[t].result ]
          /\ v3' = [ v3 EXCEPT ![t] = v3'[t] ]
          /\ [ task |-> t, result |-> v3[t].result ] \in v4'
      BY <1>1, <2>2 DEF Trust!WritesAudit, Trust!IInv, Trust!TypeOK, TrustEntry
    <3> QED
      BY <1>1, <3>1 DEF Trust!Points, TrustEntry
  <2>3. CASE Trust!Answers(t)
    <3>1. /\ v3'[t] = [ at |-> "publish", packet |-> v3[t].packet,
                        list |-> v3[t].list, creates |-> v3[t].creates,
                        result |-> v3[t].result ]
          /\ v3' = [ v3 EXCEPT ![t] = v3'[t] ]
          /\ v4' = v4 /\ v3[t].at = "emit"
      BY <1>1, <2>3 DEF Trust!Answers, Trust!IInv, Trust!TypeOK, TrustEntry
    <3> QED
      BY <1>1, <3>1 DEF Trust!Points, TrustEntry
  <2>4. CASE Trust!Fails(t)
    <3>1. /\ v3'[t] = [ at |-> "publish", packet |-> v3[t].packet,
                        list |-> v3[t].list, creates |-> FALSE,
                        result |-> Trust!Observe ]
          /\ v3' = [ v3 EXCEPT ![t] = v3'[t] ]
      BY <1>1, <2>4 DEF Trust!Fails, Trust!IInv, Trust!TypeOK, TrustEntry
    <3> QED
      BY <3>1 DEF Trust!Points
  <2>5. CASE Trust!Dies(t)
    <3>1. /\ v3'[t] = [ at |-> "rules", packet |-> v3[t].packet,
                        list |-> v3[t].list, creates |-> FALSE,
                        result |-> Trust!Observe ]
          /\ v3' = [ v3 EXCEPT ![t] = v3'[t] ]
      BY <1>1, <2>5 DEF Trust!Dies, Trust!IInv, Trust!TypeOK, TrustEntry
    <3> QED
      BY <3>1 DEF Trust!Points
  <2> QED
    BY <2>1, <2>2, <2>3, <2>4, <2>5
<1>3. /\ v1' = v1 /\ v2' \in BOOLEAN /\ v5' = v5 /\ v6' \in 0..MaxFailures
      /\ v4 \subseteq v4' /\ v4' \subseteq [ task : Tasks, result : Trust!Results ]
  <2>1. v6 + 1 \in Nat
    BY DEF Trust!IInv, Trust!TypeOK
  <2> QED
    BY <1>1, <2>1
    DEF Trust!Commits, Trust!WritesAudit, Trust!Answers, Trust!Fails, Trust!Dies, Trust!IInv,
        Trust!TypeOK, TrustEntry,
       Trust!TrustTierAssumption
<1>4. result \in Trust!Results
  BY <1>1, <1>2, ObserveTypes DEF TrustEntry
<1>5. Trust!TypeOK'
  BY <1>1, <1>2, <1>3, <1>4 DEF Trust!IInv, Trust!TypeOK, TrustEntry
<1>6. /\ \A s \in Tasks : s # t => v3'[s] = v3[s]
      /\ v3'[t] = [ at |-> at, packet |-> v3[t].packet, list |-> v3[t].list,
                      creates |-> creates, result |-> result ]
  BY <1>2 DEF Trust!IInv, Trust!TypeOK
<1>7. Trust!FreshOK' /\ Trust!EmitOK'
  BY <1>2, <1>3, <1>6 DEF Trust!IInv, Trust!FreshOK, Trust!EmitOK
<1>8. Trust!AnswerIsAudited'
  BY <1>2, <1>3, <1>6, ObserveTypes DEF Trust!IInv, Trust!EmitOK, Trust!AnswerIsAudited
<1>9. Trust!TierIsEarned'
  BY <1>2, <1>6, ObserveTypes, EarnedStays
<1> QED
  BY <1>5, <1>7, <1>8, <1>9 DEF Trust!IInv

LEMMA TrustInvNext ==
  ASSUME Trust!TrustTierAssumption, Trust!IInv, [Trust!Next]_Trust!vars
  PROVE  Trust!IInv'
<1>1. CASE UNCHANGED Trust!vars
  BY <1>1
  DEF Trust!vars, Trust!IInv, Trust!TypeOK, Trust!FreshOK, Trust!EmitOK, Trust!TierIsEarned,
      Trust!AnswerIsAudited
<1>2. CASE \E r \in Rules : Trust!EditsRule(r)
  <2>1. /\ UNCHANGED << v2, v3, v4, v6 >>
        /\ v1' \in [ Rules -> Shapes ] /\ v5' \in 0..MaxEdits
    BY <1>2 DEF Trust!EditsRule, Trust!Edits, Trust!IInv, Trust!TypeOK, Trust!TrustTierAssumption
  <2> QED
    BY <2>1
    DEF Trust!IInv, Trust!TypeOK, Trust!FreshOK, Trust!EmitOK, Trust!TierIsEarned,
        Trust!AnswerIsAudited
<1> QED
  BY <1>1, <1>2, ListsRulesStep, EvaluatesStep, AnsweringStep DEF Trust!Next

LEMMA TrustSteps ==
  ASSUME focus = "trust", [Next]_v
  PROVE  focus' = "trust" /\ [Trust!Next]_Trust!vars
  BY DEF Next, v, Trust!vars, Kept6

LEMMA TrustInvariant == Spec => [](focus = "trust" => Trust!IInv)
<1> DEFINE Inv == focus = "trust" => Trust!IInv
<1>1. Init => Inv
  BY TrustAssumption, TrustInvInit DEF Init
<1>2. Inv /\ [Next]_v => Inv'
  BY TrustAssumption, TrustInvNext, TrustSteps, FocusStays
<1> QED
  BY <1>1, <1>2, PTL DEF Spec

\* src/dashboard/trust_engine.py: whatever rules, bounds and packets there are, a
\* task at execute has earned it in the rules its evaluation read, and a tier
\* that was answered stands in the audit log.
THEOREM TiersAreEarned == Spec => []TiersAreSound
<1>1. (focus = "trust" => Trust!IInv) => TiersAreSound
  BY DEF TiersAreSound, Trust!IInv
<1> QED
  BY <1>1, TrustInvariant, PTL

(***************************************************************************)
(* ModelGateway: Calls of models.  That the books agree and that sensitive *)
(* work is given a strong model is inductive as it stands. The variables:  *)
(* v1 enabled, v2 run, v3 spend, v4 tokens, v5 audited, v6 paid.           *)
(***************************************************************************)

\* What is known of one run.
GatewayEntry ==
  [ at : { "idle", "call", "ralph", "raised" },
    context : Gateway!AgentContext, class : Gateway!Classes ]

\* What SensitiveIsStrong says of the entry of one run.
IsSensitive(c) ==
  c.complex \/ (c.security /\ c.step \in { "intent", "assembler", "primary_agent" })
            \/ (c.execute /\ c.step = "primary_agent")
Served(e) == e.at = "call" /\ IsSensitive(e.context) => e.class = "strong"

LEMMA GatewayInvInit == ASSUME Gateway!ModelGatewayAssumption, Gateway!Init PROVE Gateway!IInv
<1>1. Gateway!Idle \in GatewayEntry
  BY DEF Gateway!Idle, GatewayEntry, Gateway!AgentContext, Gateway!Steps, Gateway!Classes
<1>2. v2 \in [ Runs -> GatewayEntry ]
  BY <1>1 DEF Gateway!Init
<1>3. Gateway!TypeOK
  BY <1>2 DEF Gateway!Init, Gateway!TypeOK, GatewayEntry, Gateway!ModelGatewayAssumption
<1>4. Gateway!BooksAgree
  BY DEF Gateway!Init, Gateway!BooksAgree, Gateway!Steps
<1>5. Gateway!SensitiveIsStrong
  BY DEF Gateway!Init, Gateway!SensitiveIsStrong, Gateway!Idle
<1> QED
  BY <1>3, <1>4, <1>5 DEF Gateway!IInv

\* What an override asks for is what the rules resolve to: strong is the highest class.
LEMMA SensitiveIsRequired ==
  ASSUME NEW c \in Gateway!AgentContext, IsSensitive(c)
  PROVE  Gateway!Required(c) = "strong"
<1> DEFINE possible == { Gateway!DefaultClass(c.step) } \cup Gateway!Overrides(c)
<1>1. "strong" \in possible
  BY DEF Gateway!Overrides, IsSensitive, Gateway!Classes
<1>2. possible \subseteq Gateway!Classes
  BY DEF Gateway!DefaultClass, Gateway!Overrides, Gateway!Classes
<1>3. \A other \in possible : Gateway!Order[other] <= Gateway!Order["strong"]
  BY <1>2 DEF Gateway!Classes, Gateway!Order
<1>4. Gateway!Required(c) \in possible
        /\ \A other \in possible : Gateway!Order[other] <= Gateway!Order[Gateway!Required(c)]
  BY <1>1, <1>3 DEF Gateway!Required
<1>5. Gateway!Order["strong"] <= Gateway!Order[Gateway!Required(c)]
        /\ Gateway!Required(c) \in Gateway!Classes
  BY <1>1, <1>2, <1>4
<1> QED
  BY <1>5 DEF Gateway!Classes, Gateway!Order

\* With the weaker providers or without them, nothing below the class is selected.
LEMMA NothingBelowStrong ==
  ASSUME Gateway!ModelGatewayAssumption, Gateway!TypeOK, NEW p \in Gateway!Selectable("strong")
  PROVE  ClassOf[p] = "strong"
<1>1. p \in Providers /\ Gateway!Order[ClassOf[p]] >= Gateway!Order["strong"]
  BY DEF Gateway!Selectable, Gateway!TypeOK
<1>2. ClassOf[p] \in Gateway!Classes
  BY <1>1 DEF Gateway!ModelGatewayAssumption
<1> QED
  BY <1>1, <1>2 DEF Gateway!Classes, Gateway!Order

\* A step of one run that books nothing.
LEMMA GatewayRunStep ==
  ASSUME Gateway!IInv, NEW r \in Runs, NEW e \in GatewayEntry, v2' = [ v2 EXCEPT ![r] = e ],
         Served(e),
         UNCHANGED << v1, v3, v4, v5, v6 >>
  PROVE  Gateway!IInv'
<1>1. v2' \in [ Runs -> GatewayEntry ]
  BY DEF Gateway!IInv, Gateway!TypeOK, GatewayEntry
<1>2. Gateway!TypeOK'
  BY <1>1 DEF Gateway!IInv, Gateway!TypeOK, GatewayEntry
<1>3. Gateway!BooksAgree'
  BY DEF Gateway!IInv, Gateway!BooksAgree
<1>4. ASSUME NEW s \in Runs PROVE Served(v2'[s])
  BY DEF Gateway!IInv, Gateway!TypeOK, Gateway!SensitiveIsStrong, Served, IsSensitive
<1>5. Gateway!SensitiveIsStrong'
  BY <1>4 DEF Gateway!SensitiveIsStrong, Served, IsSensitive
<1> QED
  BY <1>2, <1>3, <1>5 DEF Gateway!IInv

LEMMA GatewayBeginsStep ==
  ASSUME Gateway!ModelGatewayAssumption, Gateway!IInv, NEW r \in Runs, NEW c \in CallContexts,
         Gateway!Begins(r, c)
  PROVE  Gateway!IInv'
<1>1. PICK p \in Gateway!Selectable(Gateway!Required(c)) :
        v2' = [ v2 EXCEPT ![r] = [ at |-> "call", context |-> c, class |-> ClassOf[p] ] ]
  BY DEF Gateway!Begins
<1> DEFINE e == [ at |-> "call", context |-> c, class |-> ClassOf[p] ]
<1>2. c \in Gateway!AgentContext /\ p \in Providers
  BY <1>1 DEF Gateway!ModelGatewayAssumption, Gateway!Selectable, Gateway!IInv, Gateway!TypeOK
<1>3. e \in GatewayEntry
  BY <1>2 DEF GatewayEntry, Gateway!ModelGatewayAssumption
<1>4. Served(e)
  BY <1>1, <1>2, SensitiveIsRequired, NothingBelowStrong DEF Served, Gateway!IInv
<1> HIDE DEF e
<1>5. UNCHANGED << v1, v3, v4, v5, v6 >>
  BY DEF Gateway!Begins
<1>6. v2' = [ v2 EXCEPT ![r] = e ]
  BY <1>1 DEF e
<1> QED
  BY <1>3, <1>4, <1>5, <1>6, GatewayRunStep

LEMMA IdleIsServed == Gateway!Idle \in GatewayEntry /\ Served(Gateway!Idle)
  BY DEF Gateway!Idle, GatewayEntry, Gateway!AgentContext, Gateway!Steps, Gateway!Classes, Served

LEMMA GatewayMovesStep ==
  ASSUME Gateway!IInv, NEW r \in Runs,
         Gateway!RalphBegins(r) \/ Gateway!CallFails(r) \/ Gateway!Retries(r)
  PROVE  Gateway!IInv'
<1>1. UNCHANGED << v1, v3, v4, v5, v6 >>
  BY DEF Gateway!RalphBegins, Gateway!CallFails, Gateway!Retries
<1>2. CASE Gateway!RalphBegins(r)
  <2> DEFINE e == [ at |-> "ralph", context |-> v2[r].context, class |-> v2[r].class ]
  <2>1. e = [ v2[r] EXCEPT !.at = "ralph" ]
    BY DEF Gateway!IInv, Gateway!TypeOK
  <2>2. v2' = [ v2 EXCEPT ![r] = e ]
    BY <1>2, <2>1 DEF Gateway!RalphBegins
  <2>3. e \in GatewayEntry /\ Served(e)
    BY DEF Gateway!IInv, Gateway!TypeOK, GatewayEntry, Served
  <2> QED
    BY <1>1, <2>2, <2>3, GatewayRunStep
<1>3. CASE Gateway!CallFails(r) \/ Gateway!Retries(r)
  BY <1>1, <1>3, IdleIsServed, GatewayRunStep DEF Gateway!CallFails, Gateway!Retries
<1> QED
  BY <1>2, <1>3

\* A booking is made in both books or in none, and within both limits.
LEMMA BooksBoth ==
  ASSUME Gateway!ModelGatewayAssumption, Gateway!IInv, NEW step \in Gateway!Steps,
         NEW cost \in Nat, Gateway!Books(step, cost)
  PROVE  /\ v3' \in 0..Limit /\ v4' \in [ Gateway!Steps -> 0..StepCap ]
         /\ Gateway!BooksAgree'
<1>1. CASE Gateway!Refused(step, cost)
  BY <1>1 DEF Gateway!Books, Gateway!IInv, Gateway!TypeOK, Gateway!BooksAgree
<1>2. CASE ~Gateway!Refused(step, cost)
  <2>1. /\ v3' = v3 + cost /\ v4' = [ v4 EXCEPT ![step] = v4[step] + cost ]
        /\ v3 + cost <= Limit /\ v4[step] + cost <= StepCap
    BY <1>2
    DEF Gateway!Books, Gateway!Refused, Gateway!IInv, Gateway!TypeOK,
        Gateway!ModelGatewayAssumption
  <2>2. v3' \in 0..Limit /\ v4[step] + cost \in 0..StepCap
    BY <2>1 DEF Gateway!IInv, Gateway!TypeOK, Gateway!ModelGatewayAssumption
  <2>3. v4' \in [ Gateway!Steps -> 0..StepCap ]
    BY <2>1, <2>2 DEF Gateway!IInv, Gateway!TypeOK
  <2>4. \A s \in Gateway!Steps : v4[s] \in Nat
    BY DEF Gateway!IInv, Gateway!TypeOK
  <2>5. \A s \in Gateway!Steps : v4'[s] = IF s = step THEN v4[s] + cost ELSE v4[s]
    BY <2>1 DEF Gateway!IInv, Gateway!TypeOK
  <2>6. Gateway!BooksAgree'
    BY <2>1, <2>4, <2>5 DEF Gateway!IInv, Gateway!BooksAgree, Gateway!Steps
  <2> QED
    BY <2>2, <2>3, <2>6
<1> QED
  BY <1>1, <1>2

LEMMA GatewayAnswersStep ==
  ASSUME Gateway!ModelGatewayAssumption, Gateway!IInv, NEW r \in Runs, NEW cost \in Costs,
         Gateway!Answers(r, cost)
  PROVE  Gateway!IInv'
<1> DEFINE step == v2[r].context.step
<1>1. step \in Gateway!Steps /\ cost \in Nat /\ v2[r] \in GatewayEntry
  BY DEF Gateway!IInv, Gateway!TypeOK, GatewayEntry, Gateway!AgentContext,
         Gateway!ModelGatewayAssumption
<1>2. Gateway!Books(step, cost)
  BY DEF Gateway!Answers
<1>3. v3' \in 0..Limit /\ v4' \in [ Gateway!Steps -> 0..StepCap ] /\ Gateway!BooksAgree'
  BY <1>1, <1>2, BooksBoth
<1>4. v5' \in Nat /\ v6' \in Nat /\ v1' = v1
  BY <1>1 DEF Gateway!Answers, Gateway!IInv, Gateway!TypeOK
<1>5. PICK e \in GatewayEntry : v2' = [ v2 EXCEPT ![r] = e ] /\ Served(e)
  <2> DEFINE raised == [ at |-> "raised", context |-> v2[r].context, class |-> v2[r].class ]
  <2>1. raised \in GatewayEntry /\ Served(raised)
    BY <1>1 DEF GatewayEntry, Served
  <2>2. raised = [ v2[r] EXCEPT !.at = "raised" ]
    BY <1>1 DEF GatewayEntry
  <2> HIDE DEF raised
  <2>3. v2' = [ v2 EXCEPT ![r] = raised ] \/ v2' = [ v2 EXCEPT ![r] = Gateway!Idle ]
    BY <2>2 DEF Gateway!Answers, Gateway!IInv, Gateway!TypeOK
  <2> QED
    BY <2>1, <2>3, IdleIsServed
<1>6. v2' \in [ Runs -> GatewayEntry ]
  BY <1>5 DEF Gateway!IInv, Gateway!TypeOK, GatewayEntry
<1>7. Gateway!TypeOK'
  BY <1>3, <1>4, <1>6 DEF Gateway!IInv, Gateway!TypeOK, GatewayEntry
<1>8. ASSUME NEW s \in Runs PROVE Served(v2'[s])
  BY <1>5 DEF Gateway!IInv, Gateway!TypeOK, Gateway!SensitiveIsStrong, Served, IsSensitive
<1>9. Gateway!SensitiveIsStrong'
  BY <1>8 DEF Gateway!SensitiveIsStrong, Served, IsSensitive
<1> QED
  BY <1>3, <1>7, <1>9 DEF Gateway!IInv

LEMMA GatewayInvNext ==
  ASSUME Gateway!ModelGatewayAssumption, Gateway!IInv, [Gateway!Next]_Gateway!vars
  PROVE  Gateway!IInv'
<1>1. CASE UNCHANGED Gateway!vars
  BY <1>1
  DEF Gateway!vars, Gateway!IInv, Gateway!TypeOK, Gateway!BooksAgree, Gateway!SensitiveIsStrong
<1>2. CASE \E p \in Providers : Gateway!Switches(p)
  <2>1. v1' \subseteq Providers /\ UNCHANGED << v2, v3, v4, v5, v6 >>
    BY <1>2 DEF Gateway!Switches, Gateway!IInv, Gateway!TypeOK
  <2> QED
    BY <2>1 DEF Gateway!IInv, Gateway!TypeOK, Gateway!BooksAgree, Gateway!SensitiveIsStrong
<1> QED
  BY <1>1, <1>2, GatewayBeginsStep, GatewayMovesStep, GatewayAnswersStep DEF Gateway!Next

LEMMA GatewaySteps ==
  ASSUME focus = "gateway", [Next]_v
  PROVE  focus' = "gateway" /\ [Gateway!Next]_Gateway!vars
  BY DEF Next, v, Gateway!vars, Kept6

LEMMA GatewayInvariant == Spec => [](focus = "gateway" => Gateway!IInv)
<1> DEFINE Inv == focus = "gateway" => Gateway!IInv
<1>1. Init => Inv
  BY GatewayAssumption, GatewayInvInit DEF Init
<1>2. Inv /\ [Next]_v => Inv'
  BY GatewayAssumption, GatewayInvNext, GatewaySteps, FocusStays
<1> QED
  BY <1>1, <1>2, PTL DEF Spec

(***************************************************************************)
(* Budget: Spend, the checks that react to it and the tasks that they      *)
(* pause.  What the last message has not told yet its check is about to    *)
(* do. The variables: v1 budgeted, v2 task, v3 spend, v4 messages, v5      *)
(* config, v6 checker, v7 activated, v8 routing, v9 excused, v10           *)
(* uncounted, v11 troubles.                                                *)
(***************************************************************************)

\* What the invariant says of pauses and cheaper models, of the spend and the cap as
\* they are.
Reached == Spending!Exceeded(v5, v3)
IsNear == v3 > 0 /\ Spending!Near(v5, v3)

\* A cap that is set is a number, and so is the lack of one.
LEMMA CapIsNumber ==
  ASSUME Spending!BudgetAssumption, NEW c \in Spending!IsConfig
  PROVE  c.cap \in Nat
<1>1. c.cap \in Caps \cup {Spending!NoCap}
  BY DEF Spending!IsConfig
<1>2. Caps \subseteq Nat /\ Spending!NoCap \in Nat
  BY DEF Spending!BudgetAssumption, Spending!NoCap
<1> QED
  BY <1>1, <1>2

LEMMA SpendingInvInit == ASSUME Spending!BudgetAssumption, Spending!Init PROVE Spending!IInv
<1>1. v5 \in Spending!IsConfig
  <2>1. Spending!Default \in Spending!IsConfig
    BY DEF Spending!Default, Spending!IsConfig
  <2>2. ASSUME NEW c \in Caps
        PROVE  [ cap |-> c, pause |-> TRUE, downgrade |-> TRUE ] \in Spending!IsConfig
    BY DEF Spending!IsConfig
  <2>3. v5
          \in { Spending!Default } \cup { [ cap |-> c, pause |-> TRUE, downgrade |-> TRUE ] : c \in Caps }
    BY DEF Spending!Init
  <2> QED
    BY <2>1, <2>2, <2>3
<1>2. Spending!Idle
        \in [ at : { "idle", "load", "cap", "signal", "near" }, config : Spending!IsConfig,
                 spend : 0..MaxSpend, todo : SUBSET Tasks ]
  BY DEF Spending!Idle, Spending!Default, Spending!IsConfig, Spending!BudgetAssumption
<1>3. Spending!TypeOK
  <2>1. v2 \in [ Tasks -> [ status : { "triage", "active", "over" }, paused : BOOLEAN ] ]
    BY DEF Spending!Init
  <2>2. /\ v3 \in 0..MaxSpend /\ v4 \in 0..MaxSpend /\ v11 \in 0..MaxBudgetTroubles
        /\ v1 \subseteq Tasks /\ v9 \subseteq Tasks
    BY DEF Spending!Init, Spending!BudgetAssumption
  <2> QED
    BY <1>1, <1>2, <2>1, <2>2 DEF Spending!Init, Spending!TypeOK
<1>4. ~Reached /\ ~IsNear
  <2>1. v3 = 0 /\ v5.cap \in Nat
    BY <1>1, CapIsNumber DEF Spending!Init
  <2> QED
    BY <2>1 DEF Reached, Spending!Exceeded, IsNear, Spending!NoCap
<1> QED
  BY <1>3, <1>4
  DEF Spending!Init, Spending!IInv, Spending!CheckOK, Spending!PausesOK, Spending!RoutingOK,
      Spending!Idle, Reached, IsNear

\* The invariant after a step, from what the step makes of its parts.
LEMMA PausesStep ==
  ASSUME Spending!IInv, UNCHANGED << v2, v6 >>, v9 \subseteq v9',
         Spending!LastAt({ "signal", "near" })' /\ Reached' =>
           v9' = Tasks \/ (Spending!LastAt({ "signal", "near" }) /\ Reached)
  PROVE  Spending!PausesOK'
  BY DEF Spending!IInv, Spending!PausesOK, Reached

\* The comparison of the spend with a share of the cap is monotone.
LEMMA Scales == ASSUME NEW less \in Nat, NEW more \in Nat, NEW x \in Nat, less <= more
  PROVE  less * 100 >= x => more * 100 >= x
  OBVIOUS

\* Spend that is no more than it was is no nearer to the cap.
LEMMA LessIsNoNearer ==
  ASSUME Spending!BudgetAssumption, Spending!IInv, v5' = v5, v3' \in Nat, v3' <= v3
  PROVE  (Reached' => Reached) /\ (IsNear' => IsNear)
<1>1. v5.cap \in Nat /\ v3 \in Nat
  BY CapIsNumber DEF Spending!IInv, Spending!TypeOK, Spending!BudgetAssumption
<1>2. Reached' => Reached
  BY <1>1 DEF Reached, Spending!Exceeded
<1>3. IsNear' => IsNear
  <2>1. v5.cap * Percent \in Nat
    BY <1>1 DEF Spending!BudgetAssumption
  <2>2. v3' * 100 >= v5.cap * Percent => v3 * 100 >= v5.cap * Percent
    BY <1>1, <2>1, Scales
  <2>3. v3' > 0 => v3 > 0
    BY <1>1
  <2> QED
    BY <2>2, <2>3 DEF IsNear, Spending!Near
<1> QED
  BY <1>2, <1>3

LEMMA TroubleStep == ASSUME Spending!BudgetAssumption, Spending!IInv
  PROVE  (Spending!Trouble \/ UNCHANGED v11) => v11' \in 0..MaxBudgetTroubles
  BY DEF Spending!Trouble, Spending!IInv, Spending!TypeOK, Spending!BudgetAssumption

\* A call is announced, and then it is not the last message that is checked, or
\* everything is excused.
LEMMA CallsStep ==
  ASSUME Spending!BudgetAssumption, Spending!IInv, NEW t \in Tasks,
         Spending!Calls(t) \/ Spending!CallsUnheard(t)
  PROVE  Spending!IInv'
<1>1. /\ v3' = v3 + 1 /\ v3 < MaxSpend
      /\ UNCHANGED << v1, v2, v5, v6, v7, v8 >>
  BY DEF Spending!Calls, Spending!CallsUnheard
<1>2. \/ v4' = v4 + 1 /\ v4 < MaxSpend /\ UNCHANGED << v9, v10 >>
      \/ v9' = Tasks /\ v10' = TRUE /\ v4' = v4
  BY DEF Spending!Calls, Spending!CallsUnheard
<1>3. v11' \in 0..MaxBudgetTroubles
  BY TroubleStep DEF Spending!Calls, Spending!CallsUnheard
<1>4. v3' \in 0..MaxSpend /\ v4' \in 0..MaxSpend
  BY <1>1, <1>2 DEF Spending!IInv, Spending!TypeOK, Spending!BudgetAssumption
<1>5. Spending!TypeOK'
  BY <1>1, <1>2, <1>3, <1>4 DEF Spending!IInv, Spending!TypeOK
<1>6. Spending!CheckOK'
  BY <1>1, <1>2 DEF Spending!IInv, Spending!CheckOK, Spending!TypeOK
<1>7. CASE v4' = v4 + 1 /\ UNCHANGED << v9, v10 >>
  <2>1. ~Spending!LastAt({ "cap", "signal", "near" })' /\ ~Spending!LastAt({ "signal", "near" })'
    BY <1>1, <1>7 DEF Spending!LastAt, Spending!IInv, Spending!CheckOK, Spending!TypeOK
  <2> QED
    BY <1>1, <1>5, <1>6, <1>7, <2>1 DEF Spending!IInv, Spending!PausesOK, Spending!RoutingOK
<1>8. CASE v9' = Tasks /\ v10' = TRUE
  BY <1>5, <1>6, <1>8 DEF Spending!IInv, Spending!PausesOK, Spending!RoutingOK
<1> QED
  BY <1>2, <1>7, <1>8

LEMMA AgesStep ==
  ASSUME Spending!BudgetAssumption, Spending!IInv, Spending!Ages
  PROVE  Spending!IInv'
<1>1. /\ v3' = v3 - 1 /\ v3 > 0
      /\ UNCHANGED << v1, v2, v4, v5, v6, v7, v8,
                      v9, v10, v11 >>
  BY DEF Spending!Ages
<1>2. v3' \in 0..MaxSpend /\ v3' \in Nat /\ v3' <= v3
  BY <1>1 DEF Spending!IInv, Spending!TypeOK, Spending!BudgetAssumption
<1>3. (Reached' => Reached) /\ (IsNear' => IsNear)
  BY <1>1, <1>2, LessIsNoNearer
<1>4. Spending!TypeOK' /\ Spending!CheckOK'
  BY <1>1, <1>2 DEF Spending!IInv, Spending!TypeOK, Spending!CheckOK
<1>5. Spending!LastAt({ "signal", "near" })' = Spending!LastAt({ "signal", "near" })
      /\ Spending!LastAt({ "cap", "signal", "near" })'
           = Spending!LastAt({ "cap", "signal", "near" })
      /\ Spending!Enables' = Spending!Enables
  BY <1>1 DEF Spending!LastAt, Spending!Enables, Spending!Near
<1>6. Spending!PausesOK'
  BY <1>1, <1>3, <1>5 DEF Spending!IInv, Spending!PausesOK, Reached
<1>7. Spending!RoutingOK'
  BY <1>1, <1>3, <1>5 DEF Spending!IInv, Spending!RoutingOK, IsNear
<1> QED
  BY <1>4, <1>6, <1>7 DEF Spending!IInv

\* A task begins or ends, or is resumed: it is excused.
LEMMA TaskStep ==
  ASSUME Spending!BudgetAssumption, Spending!IInv, NEW t \in Tasks,
         Spending!Moves(t) \/ Spending!Resumes(t)
  PROVE  Spending!IInv'
<1>1. /\ v9' = v9 \cup {t}
      /\ UNCHANGED << v1, v3, v4, v5, v6, v7, v8, v10 >>
  BY DEF Spending!Moves, Spending!Resumes
<1>2. /\ v2' \in [ Tasks -> [ status : { "triage", "active", "over" }, paused : BOOLEAN ] ]
      /\ \A u \in Tasks : u # t => v2'[u] = v2[u]
  <2>1. PICK st \in { "triage", "active", "over" }, p \in BOOLEAN :
          v2' = [ v2 EXCEPT ![t] = [ status |-> st, paused |-> p ] ]
    <3>1. v2[t] = [ status |-> v2[t].status, paused |-> v2[t].paused ]
          /\ v2[t].status \in { "triage", "active", "over" } /\ v2[t].paused \in BOOLEAN
      BY DEF Spending!IInv, Spending!TypeOK
    <3>2. CASE v2' = [ v2 EXCEPT ![t].paused = FALSE ]
      <4> DEFINE no == FALSE
      <4>1. no \in BOOLEAN /\ v2' = [ v2 EXCEPT ![t].paused = no ]
        BY <3>2
      <4> HIDE DEF no
      <4>2. /\ v2'[t] = [ status |-> v2[t].status, paused |-> no ]
            /\ v2' = [ v2 EXCEPT ![t] = v2'[t] ]
        BY <4>1 DEF Spending!IInv, Spending!TypeOK
      <4> QED
        BY <3>1, <4>1, <4>2
    <3>3. CASE v2' = [ v2 EXCEPT ![t].status = "active" ]
                 \/ v2' = [ v2 EXCEPT ![t].status = "over" ]
      BY <3>1, <3>3 DEF Spending!IInv, Spending!TypeOK
    <3> QED
      BY <3>2, <3>3 DEF Spending!Moves, Spending!Resumes
  <2> QED
    BY <2>1 DEF Spending!IInv, Spending!TypeOK
<1>3. v11' \in 0..MaxBudgetTroubles
  BY TroubleStep DEF Spending!Moves, Spending!Resumes
<1>4. Spending!TypeOK' /\ Spending!CheckOK'
  BY <1>1, <1>2, <1>3 DEF Spending!IInv, Spending!TypeOK, Spending!CheckOK
<1>5. Spending!LastAt({ "signal", "near" })' = Spending!LastAt({ "signal", "near" })
      /\ Spending!LastAt({ "cap", "signal", "near" })'
           = Spending!LastAt({ "cap", "signal", "near" })
      /\ Spending!Enables' = Spending!Enables
  BY <1>1 DEF Spending!LastAt, Spending!Enables, Spending!Near
<1>6. Spending!PausesOK'
  BY <1>1, <1>2, <1>5 DEF Spending!IInv, Spending!PausesOK, Spending!Exceeded
<1>7. Spending!RoutingOK'
  BY <1>1, <1>5 DEF Spending!IInv, Spending!RoutingOK, Spending!Near
<1> QED
  BY <1>4, <1>6, <1>7 DEF Spending!IInv

LEMMA AdministratorsStep ==
  ASSUME Spending!BudgetAssumption, Spending!IInv, Spending!PutConfig \/ Spending!SwitchesOff
  PROVE  Spending!IInv'
<1>1. /\ UNCHANGED << v1, v2, v3, v4, v6, v7 >>
      /\ v10' = TRUE
      /\ v8' \in BOOLEAN
  BY DEF Spending!PutConfig, Spending!SwitchesOff, Spending!IInv, Spending!TypeOK
<1>2. \/ v9' = Tasks /\ v5' \in Spending!Updated
      \/ v9' = v9 /\ v5' = v5
  BY DEF Spending!PutConfig, Spending!SwitchesOff
<1>3. v5' \in Spending!IsConfig
  BY <1>2 DEF Spending!Updated, Spending!IsConfig, Spending!IInv, Spending!TypeOK
<1>4. v11' \in 0..MaxBudgetTroubles
  BY TroubleStep DEF Spending!PutConfig, Spending!SwitchesOff
<1>5. Spending!TypeOK' /\ Spending!CheckOK'
  BY <1>1, <1>2, <1>3, <1>4 DEF Spending!IInv, Spending!TypeOK, Spending!CheckOK
<1>6. Spending!PausesOK'
  BY <1>1, <1>2 DEF Spending!IInv, Spending!PausesOK, Spending!LastAt, Spending!Exceeded
<1>7. Spending!RoutingOK'
  BY <1>1 DEF Spending!RoutingOK
<1> QED
  BY <1>5, <1>6, <1>7 DEF Spending!IInv

LEMMA SpendingReceivesStep ==
  ASSUME Spending!BudgetAssumption, Spending!IInv, Spending!Receives
  PROVE  Spending!IInv'
<1>1. /\ v6.at = "idle" /\ v4 > 0
      /\ v6' = [ at |-> "load", config |-> Spending!Default, spend |-> 0, todo |-> {} ]
      /\ UNCHANGED << v1, v2, v3, v4, v5, v7, v8,
                      v9, v10, v11 >>
  BY DEF Spending!Receives, Spending!Idle
<1>2. v6' \in [ at : { "idle", "load", "cap", "signal", "near" }, config : Spending!IsConfig,
                     spend : 0..MaxSpend, todo : SUBSET Tasks ]
  BY <1>1 DEF Spending!IsConfig, Spending!Default, Spending!BudgetAssumption
<1>3. Spending!TypeOK' /\ Spending!CheckOK'
  BY <1>1, <1>2 DEF Spending!IInv, Spending!TypeOK, Spending!CheckOK
<1>4. ~Spending!LastAt({ "cap", "signal", "near" })' /\ ~Spending!LastAt({ "signal", "near" })'
  BY <1>1 DEF Spending!LastAt, Spending!IInv, Spending!TypeOK
<1> QED
  BY <1>1, <1>3, <1>4 DEF Spending!IInv, Spending!PausesOK, Spending!RoutingOK

LEMMA LoadsStep ==
  ASSUME Spending!BudgetAssumption, Spending!IInv, Spending!Loads
  PROVE  Spending!IInv'
<1>1. /\ v6.at = "load"
      /\ v6' = [ at |-> IF Spending!Exceeded(v5, v3) THEN "cap" ELSE "near",
                      config |-> v5, spend |-> v3, todo |-> {} ]
      /\ v10' = (v10 /\ v7)
      /\ v9' = IF Spending!Exceeded(v5, v3) THEN v9 ELSE {}
      /\ UNCHANGED << v1, v2, v3, v4, v5, v7, v8, v11 >>
  BY DEF Spending!Loads
<1>2. v6' \in [ at : { "idle", "load", "cap", "signal", "near" }, config : Spending!IsConfig,
                     spend : 0..MaxSpend, todo : SUBSET Tasks ]
  BY <1>1 DEF Spending!IInv, Spending!TypeOK
<1>3. Spending!TypeOK' /\ Spending!CheckOK'
  BY <1>1, <1>2 DEF Spending!IInv, Spending!TypeOK, Spending!CheckOK
<1>4. Spending!PausesOK'
  <2>1. CASE Spending!Exceeded(v5, v3)
    <3>1. v6'.at = "cap" /\ v4' > 0
      BY <1>1, <2>1 DEF Spending!IInv, Spending!CheckOK
    <3> QED
      BY <3>1 DEF Spending!PausesOK, Spending!LastAt
  <2>2. CASE ~Spending!Exceeded(v5, v3)
    BY <1>1, <2>2 DEF Spending!PausesOK, Spending!Exceeded
  <2> QED
    BY <2>1, <2>2
<1>5. Spending!RoutingOK'
  <2>1. CASE v7
    BY <1>1, <2>1 DEF Spending!IInv, Spending!RoutingOK, Spending!TypeOK
  <2>2. CASE ~v7
    <3>1. v6'.at # "idle" /\ ~v7' /\ v6'.config = v5 /\ v6'.spend = v3
      BY <1>1, <2>2
    <3>2. Spending!Near(v5, v3)' => Spending!Enables'
      BY <1>1, <3>1 DEF Spending!Enables, Spending!Near
    <3> QED
      BY <3>1, <3>2 DEF Spending!RoutingOK
  <2> QED
    BY <2>1, <2>2
<1> QED
  BY <1>3, <1>4, <1>5 DEF Spending!IInv

\* The steps of a check after it has read the spend, but for its last.
LEMMA SpendingGoesOn ==
  ASSUME Spending!BudgetAssumption, Spending!IInv, v6.at \in { "cap", "signal" },
         v6'.at \in { "cap", "signal", "near" },
         v6'.config = v6.config, v6'.spend = v6.spend,
         v6' \in [ at : { "idle", "load", "cap", "signal", "near" }, config : Spending!IsConfig,
                        spend : 0..MaxSpend, todo : SUBSET Tasks ],
         v6'.at = "signal" \/ v6'.todo = {},
         UNCHANGED << v1, v3, v4, v5, v7, v8, v10 >>,
         v2' \in [ Tasks -> [ status : { "triage", "active", "over" }, paused : BOOLEAN ] ],
         v9' \subseteq Tasks, v11' \in 0..MaxBudgetTroubles, Spending!PausesOK'
  PROVE  Spending!IInv'
<1>1. Spending!TypeOK'
  BY DEF Spending!IInv, Spending!TypeOK
<1>2. v4 > 0
  BY DEF Spending!IInv, Spending!CheckOK
<1>3. Spending!CheckOK'
  BY <1>2 DEF Spending!CheckOK
<1>4. Spending!Enables' = Spending!Enables
  BY DEF Spending!Enables, Spending!Near
<1>5. Spending!Near(v5, v3)' = Spending!Near(v5, v3) /\ v4' = v4
  BY DEF Spending!Near
<1>6. Spending!RoutingOK'
  BY <1>2, <1>4, <1>5 DEF Spending!IInv, Spending!RoutingOK, Spending!LastAt
<1> QED
  BY <1>1, <1>3, <1>6 DEF Spending!IInv

LEMMA SelectsStep ==
  ASSUME Spending!BudgetAssumption, Spending!IInv, Spending!Selects
  PROVE  Spending!IInv'
<1> DEFINE todo == { t \in Tasks : v2[t].status = "active" }
<1>1. /\ v6.at = "cap" /\ v9' = {} /\ UNCHANGED << v2, v11 >>
      /\ UNCHANGED << v1, v3, v4, v5, v7, v8, v10 >>
  BY DEF Spending!Selects
<1>2. v6' = [ at |-> "signal", config |-> v6.config, spend |-> v6.spend,
                   todo |-> todo ]
  BY DEF Spending!Selects, Spending!IInv, Spending!TypeOK
<1>3. v6' \in [ at : { "idle", "load", "cap", "signal", "near" }, config : Spending!IsConfig,
                     spend : 0..MaxSpend, todo : SUBSET Tasks ]
  BY <1>2 DEF Spending!IInv, Spending!TypeOK
<1>4. Spending!PausesOK'
  BY <1>1, <1>2 DEF Spending!PausesOK
<1>5. /\ v2' \in [ Tasks -> [ status : { "triage", "active", "over" }, paused : BOOLEAN ] ]
      /\ v9' \subseteq Tasks /\ v11' \in 0..MaxBudgetTroubles
  BY <1>1 DEF Spending!IInv, Spending!TypeOK
<1>6. v6'.at = "signal" /\ v6'.config = v6.config /\ v6'.spend = v6.spend
  BY <1>2
<1> QED
  BY <1>1, <1>3, <1>4, <1>5, <1>6, SpendingGoesOn

LEMMA NoClientStep ==
  ASSUME Spending!BudgetAssumption, Spending!IInv, Spending!NoClient
  PROVE  Spending!IInv'
<1>1. /\ v6.at = "cap" /\ v9' = Tasks /\ UNCHANGED v2
      /\ UNCHANGED << v1, v3, v4, v5, v7, v8, v10 >>
  BY DEF Spending!NoClient
<1>2. v6' = [ at |-> "near", config |-> v6.config, spend |-> v6.spend,
                   todo |-> v6.todo ]
  BY DEF Spending!NoClient, Spending!IInv, Spending!TypeOK
<1>3. v6.todo = {}
  BY <1>1 DEF Spending!IInv, Spending!CheckOK
<1>4. v6' \in [ at : { "idle", "load", "cap", "signal", "near" }, config : Spending!IsConfig,
                     spend : 0..MaxSpend, todo : SUBSET Tasks ]
  BY <1>2 DEF Spending!IInv, Spending!TypeOK
<1>5. Spending!PausesOK'
  BY <1>1 DEF Spending!PausesOK
<1>6. /\ v2' \in [ Tasks -> [ status : { "triage", "active", "over" }, paused : BOOLEAN ] ]
      /\ v9' \subseteq Tasks
  BY <1>1 DEF Spending!IInv, Spending!TypeOK
<1>7. v11' \in 0..MaxBudgetTroubles
  BY TroubleStep DEF Spending!NoClient
<1>8. v6'.at = "near" /\ v6'.config = v6.config /\ v6'.spend = v6.spend
      /\ v6'.todo = {}
  BY <1>2, <1>3
<1> QED
  BY <1>1, <1>4, <1>5, <1>6, <1>7, <1>8, SpendingGoesOn

\* A signal is sent or fails, or all are sent: who is done with is paused or excused.
LEMMA SignalsStep ==
  ASSUME Spending!BudgetAssumption, Spending!IInv, NEW t \in Tasks,
         Spending!Signals(t) \/ Spending!SignalFails(t)
  PROVE  Spending!IInv'
<1>1. /\ v6.at = "signal" /\ t \in v6.todo
      /\ UNCHANGED << v1, v3, v4, v5, v7, v8, v10 >>
  BY DEF Spending!Signals, Spending!SignalFails
<1>2. v6' = [ at |-> v6.at, config |-> v6.config, spend |-> v6.spend,
                   todo |-> v6.todo \ {t} ]
  BY DEF Spending!Signals, Spending!SignalFails, Spending!IInv, Spending!TypeOK
<1>3. v6' \in [ at : { "idle", "load", "cap", "signal", "near" }, config : Spending!IsConfig,
                     spend : 0..MaxSpend, todo : SUBSET Tasks ]
  BY <1>2 DEF Spending!IInv, Spending!TypeOK
<1>4. /\ v2' \in [ Tasks -> [ status : { "triage", "active", "over" }, paused : BOOLEAN ] ]
      /\ \A u \in Tasks : u # t => v2'[u] = v2[u]
      /\ v9' \in { v9, v9 \cup {t} }
      /\ (v2'[t].status = "active" => v2'[t].paused) \/ t \in v9'
  <2>1. CASE Spending!Signals(t)
    <3> DEFINE active == v2[t].status = "active"
    <3>1. v2' = [ v2 EXCEPT ![t].paused = active ] /\ v9' = v9
      BY <2>1 DEF Spending!Signals
    <3>2. active \in BOOLEAN /\ v2[t].status \in { "triage", "active", "over" }
      BY DEF Spending!IInv, Spending!TypeOK
    <3>3. v2'[t] = [ status |-> v2[t].status, paused |-> active ]
      BY <3>1 DEF Spending!IInv, Spending!TypeOK
    <3>4. v2'[t].status = "active" => v2'[t].paused
      <4>1. v2'[t].paused = active /\ v2'[t].status = v2[t].status
        BY <3>3
      <4>2. CASE active = TRUE
        BY <4>1, <4>2
      <4>3. CASE active = FALSE
        BY <4>1, <4>3
      <4> QED
        BY <3>2, <4>2, <4>3
    <3>5. \A u \in Tasks : u # t => v2'[u] = v2[u]
      BY <3>1 DEF Spending!IInv, Spending!TypeOK
    <3>6. v2'[t] \in [ status : { "triage", "active", "over" }, paused : BOOLEAN ]
      BY <3>2, <3>3
    <3>7. v2' = [ v2 EXCEPT ![t] = v2'[t] ]
      BY <3>1 DEF Spending!IInv, Spending!TypeOK
    <3>8. v2' \in [ Tasks -> [ status : { "triage", "active", "over" }, paused : BOOLEAN ] ]
      BY <3>6, <3>7 DEF Spending!IInv, Spending!TypeOK
    <3> QED
      BY <3>1, <3>4, <3>5, <3>8
  <2>2. CASE Spending!SignalFails(t)
    BY <2>2 DEF Spending!SignalFails, Spending!IInv, Spending!TypeOK
  <2> QED
    BY <2>1, <2>2
<1>5. Spending!PausesOK'
  <2>1. Spending!LastAt({ "signal", "near" })' = Spending!LastAt({ "signal", "near" })
        /\ Spending!Exceeded(v5, v3)' = Spending!Exceeded(v5, v3)
    BY <1>1, <1>2 DEF Spending!LastAt, Spending!Exceeded
  <2> QED
    BY <1>2, <1>4, <2>1 DEF Spending!IInv, Spending!PausesOK
<1>6. v9' \subseteq Tasks
  BY <1>4 DEF Spending!IInv, Spending!TypeOK
<1>7. v11' \in 0..MaxBudgetTroubles
  BY TroubleStep DEF Spending!Signals, Spending!SignalFails
<1>8. v6'.at = "signal" /\ v6'.config = v6.config /\ v6'.spend = v6.spend
  BY <1>1, <1>2
<1> QED
  BY <1>1, <1>3, <1>4, <1>5, <1>6, <1>7, <1>8, SpendingGoesOn

LEMMA SignalledStep ==
  ASSUME Spending!BudgetAssumption, Spending!IInv, Spending!Signalled
  PROVE  Spending!IInv'
<1>1. /\ v6.at = "signal" /\ v6.todo = {} /\ UNCHANGED << v2, v9, v11 >>
      /\ UNCHANGED << v1, v3, v4, v5, v7, v8, v10 >>
  BY DEF Spending!Signalled
<1>2. v6' = [ at |-> "near", config |-> v6.config, spend |-> v6.spend, todo |-> {} ]
  BY <1>1 DEF Spending!Signalled, Spending!IInv, Spending!TypeOK
<1>3. v6' \in [ at : { "idle", "load", "cap", "signal", "near" }, config : Spending!IsConfig,
                     spend : 0..MaxSpend, todo : SUBSET Tasks ]
  BY <1>2 DEF Spending!IInv, Spending!TypeOK
<1>4. Spending!PausesOK'
  BY <1>1, <1>2 DEF Spending!IInv, Spending!PausesOK, Spending!LastAt, Spending!Exceeded
<1>5. /\ v2' \in [ Tasks -> [ status : { "triage", "active", "over" }, paused : BOOLEAN ] ]
      /\ v9' \subseteq Tasks /\ v11' \in 0..MaxBudgetTroubles
  BY <1>1 DEF Spending!IInv, Spending!TypeOK
<1>6. v6'.at = "near" /\ v6'.config = v6.config /\ v6'.spend = v6.spend
      /\ v6'.todo = {}
  BY <1>2
<1> QED
  BY <1>1, <1>3, <1>4, <1>5, <1>6, SpendingGoesOn

\* The ends of a check: its message is acknowledged.
LEMMA SpendingEndsStep ==
  ASSUME Spending!BudgetAssumption, Spending!IInv,
         Spending!Downgrades \/ Spending!DowngradeFails \/ Spending!CheckFails
  PROVE  Spending!IInv'
<1>1. /\ UNCHANGED << v1, v2, v3, v5 >> /\ v6.at # "idle"
      /\ v4' = v4 - 1 /\ v6' = Spending!Idle
  BY DEF Spending!Downgrades, Spending!DowngradeFails, Spending!CheckFails, Spending!Acks
<1>2. v4 > 0 /\ v4' \in 0..MaxSpend
  BY <1>1 DEF Spending!IInv, Spending!CheckOK, Spending!TypeOK, Spending!BudgetAssumption
<1>3. Spending!Idle
        \in [ at : { "idle", "load", "cap", "signal", "near" }, config : Spending!IsConfig,
                 spend : 0..MaxSpend, todo : SUBSET Tasks ]
      /\ Spending!Idle.at = "idle" /\ Spending!Idle.todo = {}
  BY DEF Spending!Idle, Spending!Default, Spending!IsConfig, Spending!BudgetAssumption
<1>4. v7' \in BOOLEAN /\ v8' \in BOOLEAN /\ v10' \in BOOLEAN
      /\ v9' \subseteq Tasks
  BY DEF Spending!Downgrades, Spending!DowngradeFails, Spending!CheckFails, Spending!IInv,
         Spending!TypeOK
<1>5. v11' \in 0..MaxBudgetTroubles
  BY TroubleStep DEF Spending!Downgrades, Spending!DowngradeFails, Spending!CheckFails
<1>6. Spending!TypeOK'
  BY <1>1, <1>2, <1>3, <1>4, <1>5 DEF Spending!IInv, Spending!TypeOK
<1>7. Spending!CheckOK'
  BY <1>1, <1>3 DEF Spending!CheckOK
<1>8. Spending!LastAt({ "signal", "near" })' \/ Spending!LastAt({ "cap", "signal", "near" })'
        => v4 = 1
  BY <1>1, <1>2, <1>3 DEF Spending!LastAt, Spending!IInv, Spending!TypeOK
<1>9. Spending!Exceeded(v5, v3)' = Spending!Exceeded(v5, v3)
        /\ Spending!Near(v5, v3)' = Spending!Near(v5, v3)
  BY <1>1 DEF Spending!Exceeded, Spending!Near
<1>10. CASE Spending!CheckFails
  BY <1>6, <1>7, <1>10
  DEF Spending!CheckFails, Spending!IInv, Spending!PausesOK, Spending!RoutingOK
<1>11. CASE Spending!Downgrades \/ Spending!DowngradeFails
  <2>1. v6.at = "near" /\ v6.todo = {} /\ UNCHANGED v9
    BY <1>11 DEF Spending!Downgrades, Spending!DowngradeFails, Spending!IInv, Spending!CheckOK
  <2>2. Spending!PausesOK'
    BY <1>1, <1>3, <1>8, <1>9, <2>1 DEF Spending!IInv, Spending!PausesOK, Spending!LastAt
  <2>3. \/ v10'
        \/ /\ v10' <=> v10
           /\ v7' <=> v7 \/ Spending!Enables
           /\ v8' <=> v8 \/ Spending!Enables
    <3>1. CASE Spending!DowngradeFails
      BY <3>1 DEF Spending!DowngradeFails
    <3>2. CASE Spending!Downgrades
      <4>1. Spending!Enables = (~v7 /\ Spending!Near(v6.config, v6.spend))
        BY <2>1 DEF Spending!Enables
      <4> QED
        BY <3>2, <4>1 DEF Spending!Downgrades
    <3> QED
      BY <1>11, <3>1, <3>2
  <2>4. Spending!RoutingOK'
    <3>1. v3' = v3
      BY <1>1
    <3>2. v4 = 1 /\ v3 > 0 /\ Spending!Near(v5, v3) => v8 \/ v10 \/ Spending!Enables
      BY <2>1 DEF Spending!IInv, Spending!RoutingOK, Spending!LastAt
    <3>3. v7 => v8 \/ v10
      BY DEF Spending!IInv, Spending!RoutingOK
    <3>4. v7' => v8' \/ v10'
      BY <2>3, <3>3
    <3>5. v4 = 1 /\ v3 > 0 /\ Spending!Near(v5, v3) => v8' \/ v10'
      BY <2>3, <3>2
    <3> QED
      BY <1>8, <1>9, <3>1, <3>4, <3>5 DEF Spending!RoutingOK
  <2> QED
    BY <1>6, <1>7, <2>2, <2>4 DEF Spending!IInv
<1> QED
  BY <1>10, <1>11

LEMMA SpendingRestartsStep ==
  ASSUME Spending!BudgetAssumption, Spending!IInv, Spending!Restarts
  PROVE  Spending!IInv'
<1>1. /\ v3' = 0 /\ v7' = FALSE /\ v6' = Spending!Idle
      /\ UNCHANGED << v1, v2, v4, v5, v8, v9, v10 >>
  BY DEF Spending!Restarts
<1>2. Spending!Idle
        \in [ at : { "idle", "load", "cap", "signal", "near" }, config : Spending!IsConfig,
                 spend : 0..MaxSpend, todo : SUBSET Tasks ]
      /\ Spending!Idle.at = "idle" /\ Spending!Idle.todo = {}
  BY DEF Spending!Idle, Spending!Default, Spending!IsConfig, Spending!BudgetAssumption
<1>3. v11' \in 0..MaxBudgetTroubles
  BY TroubleStep DEF Spending!Restarts
<1>4. v3' \in 0..MaxSpend
  <2>1. MaxSpend \in Nat /\ v3' = 0
    BY <1>1 DEF Spending!BudgetAssumption
  <2> QED
    BY <2>1
<1>5. Spending!TypeOK' /\ Spending!CheckOK'
  BY <1>1, <1>2, <1>3, <1>4 DEF Spending!IInv, Spending!TypeOK, Spending!CheckOK
<1>6. ~Reached' /\ ~IsNear'
  <2>1. v5' \in Spending!IsConfig /\ v5'.cap \in Nat
    BY <1>1, CapIsNumber DEF Spending!IInv, Spending!TypeOK
  <2> QED
    BY <1>1, <2>1 DEF Reached, Spending!Exceeded, IsNear, Spending!NoCap
<1> QED
  BY <1>1, <1>5, <1>6 DEF Spending!IInv, Spending!PausesOK, Spending!RoutingOK, Reached, IsNear

LEMMA SpendingInvNext ==
  ASSUME Spending!BudgetAssumption, Spending!IInv, [Spending!Next]_Spending!vars
  PROVE  Spending!IInv'
<1>1. CASE UNCHANGED Spending!vars
  BY <1>1
  DEF Spending!vars, Spending!IInv, Spending!TypeOK, Spending!CheckOK, Spending!PausesOK,
      Spending!RoutingOK, Spending!LastAt, Spending!Exceeded, Spending!Near, Spending!Enables
<1> QED
  BY <1>1, CallsStep, AgesStep, TaskStep, AdministratorsStep, SpendingReceivesStep, LoadsStep,
     SelectsStep, NoClientStep, SignalsStep, SignalledStep, SpendingEndsStep,
     SpendingRestartsStep DEF Spending!Next

LEMMA SpendingSteps ==
  ASSUME focus = "spending", [Next]_v
  PROVE  focus' = "spending" /\ [Spending!Next]_Spending!vars
  BY DEF Next, v, Spending!vars, Kept11

LEMMA SpendingInvariant == Spec => [](focus = "spending" => Spending!IInv)
<1> DEFINE Inv == focus = "spending" => Spending!IInv
<1>1. Init => Inv
  BY SpendingAssumption, SpendingInvInit DEF Init
<1>2. Inv /\ [Next]_v => Inv'
  BY SpendingAssumption, SpendingInvNext, SpendingSteps, FocusStays
<1> QED
  BY <1>1, <1>2, PTL DEF Spec

\* A check that is over with no message left has done what it found to do.
LEMMA SpendingIsKept == ASSUME Spending!IInv PROVE Spending!CapIsKept /\ Spending!CheapWhenNear
  BY DEF Spending!IInv, Spending!CheckOK, Spending!PausesOK, Spending!RoutingOK, Spending!LastAt,
     Spending!Exceeded, Spending!Near, Spending!Enables, Spending!Checked, Spending!CapIsKept,
     Spending!CheapWhenNear

\* src/admin/model_gateway.py, src/dashboard/budget_checker.py: for whatever tasks,
\* providers, limits and caps, spend and tokens are booked together, sensitive work gets
\* a strong model or none, and the checks keep to the cap that is set.
THEOREM CallsKeepTheBooks == Spec => []CallsAreSound
<1>1. (focus = "gateway" => Gateway!IInv) /\ (focus = "spending" => Spending!IInv)
      => CallsAreSound
  BY SpendingIsKept DEF CallsAreSound, Gateway!IInv
<1> QED
  BY <1>1, GatewayInvariant, SpendingInvariant, PTL

(***************************************************************************)
(* Console: The list of runs and the pages of the audit log.  A run that   *)
(* is due is listed or a query that finds it is left; a row that is due is *)
(* loaded or is still to be. The variables: v1 part, v2 clock, v3 run, v4  *)
(* listing, v5 owed, v6 was, v7 request, v8 rows, v9 expired, v10 reader,  *)
(* v11 troubles.                                                           *)
(***************************************************************************)

\* The instance has its own finite sets and cardinalities, defined as those
\* that the library's theorems are about.
LEMMA ConsoledFinite ==
  /\ \A S : Consoled!IsFiniteSet(S) = IsFiniteSet(S)
  /\ \A S : Consoled!Cardinality(S) = Cardinality(S)
<1>1. \A S : Consoled!IsFiniteSet(S) = IsFiniteSet(S)
  BY DEF Consoled!IsFiniteSet, IsFiniteSet
<1>2. \A S : Consoled!Cardinality(S) = Cardinality(S)
  BY DEF Consoled!Cardinality, Cardinality
<1> QED
  BY <1>1, <1>2

RunStates == [ status : { "none", "running" } \cup Consoled!Closed, started : 0..MaxClock ]
Listings == [ at : { "none", "asking", "answered", "refused" }, filter : Filters \cup {"all"},
              age : Consoled!Ages, repo : BOOLEAN, now : 0..MaxClock,
              left : Seq({"running"} \cup Consoled!Closed),
              got : SUBSET (Runs \X Consoled!Shown), failed : BOOLEAN ]
Askings == [ at : { "none", "describe", "signal", "flush", "commit",
                    "answered", "not_found", "failed" },
             kind : RunKinds, run : Runs \cup {"none"},
             step : Consoled!Steps \cup {"none"}, stamp : 0..Consoled!Cardinality(Requests) ]
Readers == [ at : { "none", "loading", "done" }, offset : Nat, due : SUBSET Requests,
             got : SUBSET Requests, failed : BOOLEAN ]

\* The type invariant in two parts.
ListTypeOK ==
  /\ v1 \in { "list", "log" } /\ v2 \in 0..MaxClock /\ v11 \in 0..MaxConsoleTroubles
  /\ v3 \in [ Runs -> RunStates ] /\ v4 \in Listings /\ v5 \subseteq Runs
LogTypeOK ==
  /\ v7 \in [ Requests -> Askings ]
  /\ v8 \subseteq Requests /\ v9 \in Nat /\ v10 \in Readers

LEMMA TypeParts == Consoled!TypeOK <=> ListTypeOK /\ LogTypeOK
  BY DEF Consoled!TypeOK, ListTypeOK, LogTypeOK, RunStates, Listings, Askings, Readers,
         Consoled!Shown

LEMMA Together ==
  ASSUME ListTypeOK', LogTypeOK', Consoled!OwedOK', Consoled!LeftOK', Consoled!SeenOK',
         Consoled!RowsOK', Consoled!ReaderOK', Consoled!LogIsWhole'
  PROVE  Consoled!IInv'
<1>1. Consoled!TypeOK'
  BY DEF Consoled!TypeOK, ListTypeOK, LogTypeOK, RunStates, Listings, Askings, Readers,
         Consoled!Shown
<1> QED
  BY <1>1 DEF Consoled!IInv

LEMMA ConsoledInvInit == ASSUME Consoled!ConsoleAssumption, Consoled!Init PROVE Consoled!IInv
<1>1. 0 \in 0..MaxClock /\ 0 \in 0..MaxConsoleTroubles /\ 0 \in 0..Consoled!Cardinality(Requests)
  BY ConsoledFinite, FS_CardinalityType DEF Consoled!ConsoleAssumption
<1>2. Consoled!NoListing \in Listings
  <2>1. "all" \in Filters \cup {"all"} /\ FALSE \in BOOLEAN
          /\ << >> \in Seq({"running"} \cup Consoled!Closed)
        /\ 0 \in Consoled!Ages
    BY DEF Consoled!Ages
  <2> QED
    BY <1>1, <2>1 DEF Consoled!NoListing, Listings
<1>3. Consoled!NoRequest \in Askings
  BY <1>1 DEF Consoled!NoRequest, Askings, Consoled!ConsoleAssumption
<1>4. ListTypeOK
  <2>1. [ status |-> "none", started |-> 0 ] \in RunStates
    BY <1>1 DEF RunStates
  <2> QED
    BY <1>1, <1>2, <2>1 DEF Consoled!Init, ListTypeOK
<1>5. v10 \in Readers
  <2>1. FALSE \in BOOLEAN /\ {} \in SUBSET Requests
    OBVIOUS
  <2> QED
    BY <2>1 DEF Consoled!Init, Readers
<1>6. LogTypeOK
  BY <1>3, <1>5 DEF Consoled!Init, LogTypeOK
<1>7. Consoled!OwedOK /\ Consoled!SeenOK
  BY DEF Consoled!Init, Consoled!OwedOK, Consoled!SeenOK, Consoled!NoListing
<1>8. Consoled!LeftOK
  BY DEF Consoled!Init, Consoled!LeftOK, Consoled!NoListing
<1>9. Consoled!RowsOK /\ Consoled!ReaderOK /\ Consoled!LogIsWhole
  BY DEF Consoled!Init, Consoled!RowsOK, Consoled!ReaderOK, Consoled!LogIsWhole,
         Consoled!NoRequest
<1> QED
  BY <1>4, <1>6, <1>7, <1>8, <1>9, TypeParts DEF Consoled!IInv

\* What is not touched stays as it is.
LEMMA LogKept ==
  ASSUME Consoled!IInv,
         Consoled!LogStays PROVE LogTypeOK' /\ Consoled!RowsOK' /\ Consoled!ReaderOK'
           /\ Consoled!LogIsWhole'
  BY TypeParts
  DEF Consoled!IInv, Consoled!LogStays, LogTypeOK, Consoled!RowsOK, Consoled!ReaderOK,
      Consoled!LogIsWhole, Consoled!Rank, Consoled!InLog, Readers, Askings

LEMMA ListKept ==
  ASSUME Consoled!IInv, Consoled!ListStays,
         UNCHANGED v3 PROVE Consoled!OwedOK' /\ Consoled!LeftOK' /\ Consoled!SeenOK'
  BY DEF Consoled!IInv, Consoled!ListStays, Consoled!OwedOK, Consoled!LeftOK, Consoled!SeenOK,
         Consoled!Matches

LEMMA TroubleOK ==
  ASSUME Consoled!ConsoleAssumption, Consoled!IInv, Consoled!Trouble
  PROVE  v11' \in 0..MaxConsoleTroubles
  BY DEF Consoled!Trouble, Consoled!IInv, Consoled!TypeOK, Consoled!ConsoleAssumption

-----------------------------------------------------------------------------
\* A run that is to show is found by one of the list's queries.
LEMMA QueriesFind ==
  ASSUME Consoled!ConsoleAssumption, NEW x \in RunStates, NEW l,
         l.filter \in Filters \cup {"all"},
         Consoled!Matches(x, l)
  PROVE  \E i \in DOMAIN Consoled!Queries(l.filter) : Consoled!Queries(l.filter)[i] = x.status
<1>1. x.status \in {"running"} \cup Consoled!Closed
  BY DEF Consoled!Matches, RunStates
<1>2. CASE l.filter = "all"
  <2>1. Consoled!Queries(l.filter)
          = << "running", "completed", "failed", "canceled", "terminated" >>
    BY <1>2 DEF Consoled!Queries
  <2> QED
    BY <1>1, <2>1 DEF Consoled!Closed
<1>3. CASE l.filter \in Consoled!Closed
  <2>1. Consoled!Queries(l.filter) = << l.filter >>
    BY <1>3 DEF Consoled!Queries, Consoled!Closed
  <2>2. x.status = l.filter
    BY <1>1, <1>3 DEF Consoled!Matches, Consoled!DetermineStatus, Consoled!Closed
  <2> QED
    BY <2>1, <2>2
<1>4. CASE l.filter # "all" /\ l.filter \notin Consoled!Closed
  <2>1. Consoled!Queries(l.filter) = << "running" >>
    BY <1>4 DEF Consoled!Queries
  <2>2. x.status = "running"
    BY <1>1, <1>4 DEF Consoled!Matches, Consoled!DetermineStatus
  <2> QED
    BY <2>1, <2>2
<1> QED
  BY <1>2, <1>3, <1>4

\* Of the queries, only the first is for runs at work.
LEMMA RunningFirst ==
  ASSUME NEW filter, NEW i \in DOMAIN Consoled!Queries(filter),
         Consoled!Queries(filter)[i] = "running"
  PROVE  i = 1
<1>1. CASE filter = "all"
  <2>1. Consoled!Queries(filter)
          = << "running", "completed", "failed", "canceled", "terminated" >>
    BY <1>1 DEF Consoled!Queries
  <2> QED
    BY <2>1
<1>2. CASE filter # "all" /\ filter \in Consoled!Closed
  BY <1>2 DEF Consoled!Queries
<1>3. CASE filter # "all" /\ filter \notin Consoled!Closed
  BY <1>3 DEF Consoled!Queries
<1> QED
  BY <1>1, <1>2, <1>3

LEMMA QueriesAre ==
  ASSUME NEW filter PROVE Consoled!Queries(filter) \in Seq({"running"} \cup Consoled!Closed)
           /\ Consoled!Queries(filter) # << >>
<1>1. CASE filter = "all"
  BY <1>1 DEF Consoled!Queries, Consoled!Closed
<1>2. CASE filter # "all" /\ filter \in Consoled!Closed
  BY <1>2 DEF Consoled!Queries
<1>3. CASE filter # "all" /\ filter \notin Consoled!Closed
  BY <1>3 DEF Consoled!Queries
<1> QED
  BY <1>1, <1>2, <1>3

LEMMA StatusShows ==
  ASSUME NEW x \in RunStates, NEW now
  PROVE  /\ Consoled!DetermineStatus(x, now) \in Consoled!Shown
         /\ x.status # "none"
              => Consoled!DetermineStatus(x, now) \in { "running", "stuck" } \cup Consoled!Closed
  BY DEF Consoled!DetermineStatus, Consoled!Shown, RunStates

LEMMA ConsoledListsStep ==
  ASSUME Consoled!ConsoleAssumption, Consoled!IInv, Consoled!Lists
  PROVE  Consoled!IInv'
<1>1. /\ UNCHANGED << v1, v2, v3, v11 >> /\ Consoled!LogStays
      /\ v5' = { r \in Runs : Consoled!Matches(v3[r], v4') }
      /\ v6' = { << r, Consoled!DetermineStatus(v3[r], v2) >> : r \in Runs }
  BY DEF Consoled!Lists
<1>2. PICK filter \in Filters, age \in Consoled!Ages, repo \in BOOLEAN :
        v4' = Consoled!Asked(filter, age, repo)
  BY DEF Consoled!Lists
<1>3. v4' = [ at |-> "asking", filter |-> filter, age |-> age, repo |-> repo, now |-> v2,
                   left |-> Consoled!Queries(filter), got |-> {}, failed |-> FALSE ]
  BY <1>2 DEF Consoled!Asked, Consoled!NoListing
<1>4. v4'.at = "asking" /\ v4'.filter = filter /\ v4'.now = v2
      /\ v4'.left = Consoled!Queries(filter) /\ v4'.got = {}
  BY <1>3
<1>5. v4' \in Listings
  <2>1. v2 \in 0..MaxClock /\ FALSE \in BOOLEAN
    BY DEF Consoled!IInv, Consoled!TypeOK
  <2> QED
    BY <1>3, <2>1, QueriesAre DEF Listings
<1>6. ListTypeOK'
  BY <1>1, <1>5, TypeParts DEF Consoled!IInv, ListTypeOK
<1>7. \A r \in Runs : v3[r] \in RunStates
  BY TypeParts DEF Consoled!IInv, ListTypeOK
<1>8. Consoled!OwedOK'
  <2>1. \A r \in v5' : r \in Runs /\ Consoled!Matches(v3'[r], v4')
    BY <1>1
  <2>2. \A r \in v5' : \E i \in DOMAIN v4'.left : v4'.left[i] = v3'[r].status
    BY <1>1, <1>4, <1>7, <2>1, QueriesFind
  <2> QED
    BY <1>4, <2>1, <2>2 DEF Consoled!OwedOK, Consoled!Matches
<1>9. Consoled!LeftOK'
  BY <1>4, QueriesAre DEF Consoled!LeftOK
<1>10. Consoled!SeenOK'
  BY <1>1, <1>4 DEF Consoled!SeenOK
<1> QED
  BY <1>1, <1>6, <1>8, <1>9, <1>10, LogKept, Together

LEMMA EmptyIsShort == ASSUME NEW S, NEW s \in Seq(S) PROVE s = << >> <=> Len(s) = 0
  OBVIOUS

\* The rest of a sequence of queries.
LEMMA RestIs ==
  ASSUME NEW S, NEW left \in Seq(S), left # << >>
  PROVE  /\ Tail(left) \in Seq(S) /\ Head(left) = left[1]
         /\ Len(left) = 1 <=> Tail(left) = << >>
         /\ \A i \in DOMAIN Tail(left) : i + 1 \in DOMAIN left /\ Tail(left)[i] = left[i + 1]
                                         /\ i + 1 # 1
         /\ \A i \in DOMAIN left : i # 1 => i - 1 \in DOMAIN Tail(left)
                                            /\ Tail(left)[i - 1] = left[i]
<1>1. Len(left) \in Nat /\ Len(left) >= 1 /\ DOMAIN left = 1..Len(left)
  OBVIOUS
<1>2. /\ Tail(left) \in Seq(S) /\ Head(left) = left[1]
      /\ Len(Tail(left)) = Len(left) - 1
      /\ \A i \in 1..Len(left) - 1 : Tail(left)[i] = left[i + 1]
  OBVIOUS
<1>3. DOMAIN Tail(left) = 1..Len(left) - 1
  BY <1>2
<1>4. Len(left) = 1 <=> Tail(left) = << >>
  <2>1. Tail(left) = << >> <=> Len(Tail(left)) = 0
    BY <1>2, EmptyIsShort, Zenon
  <2>2. Len(Tail(left)) = Len(left) - 1 /\ Len(left) \in Nat
    BY <1>1, <1>2
  <2> QED
    BY <2>1, <2>2
<1>5. ASSUME NEW i \in DOMAIN Tail(left)
      PROVE  i + 1 \in DOMAIN left /\ Tail(left)[i] = left[i + 1] /\ i + 1 # 1
  <2>1. i \in 1..Len(left) - 1
    BY <1>3
  <2>2. Tail(left)[i] = left[i + 1]
    BY <1>2, <2>1
  <2> QED
    BY <1>1, <2>1, <2>2
<1>6. ASSUME NEW i \in DOMAIN left, i # 1
      PROVE  i - 1 \in DOMAIN Tail(left) /\ Tail(left)[i - 1] = left[i]
  <2>1. i - 1 \in 1..Len(left) - 1 /\ (i - 1) + 1 = i
    BY <1>1, <1>6
  <2>2. Tail(left)[i - 1] = left[(i - 1) + 1]
    BY <1>2, <2>1
  <2> QED
    BY <1>3, <2>1, <2>2
<1> QED
  BY <1>1, <1>2, <1>4, <1>5, <1>6

\* A query yields all that it is to find, or fails.
LEMMA QueriedStep ==
  ASSUME Consoled!ConsoleAssumption, Consoled!IInv, v4.at = "asking", NEW failed \in BOOLEAN,
         NEW yielded \in SUBSET Consoled!Yielded, ~failed => yielded = Consoled!Yielded,
         v4' = Consoled!Queried(yielded, failed), UNCHANGED << v1, v2, v3, v5, v6 >>,
         Consoled!LogStays, v11' \in 0..MaxConsoleTroubles
  PROVE  Consoled!IInv'
<1> DEFINE left == v4.left
           to == IF Len(left) = 1 THEN "answered" ELSE "asking"
           lost == v4.failed \/ failed
           shown == { << r, Consoled!DetermineStatus(v3[r], v4.now) >> : r \in yielded }
<1>1. v4 \in Listings /\ left \in Seq({"running"} \cup Consoled!Closed) /\ left # << >>
      /\ \A r \in Runs : v3[r] \in RunStates
  BY TypeParts DEF Consoled!IInv, ListTypeOK, Listings, Consoled!LeftOK
<1>2. v4' = [ at |-> to,
                   filter |-> v4.filter, age |-> v4.age, repo |-> v4.repo,
                   now |-> v4.now, left |-> Tail(left), got |-> v4.got \cup shown,
                   failed |-> lost ]
  BY <1>1 DEF Consoled!Queried, Listings
<1>3. to = (IF Len(left) = 1 THEN "answered" ELSE "asking") /\ to \in { "answered", "asking" }
      /\ (lost <=> v4.failed \/ failed) /\ lost \in BOOLEAN
  OBVIOUS
<1> HIDE DEF to, lost
<1>4. /\ v4'.at = to
      /\ v4'.filter = v4.filter /\ v4'.age = v4.age
      /\ v4'.repo = v4.repo /\ v4'.now = v4.now
      /\ v4'.left = Tail(left) /\ v4'.got = v4.got \cup shown
      /\ v4'.failed = lost
  BY <1>2
<1>5. yielded \subseteq Runs
  BY DEF Consoled!Yielded
<1>6. shown \subseteq Runs \X Consoled!Shown
  BY <1>1, <1>5, StatusShows
<1>7. v4' \in Listings
  <2>1. v4.got \subseteq Runs \X Consoled!Shown
    BY <1>1 DEF Listings
  <2> HIDE DEF shown
  <2> QED
    BY <1>1, <1>2, <1>3, <1>6, <2>1, RestIs DEF Listings
<1>8. ListTypeOK'
  BY <1>7, TypeParts DEF Consoled!IInv, ListTypeOK
<1>9. \A r \in v5 : Consoled!Matches(v3[r], v4) /\ Consoled!Matches(v3'[r], v4')
  BY <1>4 DEF Consoled!IInv, Consoled!OwedOK, Consoled!Matches
<1>10. Consoled!OwedOK'
  <2>1. ASSUME ~v4'.failed, NEW r \in v5
        PROVE  \/ \E s \in { "running", "stuck" } \cup Consoled!Closed : << r, s >> \in v4'.got
               \/ \E i \in DOMAIN v4'.left : v4'.left[i] = v3'[r].status
    <3>1. ~v4.failed /\ yielded = Consoled!Yielded /\ r \in Runs
      BY <1>4, <1>3, <2>1 DEF Consoled!IInv, Consoled!TypeOK
    <3>2. \/ \E s \in { "running", "stuck" } \cup Consoled!Closed : << r, s >> \in v4.got
          \/ \E i \in DOMAIN left : left[i] = v3[r].status
      BY <2>1, <3>1 DEF Consoled!IInv, Consoled!OwedOK
    <3>3. CASE \E s \in { "running", "stuck" } \cup Consoled!Closed : << r, s >> \in v4.got
      BY <1>4, <3>3
    <3>4. CASE \E i \in DOMAIN left : left[i] = v3[r].status
      <4>1. PICK i \in DOMAIN left : left[i] = v3[r].status
        BY <3>4
      <4>2. CASE i = 1
        <5>1. r \in Consoled!Yielded
          BY <1>1, <1>9, <2>1, <3>1, <4>1, <4>2, RestIs DEF Consoled!Yielded
        <5>2. << r, Consoled!DetermineStatus(v3[r], v4.now) >> \in v4'.got
          BY <1>4, <3>1, <5>1
        <5>3. Consoled!DetermineStatus(v3[r], v4.now)
                \in { "running", "stuck" } \cup Consoled!Closed
          BY <1>1, <1>9, <2>1, <3>1, StatusShows DEF Consoled!Matches
        <5> QED
          BY <5>2, <5>3
      <4>3. CASE i # 1
        <5>1. i - 1 \in DOMAIN Tail(left) /\ Tail(left)[i - 1] = left[i]
          BY <1>1, <4>3, RestIs
        <5> QED
          BY <1>4, <4>1, <5>1
      <4> QED
        BY <4>2, <4>3
    <3> QED
      BY <3>2, <3>3, <3>4
  <2>2. v5' # {} => v4'.at # "none"
    BY <1>4, <1>3
  <2> QED
    BY <1>9, <2>1, <2>2 DEF Consoled!OwedOK
<1>11. Consoled!LeftOK'
  <2>1. ASSUME NEW i \in DOMAIN Tail(left), Tail(left)[i] = "running" PROVE FALSE
    <3>1. i + 1 \in DOMAIN left /\ left[i + 1] = "running" /\ i + 1 # 1
      BY <1>1, <2>1, RestIs
    <3>2. left = Consoled!Queries(v4.filter)
      BY <3>1 DEF Consoled!IInv, Consoled!LeftOK
    <3> QED
      BY <3>1, <3>2, RunningFirst
  <2>2. v4'.at = "asking" => v4'.left # << >>
    BY <1>1, <1>4, <1>3, RestIs
  <2>3. v4'.at = "answered" => v4'.left = << >>
    BY <1>1, <1>4, <1>3, RestIs
  <2> QED
    BY <1>4, <2>1, <2>2, <2>3 DEF Consoled!LeftOK
<1>12. Consoled!SeenOK'
  <2>1. \A r \in Runs : << r, Consoled!DetermineStatus(v3[r], v4.now) >> \in v6
    BY DEF Consoled!IInv, Consoled!SeenOK
  <2>2. shown \subseteq v6
    BY <1>5, <2>1
  <2>3. v4.got \subseteq v6
    BY DEF Consoled!IInv, Consoled!SeenOK
  <2> QED
    BY <1>4, <2>1, <2>2, <2>3 DEF Consoled!SeenOK
<1> QED
  BY <1>8, <1>10, <1>11, <1>12, LogKept, Together

LEMMA QueryStep ==
  ASSUME Consoled!ConsoleAssumption, Consoled!IInv, Consoled!QueryEnds \/ Consoled!QueryFails
  PROVE  Consoled!IInv'
<1>1. CASE Consoled!QueryEnds
  <2>1. v11' \in 0..MaxConsoleTroubles
    BY <1>1 DEF Consoled!QueryEnds, Consoled!IInv, Consoled!TypeOK
  <2> QED
    BY <1>1, <2>1, QueriedStep DEF Consoled!QueryEnds
<1>2. CASE Consoled!QueryFails
  <2>1. v11' \in 0..MaxConsoleTroubles
    BY <1>2, TroubleOK DEF Consoled!QueryFails
  <2> QED
    BY <1>2, <2>1, QueriedStep DEF Consoled!QueryFails
<1> QED
  BY <1>1, <1>2

LEMMA ListFailsStep ==
  ASSUME Consoled!ConsoleAssumption, Consoled!IInv, Consoled!ListFails
  PROVE  Consoled!IInv'
<1>1. PICK at \in { "refused", "answered" } :
        v4' = [ v4 EXCEPT !.at = at, !.failed = TRUE ]
  BY DEF Consoled!ListFails
<1>2. UNCHANGED << v1, v2, v3, v5, v6 >> /\ Consoled!LogStays /\ v11' \in 0..MaxConsoleTroubles
  BY TroubleOK DEF Consoled!ListFails
<1> DEFINE yes == TRUE
<1>3. v4 \in Listings
  BY TypeParts DEF Consoled!IInv, ListTypeOK
<1>4. yes \in BOOLEAN /\ yes /\ v4' = [ v4 EXCEPT !.at = at, !.failed = yes ]
  BY <1>1
<1> HIDE DEF yes
<1>5. /\ v4' \in Listings
      /\ v4'.at = at /\ v4'.failed = yes
      /\ v4'.filter = v4.filter /\ v4'.age = v4.age
      /\ v4'.repo = v4.repo /\ v4'.now = v4.now
      /\ v4'.left = v4.left /\ v4'.got = v4.got
  BY <1>3, <1>4 DEF Listings
<1>6. ListTypeOK'
  BY <1>2, <1>5, TypeParts DEF Consoled!IInv, ListTypeOK
<1>7. Consoled!OwedOK'
  BY <1>2, <1>4, <1>5 DEF Consoled!IInv, Consoled!OwedOK, Consoled!Matches
<1>8. Consoled!LeftOK'
  BY <1>4, <1>5 DEF Consoled!IInv, Consoled!LeftOK
<1>9. Consoled!SeenOK'
  BY <1>2, <1>5 DEF Consoled!IInv, Consoled!SeenOK, Consoled!ListFails
<1> QED
  BY <1>2, <1>6, <1>7, <1>8, <1>9, LogKept, Together

\* A run starts, or ends that was at work.
LEMMA BecomesStep ==
  ASSUME Consoled!ConsoleAssumption, Consoled!IInv, NEW r \in Runs, NEW x \in RunStates,
         Consoled!Becomes(r, x),
         v3[r].status \in { "none", "running" }, x.status # "none",
         UNCHANGED << v1, v2, v4, v11 >>, Consoled!LogStays
  PROVE  Consoled!IInv'
<1>1. /\ v3' = [ v3 EXCEPT ![r] = x ]
      /\ v5' = { s \in v5 : Consoled!Matches(v3'[s], v4) }
      /\ v6' = IF v4.at = "none" THEN v6
                ELSE v6 \cup {<< r, Consoled!DetermineStatus(x, v4.now) >>}
  BY DEF Consoled!Becomes
<1>2. v3 \in [ Runs -> RunStates ] /\ v4 \in Listings
  BY TypeParts DEF Consoled!IInv, ListTypeOK
<1>3. v3' \in [ Runs -> RunStates ] /\ v3'[r] = x /\ \A s \in Runs : s # r => v3'[s] = v3[s]
  BY <1>1, <1>2
<1>4. ListTypeOK'
  BY <1>1, <1>3, TypeParts DEF Consoled!IInv, ListTypeOK
<1>5. \A s \in v5' : s \in v5 /\ s \in Runs /\ Consoled!Matches(v3'[s], v4)
  BY <1>1 DEF Consoled!IInv, Consoled!TypeOK
<1>6. Consoled!OwedOK'
  <2>1. ASSUME ~v4.failed, NEW s \in v5'
        PROVE  \/ \E t \in { "running", "stuck" } \cup Consoled!Closed : << s, t >> \in v4.got
               \/ \E i \in DOMAIN v4.left : v4.left[i] = v3'[s].status
    <3>1. \/ \E t \in { "running", "stuck" } \cup Consoled!Closed : << s, t >> \in v4.got
          \/ \E i \in DOMAIN v4.left : v4.left[i] = v3[s].status
      BY <1>5, <2>1 DEF Consoled!IInv, Consoled!OwedOK
    <3>2. CASE s # r
      BY <1>3, <1>5, <3>1, <3>2
    <3>3. CASE s = r
      <4>1. v3[r].status = "running"
        BY <1>5, <3>3 DEF Consoled!IInv, Consoled!OwedOK, Consoled!Matches
      <4>2. CASE \E i \in DOMAIN v4.left : v4.left[i] = v3[s].status
        <5>1. v4.left = Consoled!Queries(v4.filter)
          BY <3>3, <4>1, <4>2 DEF Consoled!IInv, Consoled!LeftOK
        <5>2. Consoled!Matches(x, v4) /\ v4.filter \in Filters \cup {"all"}
          BY <1>2, <1>3, <1>5, <3>3 DEF Listings
        <5> QED
          BY <1>3, <3>3, <5>1, <5>2, QueriesFind
      <4> QED
        BY <3>1, <4>2
    <3> QED
      BY <3>2, <3>3
  <2>2. v5' # {} => v4.at # "none"
    BY <1>5 DEF Consoled!IInv, Consoled!OwedOK
  <2> QED
    BY <1>5, <2>1, <2>2 DEF Consoled!OwedOK, Consoled!Matches
<1>7. Consoled!LeftOK'
  BY DEF Consoled!IInv, Consoled!LeftOK
<1>8. Consoled!SeenOK'
  <2>1. ASSUME v4.at # "none", NEW s \in Runs
        PROVE  << s, Consoled!DetermineStatus(v3'[s], v4.now) >> \in v6'
    <3>1. CASE s = r
      BY <1>1, <1>3, <2>1, <3>1
    <3>2. CASE s # r
      BY <1>1, <1>3, <2>1, <3>2 DEF Consoled!IInv, Consoled!SeenOK
    <3> QED
      BY <3>1, <3>2
  <2> QED
    BY <1>1, <2>1 DEF Consoled!IInv, Consoled!SeenOK
<1> QED
  BY <1>4, <1>6, <1>7, <1>8, LogKept, Together

LEMMA ConsoledRunStep ==
  ASSUME Consoled!ConsoleAssumption, Consoled!IInv, NEW r \in Runs,
         Consoled!Starts(r) \/ Consoled!Ends(r) PROVE Consoled!IInv'
<1>1. v3[r] \in RunStates /\ v2 \in 0..MaxClock
  BY TypeParts DEF Consoled!IInv, ListTypeOK
<1>2. CASE Consoled!Starts(r)
  <2>1. [ status |-> "running", started |-> v2 ] \in RunStates
    BY <1>1 DEF RunStates
  <2> QED
    BY <1>2, <2>1, BecomesStep DEF Consoled!Starts
<1>3. CASE Consoled!Ends(r)
  <2>1. PICK ending \in Endings : Consoled!Becomes(r, [ v3[r] EXCEPT !.status = ending ])
    BY <1>3 DEF Consoled!Ends
  <2>2. ending \in Consoled!Closed
    BY DEF Consoled!ConsoleAssumption
  <2>3. [ v3[r] EXCEPT !.status = ending ] \in RunStates
        /\ [ v3[r] EXCEPT !.status = ending ].status # "none"
    BY <1>1, <2>2 DEF RunStates, Consoled!Closed
  <2> QED
    BY <1>3, <2>1, <2>3, BecomesStep DEF Consoled!Ends
<1> QED
  BY <1>2, <1>3

LEMMA HourPassesStep ==
  ASSUME Consoled!ConsoleAssumption, Consoled!IInv, Consoled!HourPasses
  PROVE  Consoled!IInv'
<1>1. UNCHANGED << v1, v3, v11 >> /\ Consoled!ListStays /\ Consoled!LogStays
  BY DEF Consoled!HourPasses
<1>2. v2' \in 0..MaxClock
  BY DEF Consoled!HourPasses, Consoled!IInv, Consoled!TypeOK, Consoled!ConsoleAssumption
<1>3. ListTypeOK'
  BY <1>1, <1>2, TypeParts DEF Consoled!IInv, ListTypeOK, Consoled!ListStays
<1> QED
  BY <1>1, <1>3, LogKept, ListKept, Together

-----------------------------------------------------------------------------
\* An administrator's request goes on; its row, if it is there, has come by it.
LEMMA ConsoledRequestStep ==
  ASSUME Consoled!ConsoleAssumption, Consoled!IInv, NEW q \in Requests,
         v7' = [ v7 EXCEPT ![q] = v7'[q] ], v7'[q] \in Askings,
         v8' = v8 \/ v8' = v8 \cup {q}, q \notin v8,
         q \in v8' => v7'[q].at \in { "answered", "failed" },
         v7'[q].at = "answered" => q \in v8',
         v7'[q].at \in { "none", "describe", "signal", "flush" } => v7'[q].stamp = 0,
         UNCHANGED << v1, v2, v3, v9, v10 >>, Consoled!ListStays,
         v11' \in 0..MaxConsoleTroubles
  PROVE  Consoled!IInv'
<1>1. v7 \in [ Requests -> Askings ] /\ v8 \subseteq Requests
      /\ v10 \in Readers /\ v9 \in Nat
  BY TypeParts DEF Consoled!IInv, LogTypeOK
<1>2. v7' \in [ Requests -> Askings ] /\ \A p \in Requests : p # q => v7'[p] = v7[p]
  BY <1>1
<1>3. LogTypeOK'
  BY <1>1, <1>2 DEF LogTypeOK
<1>4. ListTypeOK'
  BY TypeParts DEF Consoled!IInv, ListTypeOK, Consoled!ListStays
<1>5. Consoled!RowsOK'
  BY <1>1, <1>2 DEF Consoled!IInv, Consoled!RowsOK
<1>6. \A p \in v8 : p \in Requests /\ p # q /\ v7'[p] = v7[p] /\ p \in v8'
  BY <1>1, <1>2
<1>7. ASSUME NEW p \in v8
      PROVE  Consoled!Rank(p)' >= Consoled!Rank(p) /\ Consoled!Rank(p) \in Nat
               /\ Consoled!Rank(p)' \in Nat
  <2> DEFINE ahead == { s \in Consoled!InLog : v7[s].stamp > v7[p].stamp }
             now == { s \in v8' : v7'[s].stamp > v9' /\ v7'[s].stamp > v7'[p].stamp }
  <2>1. ahead \subseteq now
    BY <1>6 DEF Consoled!InLog
  <2>2. now \subseteq Requests /\ Consoled!IsFiniteSet(Requests)
    BY <1>1 DEF Consoled!ConsoleAssumption
  <2>3. Consoled!IsFiniteSet(now)
    BY ConsoledFinite, <2>2, FS_Subset
  <2>4. Consoled!Cardinality(ahead) <= Consoled!Cardinality(now) /\ Consoled!IsFiniteSet(ahead)
    BY ConsoledFinite, <2>1, <2>3, FS_Subset
  <2>5. Consoled!Cardinality(now) \in Nat /\ Consoled!Cardinality(ahead) \in Nat
    BY ConsoledFinite, <2>3, <2>4, FS_CardinalityType
  <2>6. Consoled!Rank(p) = Consoled!Cardinality(ahead)
    BY DEF Consoled!Rank
  <2>7. Consoled!Rank(p)' = Consoled!Cardinality(now)
    <3>1. { s \in Consoled!InLog' : v7'[s].stamp > v7'[p].stamp } = now
      BY DEF Consoled!InLog
    <3> QED
      BY <3>1 DEF Consoled!Rank
  <2> QED
    BY <2>4, <2>5, <2>6, <2>7
<1>8. Consoled!ReaderOK'
  <2>1. \A p \in v10.due : p \in v8
    BY DEF Consoled!IInv, Consoled!ReaderOK
  <2>2. v10.offset \in Nat
    BY <1>1 DEF Readers
  <2>3. ASSUME v10.at = "loading", ~v10.failed, NEW p \in v10.due
        PROVE  p \in v10.got \/ v7'[p].stamp <= v9 \/ Consoled!Rank(p)' >= v10.offset
    <3>1. p \in v10.got \/ v7[p].stamp <= v9 \/ Consoled!Rank(p) >= v10.offset
      BY <2>3 DEF Consoled!IInv, Consoled!ReaderOK
    <3> QED
      BY <1>6, <1>7, <2>1, <2>2, <3>1
  <2>4. v10.due \subseteq v8'
    BY <1>6, <2>1
  <2> QED
    BY <2>3, <2>4 DEF Consoled!IInv, Consoled!ReaderOK
<1>9. Consoled!LogIsWhole'
  <2>1. \A p \in v10.due : p \in v8
    BY DEF Consoled!IInv, Consoled!ReaderOK
  <2>2. \A p \in v10.due : v7'[p] = v7[p]
    BY <1>6, <2>1
  <2>3. \A p \in Requests : v7'[p].at = "answered" => p \in v8'
    BY <1>5 DEF Consoled!RowsOK
  <2> QED
    BY <2>2, <2>3 DEF Consoled!IInv, Consoled!LogIsWhole
<1> QED
  BY <1>3, <1>4, <1>5, <1>8, <1>9, ListKept, Together

LEMMA RequestsStep ==
  ASSUME Consoled!ConsoleAssumption, Consoled!IInv, NEW q \in Requests,
         \/ Consoled!Asks(q) \/ Consoled!IsUnknown(q) \/ Consoled!DescribeFails(q)
              \/ Consoled!Describes(q) \/ Consoled!Signals(q)
         \/ Consoled!Flushes(q) \/ Consoled!Commits(q) \/ Consoled!StoreFails(q)
  PROVE  Consoled!IInv'
<1>1. v7 \in [ Requests -> Askings ] /\ v7[q] \in Askings
      /\ v11 \in 0..MaxConsoleTroubles
  BY TypeParts DEF Consoled!IInv, LogTypeOK, ListTypeOK
<1>2. /\ v7[q].at \in { "none", "describe", "signal", "flush" } => v7[q].stamp = 0
      /\ q \in v8 => v7[q].at \in { "answered", "failed" }
  BY DEF Consoled!IInv, Consoled!RowsOK
<1>3. CASE Consoled!Asks(q)
  <2>1. PICK kind \in RunKinds, r \in Runs :
          v7' = [ v7 EXCEPT ![q].at = "describe", ![q].kind = kind, ![q].run = r ]
    BY <1>3 DEF Consoled!Asks
  <2>2. /\ v7'[q] = [ at |-> "describe", kind |-> kind, run |-> r, step |-> v7[q].step,
                           stamp |-> v7[q].stamp ]
        /\ v7' = [ v7 EXCEPT ![q] = v7'[q] ]
    BY <1>1, <2>1 DEF Askings
  <2>3. v7'[q] \in Askings
    BY <1>1, <2>2 DEF Askings
  <2>4. v7[q].at = "none" /\ v7'[q].at = "describe" /\ v7'[q].stamp = v7[q].stamp
    <3>1. v7[q].at = "none"
      BY <1>3 DEF Consoled!Asks
    <3> QED
      BY <2>2, <3>1
  <2> QED
    BY <1>1, <1>2, <1>3, <2>2, <2>3, <2>4, ConsoledRequestStep DEF Consoled!Asks
<1>4. ASSUME NEW to \in { "not_found", "flush", "answered", "failed" }, Consoled!Goes(q, to)
      PROVE  /\ v7'[q] \in Askings /\ v7'[q].at = to
             /\ v7'[q].stamp = v7[q].stamp
             /\ v7' = [ v7 EXCEPT ![q] = v7'[q] ]
  <2>1. /\ v7'[q] = [ at |-> to, kind |-> v7[q].kind, run |-> v7[q].run,
                           step |-> v7[q].step, stamp |-> v7[q].stamp ]
        /\ v7' = [ v7 EXCEPT ![q] = v7'[q] ]
    BY <1>1, <1>4 DEF Consoled!Goes, Askings
  <2> QED
    BY <1>1, <2>1 DEF Askings
<1>5. CASE Consoled!IsUnknown(q)
  BY <1>1, <1>2, <1>4, <1>5, ConsoledRequestStep DEF Consoled!IsUnknown
<1>6. CASE Consoled!DescribeFails(q)
  BY <1>1, <1>2, <1>4, <1>6, TroubleOK, ConsoledRequestStep DEF Consoled!DescribeFails
<1>7. CASE Consoled!Describes(q)
  <2> DEFINE step == Consoled!CurrentStep(v3[v7[q].run].status)
  <2>1. step \in Consoled!Steps
    BY DEF Consoled!CurrentStep, Consoled!Steps
  <2>2. v7' = [ v7 EXCEPT ![q].at = "signal", ![q].step = step ]
    BY <1>7 DEF Consoled!Describes
  <2> HIDE DEF step
  <2>3. /\ v7'[q] = [ at |-> "signal", kind |-> v7[q].kind, run |-> v7[q].run,
                           step |-> step, stamp |-> v7[q].stamp ]
        /\ v7' = [ v7 EXCEPT ![q] = v7'[q] ]
    BY <1>1, <2>2 DEF Askings
  <2>4. v7'[q] \in Askings
    BY <1>1, <2>1, <2>3 DEF Askings
  <2>5. v7[q].at = "describe" /\ UNCHANGED << v1, v2, v3, v8, v9, v10, v11 >>
        /\ Consoled!ListStays
    BY <1>7 DEF Consoled!Describes
  <2> QED
    BY <1>1, <1>2, <2>3, <2>4, <2>5, ConsoledRequestStep
<1>8. CASE Consoled!Signals(q)
  BY <1>1, <1>2, <1>4, <1>8, ConsoledRequestStep DEF Consoled!Signals
<1>9. CASE Consoled!Flushes(q)
  <2> DEFINE stamped == { p \in Requests : v7[p].stamp > 0 }
  <2>1. 1 + Consoled!Cardinality(stamped) \in 0..Consoled!Cardinality(Requests)
    <3>1. q \notin stamped /\ stamped \subseteq Requests /\ Consoled!IsFiniteSet(Requests)
      BY <1>2, <1>9 DEF Consoled!Flushes, Consoled!ConsoleAssumption
    <3>2. Consoled!Cardinality(stamped) <= Consoled!Cardinality(Requests)
            /\ Consoled!IsFiniteSet(stamped)
          /\ (Consoled!Cardinality(stamped) = Consoled!Cardinality(Requests) => stamped = Requests)
      BY ConsoledFinite, <3>1, FS_Subset
    <3>3. Consoled!Cardinality(stamped) \in Nat /\ Consoled!Cardinality(Requests) \in Nat
      BY ConsoledFinite, <3>1, <3>2, FS_CardinalityType
    <3> HIDE DEF stamped
    <3> QED
      BY <3>1, <3>2, <3>3
  <2>2. v7' = [ v7 EXCEPT ![q].at = "commit", ![q].stamp = 1 + Consoled!Cardinality(stamped) ]
    BY <1>9 DEF Consoled!Flushes
  <2> HIDE DEF stamped
  <2>3. /\ v7'[q] = [ at |-> "commit", kind |-> v7[q].kind, run |-> v7[q].run,
                           step |-> v7[q].step, stamp |-> 1 + Consoled!Cardinality(stamped) ]
        /\ v7' = [ v7 EXCEPT ![q] = v7'[q] ]
    BY <1>1, <2>2 DEF Askings
  <2>4. v7'[q] \in Askings
    BY <1>1, <2>1, <2>3 DEF Askings
  <2>5. v7[q].at = "flush" /\ v7'[q].at = "commit"
    BY <1>9, <2>3 DEF Consoled!Flushes
  <2> QED
    BY <1>1, <1>2, <1>9, <2>3, <2>4, <2>5, ConsoledRequestStep DEF Consoled!Flushes
<1>10. CASE Consoled!Commits(q)
  BY <1>1, <1>2, <1>4, <1>10, ConsoledRequestStep DEF Consoled!Commits
<1>11. CASE Consoled!StoreFails(q)
  BY <1>1, <1>2, <1>4, <1>11, TroubleOK, ConsoledRequestStep DEF Consoled!StoreFails
<1> QED
  BY <1>3, <1>5, <1>6, <1>7, <1>8, <1>9, <1>10, <1>11

-----------------------------------------------------------------------------
\* Steps of the reader of the log, and of time.
LEMMA ReaderStep ==
  ASSUME Consoled!ConsoleAssumption, Consoled!IInv, UNCHANGED << v1, v2, v3, v7, v8 >>,
         Consoled!ListStays, v11' \in 0..MaxConsoleTroubles, v9' \in Nat, v10' \in Readers,
         Consoled!ReaderOK', Consoled!LogIsWhole'
  PROVE  Consoled!IInv'
<1>1. ListTypeOK'
  BY TypeParts DEF Consoled!IInv, ListTypeOK, Consoled!ListStays
<1>2. LogTypeOK'
  BY TypeParts DEF Consoled!IInv, LogTypeOK
<1>3. Consoled!RowsOK'
  BY DEF Consoled!IInv, Consoled!RowsOK
<1> QED
  BY <1>1, <1>2, <1>3, ListKept, Together

LEMMA RankOK ==
  ASSUME Consoled!ConsoleAssumption, Consoled!IInv, NEW q \in v8
  PROVE  /\ Consoled!Rank(q) \in Nat /\ Consoled!Cardinality(Consoled!InLog) \in Nat
         /\ q \in Consoled!InLog => Consoled!Rank(q) < Consoled!Cardinality(Consoled!InLog)
<1> DEFINE ahead == { p \in Consoled!InLog : v7[p].stamp > v7[q].stamp }
<1>1. Consoled!InLog \subseteq Requests /\ Consoled!IsFiniteSet(Requests) /\ v7[q].stamp \in Int
  BY TypeParts DEF Consoled!IInv, LogTypeOK, Consoled!InLog, Consoled!ConsoleAssumption, Askings
<1>2. Consoled!IsFiniteSet(Consoled!InLog)
  BY ConsoledFinite, <1>1, FS_Subset
<1>3. ahead \subseteq Consoled!InLog /\ q \notin ahead
  BY <1>1
<1>4. Consoled!IsFiniteSet(ahead)
        /\ Consoled!Cardinality(ahead) <= Consoled!Cardinality(Consoled!InLog)
      /\ (Consoled!Cardinality(ahead) = Consoled!Cardinality(Consoled!InLog) => ahead = Consoled!InLog)
  BY ConsoledFinite, <1>2, <1>3, FS_Subset
<1>5. Consoled!Cardinality(ahead) \in Nat /\ Consoled!Cardinality(Consoled!InLog) \in Nat
  BY ConsoledFinite, <1>2, <1>4, FS_CardinalityType
<1>6. Consoled!Rank(q) = Consoled!Cardinality(ahead)
  BY DEF Consoled!Rank
<1> HIDE DEF ahead
<1> QED
  BY <1>3, <1>4, <1>5, <1>6

LEMMA ConsoledOpensStep ==
  ASSUME Consoled!ConsoleAssumption, Consoled!IInv, Consoled!Opens
  PROVE  Consoled!IInv'
<1>1. UNCHANGED << v1, v2, v3, v7, v8, v9, v11 >> /\ Consoled!ListStays
      /\ v10.at = "none" /\ v10' = [ v10 EXCEPT !.at = "loading", !.due = Consoled!InLog ]
  BY DEF Consoled!Opens
<1>2. v10 \in Readers /\ v8 \subseteq Requests /\ v9 \in Nat /\ v11 \in 0..MaxConsoleTroubles
  BY TypeParts DEF Consoled!IInv, LogTypeOK, ListTypeOK
<1>3. Consoled!InLog \subseteq v8
  BY DEF Consoled!InLog
<1>4. /\ v10' \in Readers /\ v10'.at = "loading" /\ v10'.due = Consoled!InLog
      /\ v10'.offset = v10.offset
  BY <1>1, <1>2, <1>3 DEF Readers
<1>5. Consoled!ReaderOK'
  <2>1. v10.offset = 0
    BY <1>1 DEF Consoled!IInv, Consoled!ReaderOK
  <2>2. \A q \in v8 : Consoled!Rank(q)' = Consoled!Rank(q) /\ Consoled!Rank(q) \in Nat
    BY <1>1, RankOK DEF Consoled!Rank, Consoled!InLog
  <2>3. \A q \in Consoled!InLog : Consoled!Rank(q)' >= v10'.offset
    BY <1>3, <1>4, <2>1, <2>2
  <2> QED
    BY <1>1, <1>3, <1>4, <2>3 DEF Consoled!ReaderOK
<1>6. Consoled!LogIsWhole'
  BY <1>1, <1>4 DEF Consoled!IInv, Consoled!LogIsWhole
<1> QED
  BY <1>1, <1>2, <1>4, <1>5, <1>6, ReaderStep

LEMMA LoadsPageStep ==
  ASSUME Consoled!ConsoleAssumption, Consoled!IInv, Consoled!LoadsPage
  PROVE  Consoled!IInv'
<1> DEFINE page ==
             { q \in Consoled!InLog : Consoled!Rank(q) \in v10.offset..(v10.offset + RowsPerPage - 1) }
           to ==
             IF Consoled!Cardinality(Consoled!InLog) > v10.offset + RowsPerPage THEN "loading" ELSE "done"
<1>1. UNCHANGED << v1, v2, v3, v7, v8, v9, v11 >> /\ Consoled!ListStays
      /\ v10.at = "loading"
  BY DEF Consoled!LoadsPage
<1>2. v10 \in Readers /\ v8 \subseteq Requests /\ v9 \in Nat /\ v11 \in 0..MaxConsoleTroubles
      /\ v7 \in [ Requests -> Askings ] /\ v10.offset \in Nat
  BY TypeParts DEF Consoled!IInv, LogTypeOK, ListTypeOK, Readers
<1>3. v10' = [ at |-> to, offset |-> v10.offset + RowsPerPage, due |-> v10.due,
                  got |-> v10.got \cup page, failed |-> v10.failed ]
  BY <1>1, <1>2 DEF Consoled!LoadsPage, Readers
<1>4. page \subseteq Requests /\ RowsPerPage \in Nat \ {0}
  BY <1>2 DEF Consoled!InLog, Consoled!ConsoleAssumption
<1>5. v10'.at = to /\ v10'.offset = v10.offset + RowsPerPage /\ v10'.due = v10.due
      /\ v10'.got = v10.got \cup page /\ v10'.failed = v10.failed
  BY <1>3
<1>6. v10' \in Readers
  <2>1. to \in { "none", "loading", "done" } /\ v10.offset + RowsPerPage \in Nat
    BY <1>2, <1>4
  <2> HIDE DEF page, to
  <2> QED
    BY <1>2, <1>3, <1>4, <2>1 DEF Readers
<1>7. ASSUME ~v10.failed, NEW q \in v10.due
      PROVE  /\ q \in v8 /\ Consoled!Rank(q) \in Nat
             /\ \/ q \in v10'.got \/ v7[q].stamp <= v9
                \/ (Consoled!Rank(q) >= v10'.offset /\ to = "loading")
  <2>1. q \in v8
    BY DEF Consoled!IInv, Consoled!ReaderOK
  <2>2. q \in v10.got \/ v7[q].stamp <= v9 \/ Consoled!Rank(q) >= v10.offset
    BY <1>1, <1>7 DEF Consoled!IInv, Consoled!ReaderOK
  <2>3. Consoled!Rank(q) \in Nat /\ Consoled!Cardinality(Consoled!InLog) \in Nat
          /\ (q \in Consoled!InLog => Consoled!Rank(q) < Consoled!Cardinality(Consoled!InLog))
    BY <2>1, RankOK
  <2>4. CASE q \notin v10.got /\ ~(v7[q].stamp <= v9)
    <3>1. q \in Consoled!InLog
      <4>1. v7[q].stamp \in Int
        BY <1>2, <2>1 DEF Askings
      <4> QED
        BY <1>2, <2>1, <2>4, <4>1 DEF Consoled!InLog
    <3>2. Consoled!Rank(q) >= v10.offset
            /\ Consoled!Rank(q) < Consoled!Cardinality(Consoled!InLog)
      BY <2>2, <2>3, <2>4, <3>1
    <3>3. CASE Consoled!Rank(q) <= v10.offset + RowsPerPage - 1
      <4>1. q \in page
        BY <1>2, <1>4, <2>3, <3>1, <3>2, <3>3
      <4> QED
        BY <1>5, <2>1, <2>3, <4>1
    <3>4. CASE ~(Consoled!Rank(q) <= v10.offset + RowsPerPage - 1)
      <4>1. Consoled!Rank(q) >= v10.offset + RowsPerPage
              /\ Consoled!Cardinality(Consoled!InLog) > v10.offset + RowsPerPage
        BY <1>2, <1>4, <2>3, <3>2, <3>4
      <4> QED
        BY <1>5, <2>1, <2>3, <4>1
    <3> QED
      BY <3>3, <3>4
  <2> QED
    BY <1>5, <2>1, <2>3, <2>4
<1> HIDE DEF page, to
<1>8. \A q \in v8 : Consoled!Rank(q)' = Consoled!Rank(q)
  BY <1>1 DEF Consoled!Rank, Consoled!InLog
<1>9. to \in { "loading", "done" }
  BY DEF to
<1>10. Consoled!ReaderOK'
  <2>1. v10'.due \subseteq v8'
    BY <1>1, <1>5 DEF Consoled!IInv, Consoled!ReaderOK
  <2> QED
    BY <1>1, <1>5, <1>7, <1>8, <1>9, <2>1 DEF Consoled!ReaderOK
<1>11. Consoled!LogIsWhole'
  BY <1>1, <1>5, <1>7 DEF Consoled!IInv, Consoled!LogIsWhole
<1> QED
  BY <1>1, <1>2, <1>6, <1>10, <1>11, ReaderStep

LEMMA LoadFailsStep ==
  ASSUME Consoled!ConsoleAssumption, Consoled!IInv, Consoled!LoadFails
  PROVE  Consoled!IInv'
<1> DEFINE yes == TRUE
<1>1. UNCHANGED << v1, v2, v3, v7, v8, v9 >> /\ Consoled!ListStays
      /\ yes \in BOOLEAN /\ yes /\ v10' = [ v10 EXCEPT !.at = "done", !.failed = yes ]
  BY DEF Consoled!LoadFails
<1> HIDE DEF yes
<1>2. v10 \in Readers /\ v9 \in Nat
  BY TypeParts DEF Consoled!IInv, LogTypeOK
<1>3. v10' \in Readers /\ v10'.at = "done" /\ v10'.failed = yes /\ v10'.due = v10.due
  BY <1>1, <1>2 DEF Readers
<1>4. Consoled!ReaderOK' /\ Consoled!LogIsWhole'
  BY <1>1, <1>3 DEF Consoled!IInv, Consoled!ReaderOK, Consoled!LogIsWhole
<1> QED
  BY <1>1, <1>2, <1>3, <1>4, TroubleOK, ReaderStep DEF Consoled!LoadFails

\* Rows become too old in their order: those ahead of one that has not are as before.
LEMMA RowExpiresStep ==
  ASSUME Consoled!ConsoleAssumption, Consoled!IInv, Consoled!RowExpires
  PROVE  Consoled!IInv'
<1>1. UNCHANGED << v1, v2, v3, v7, v8, v10, v11 >> /\ Consoled!ListStays
      /\ v9' = v9 + 1
  BY DEF Consoled!RowExpires
<1>2. v10 \in Readers /\ v9 \in Nat /\ v11 \in 0..MaxConsoleTroubles /\ v8 \subseteq Requests
      /\ \A q \in Requests : v7[q].stamp \in Int
  BY TypeParts DEF Consoled!IInv, LogTypeOK, ListTypeOK, Askings
<1>3. v9' \in Nat
  BY <1>1, <1>2
<1>4. ASSUME NEW q \in v8, ~(v7[q].stamp <= v9') PROVE Consoled!Rank(q)' = Consoled!Rank(q)
  <2>1. \A p \in v8 : v7[p].stamp > v7[q].stamp
          => v7[p].stamp > v9 /\ v7[p].stamp > v9'
    BY <1>1, <1>2, <1>4
  <2>2. { p \in Consoled!InLog' : v7'[p].stamp > v7'[q].stamp }
          = { p \in Consoled!InLog : v7[p].stamp > v7[q].stamp }
    BY <1>1, <2>1 DEF Consoled!InLog
  <2> QED
    BY <2>2 DEF Consoled!Rank
<1>5. \A q \in Requests : v7[q].stamp <= v9 => v7[q].stamp <= v9'
  BY <1>1, <1>2
<1>6. Consoled!ReaderOK'
  <2>1. v10.due \subseteq v8
    BY DEF Consoled!IInv, Consoled!ReaderOK
  <2>2. ASSUME v10.at = "loading", ~v10.failed, NEW q \in v10.due
        PROVE  q \in v10.got \/ v7[q].stamp <= v9' \/ Consoled!Rank(q)' >= v10.offset
    <3>1. q \in v10.got \/ v7[q].stamp <= v9 \/ Consoled!Rank(q) >= v10.offset
      BY <2>2 DEF Consoled!IInv, Consoled!ReaderOK
    <3> QED
      BY <1>2, <1>4, <1>5, <2>1, <3>1
  <2> QED
    BY <1>1, <2>1, <2>2 DEF Consoled!IInv, Consoled!ReaderOK
<1>7. Consoled!LogIsWhole'
  <2>1. v10.due \subseteq Requests
    BY <1>2 DEF Readers
  <2> QED
    BY <1>1, <1>5, <2>1 DEF Consoled!IInv, Consoled!LogIsWhole
<1> QED
  BY <1>1, <1>2, <1>3, <1>6, <1>7, ReaderStep

LEMMA ConsoledInvNext ==
  ASSUME Consoled!ConsoleAssumption, Consoled!IInv, [Consoled!Next]_Consoled!vars
  PROVE  Consoled!IInv'
<1>1. CASE UNCHANGED Consoled!vars
  <2>1. Consoled!ListStays /\ Consoled!LogStays /\ UNCHANGED v3 /\ UNCHANGED << v1, v2, v11 >>
    BY <1>1 DEF Consoled!vars, Consoled!ListStays, Consoled!LogStays
  <2>2. ListTypeOK'
    BY <2>1, TypeParts DEF Consoled!IInv, ListTypeOK, Consoled!ListStays
  <2> QED
    BY <2>1, <2>2, LogKept, ListKept, Together
<1>2. CASE Consoled!Lists \/ Consoled!QueryEnds \/ Consoled!QueryFails \/ Consoled!ListFails
             \/ Consoled!HourPasses
  BY <1>2, ConsoledListsStep, QueryStep, ListFailsStep, HourPassesStep
<1>3. CASE Consoled!Opens \/ Consoled!LoadsPage \/ Consoled!LoadFails \/ Consoled!RowExpires
  BY <1>3, ConsoledOpensStep, LoadsPageStep, LoadFailsStep, RowExpiresStep
<1> QED
  BY <1>1, <1>2, <1>3, ConsoledRunStep, RequestsStep DEF Consoled!Next

\* A list that is answered without a failure has no query left.
LEMMA ListWhole == ASSUME Consoled!IInv PROVE Consoled!ListIsWhole
<1>1. v4.at = "answered" /\ ~v4.failed => DOMAIN v4.left = {}
  BY DEF Consoled!IInv, Consoled!LeftOK
<1> QED
  BY <1>1 DEF Consoled!IInv, Consoled!OwedOK, Consoled!SeenOK, Consoled!ListIsWhole

LEMMA ConsoledSteps ==
  ASSUME focus = "consoled", [Next]_v
  PROVE  focus' = "consoled" /\ [Consoled!Next]_Consoled!vars
  BY DEF Next, v, Consoled!vars, Kept11

LEMMA ConsoledInvariant == Spec => [](focus = "consoled" => Consoled!IInv)
<1> DEFINE Inv == focus = "consoled" => Consoled!IInv
<1>1. Init => Inv
  BY ConsoledAssumption, ConsoledInvInit DEF Init
<1>2. Inv /\ [Next]_v => Inv'
  BY ConsoledAssumption, ConsoledInvNext, ConsoledSteps, FocusStays
<1> QED
  BY <1>1, <1>2, PTL DEF Spec

\* src/admin/workflow_console.py, audit.py: however many runs, requests and rows there
\* are, a list that did not fail has every run that it was to show, and who loads the
\* log to its end has seen every row that was there.
THEOREM ConsoleTellsAll == Spec => []ConsoleIsTrue
<1>1. (focus = "consoled" => Consoled!IInv) => ConsoleIsTrue
  BY ListWhole DEF ConsoleIsTrue, Consoled!IInv
<1> QED
  BY <1>1, ConsoledInvariant, PTL

(***************************************************************************)
(* Reputation: Records of experts.  The samples, the weights and the tier  *)
(* of each copy of a record, in memory, in the row or in hand, are of no   *)
(* more outcomes than were received. The variables: v1 received, v2        *)
(* memory, v3 row, v4 update, v5 review.                                   *)
(***************************************************************************)

Calls == [ at : { "idle", "get", "flush" }, result : Reputed!Records, seen : Reputed!Records ]

\* What is said of a record, with the count of the indicators.
Earned(r, n) ==
  /\ r.samples <= n /\ Reputed!Needed(r.tier) <= n /\ r.sum \in -120 * n .. 120 * n

LEMMA ReceivedIs == \A r : Reputed!Received(r) <=> Earned(r, v1)
  BY DEF Reputed!Received, Earned

LEMMA RecordsAre ==
  ASSUME Reputed!ReputationAssumption
  PROVE  /\ Reputed!NoRecord \in Reputed!Records
         /\ \A tier \in Reputed!Tiers : Reputed!Needed(tier) \in Nat
         /\ Reputed!Tiers = { "shadow", "probation", "trusted" }
         /\ \A n \in 0..MaxReceived : Earned(Reputed!NoRecord, n)
  BY DEF Reputed!ReputationAssumption, Reputed!NoRecord, Reputed!Records, Reputed!Needed,
         Reputed!Tiers, Reputed!Rank, Earned

\* An indicator weighs 120 per cent at most, for or against.
LEMMA WeightsAre ==
  ASSUME Reputed!ReputationAssumption, NEW w \in Reputed!Indicators PROVE w \in -120..120
<1>1. CASE w \in Reputed!ReopenIndicators
  BY <1>1 DEF Reputed!ReopenIndicators, Reputed!ReopenWeight
<1>2. CASE w \in { Reputed!Normalized(o, b) : o \in Outcomes, b \in Bands }
  <2>1. PICK o \in Outcomes, b \in Bands : w = Reputed!Normalized(o, b)
    BY <1>2
  <2>2. o \in { "success", "failure", "loopback" } /\ b \in { "low", "medium", "high" }
    BY DEF Reputed!ReputationAssumption
  <2>3. Reputed!Multiplier(o, b) \in { 80, 100, 120 }
    BY <2>2 DEF Reputed!Multiplier
  <2>4. Reputed!BaseWeight[o] \in { 100, -100, -50 }
    BY <2>2 DEF Reputed!BaseWeight
  <2>5. w = (Reputed!BaseWeight[o] * Reputed!Multiplier(o, b)) \div 100
    BY <2>1 DEF Reputed!Normalized
  <2> DEFINE x == Reputed!BaseWeight[o]  y == Reputed!Multiplier(o, b)
  <2>6. w = (x * y) \div 100 /\ x \in { 100, -100, -50 } /\ y \in { 80, 100, 120 }
    BY <2>3, <2>4, <2>5
  <2> HIDE DEF x, y
  <2> QED
    BY <2>6
<1> QED
  BY <1>1, <1>2 DEF Reputed!Indicators

-----------------------------------------------------------------------------
\* A record with another indicator has the samples that its tier takes.
LEMMA TierEarned ==
  ASSUME Reputed!ReputationAssumption, NEW n \in 0..MaxReceived, NEW r \in Reputed!Records,
         NEW decay,
         Earned(r, n)
  PROVE  Reputed!Tier(r, decay) \in Reputed!Tiers /\ Reputed!Needed(Reputed!Tier(r, decay)) <= n
<1>1. r.samples \in Nat /\ r.samples <= n /\ Reputed!Needed(r.tier) <= n
      /\ r.tier \in { "shadow", "probation", "trusted" }
  BY RecordsAre DEF Earned, Reputed!Records
<1>2. /\ Reputed!Needed("shadow") = 0 /\ Reputed!Needed("probation") = ConfidentFrom[30]
      /\ Reputed!Needed("trusted") = ConfidentFrom[60]
      /\ ConfidentFrom[30] \in Nat /\ ConfidentFrom[60] \in Nat
      /\ ConfidentFrom[30] <= ConfidentFrom[60]
  BY DEF Reputed!Needed, Reputed!ReputationAssumption
<1>3. Reputed!Promoted(r, decay, "to_probation", 30, 30) => ConfidentFrom[30] <= r.samples
  BY <1>1, <1>2 DEF Reputed!Promoted, Reputed!Confident
<1>4. Reputed!Promoted(r, decay, "to_trusted", 50, 60) => ConfidentFrom[60] <= r.samples
  BY <1>1, <1>2 DEF Reputed!Promoted, Reputed!Confident
<1>5. \/ Reputed!Tier(r, decay) = "probation" /\ r.tier = "shadow"
         /\ Reputed!Promoted(r, decay, "to_probation", 30, 30)
      \/ Reputed!Tier(r, decay) = "trusted" /\ Reputed!Promoted(r, decay, "to_trusted", 50, 60)
      \/ Reputed!Tier(r, decay) = "shadow"
      \/ Reputed!Tier(r, decay) = "probation" /\ r.tier = "trusted"
      \/ Reputed!Tier(r, decay) = r.tier
  BY <1>1 DEF Reputed!Tier
<1>6. Reputed!Tier(r, decay) \in Reputed!Tiers
  BY <1>1, <1>5, RecordsAre
<1> QED
  BY <1>1, <1>2, <1>3, <1>4, <1>5, <1>6

LEMMA CountedEarned ==
  ASSUME Reputed!ReputationAssumption, NEW w \in Reputed!Indicators, NEW decay,
         v1 \in 0..MaxReceived, v1 < MaxReceived,
         v2 \in Reputed!Records, Reputed!Received(v2)
  PROVE  Reputed!Counted(w, decay) \in Reputed!Records
           /\ Earned(Reputed!Counted(w, decay), v1 + 1)
<1> DEFINE n == v1 + 1
           sum == [ v2 EXCEPT !.samples = @ + 1, !.sum = @ + w ]
<1>1. n \in 0..MaxReceived /\ w \in -120..120 /\ MaxReceived \in Nat
  BY WeightsAre DEF Reputed!ReputationAssumption
<1>2. v2.samples \in Nat /\ v2.samples <= v1 /\ Reputed!Needed(v2.tier) <= v1
      /\ v2.sum \in -120 * v1 .. 120 * v1 /\ v2.tier \in Reputed!Tiers
      /\ Reputed!Needed(v2.tier) \in Nat
  BY ReceivedIs, RecordsAre DEF Earned, Reputed!Records
<1>3. /\ v2.samples + 1 \in 0..MaxReceived /\ v2.samples + 1 <= n
      /\ v2.sum + w \in -120 * n .. 120 * n
      /\ v2.sum + w \in -120 * MaxReceived .. 120 * MaxReceived
      /\ Reputed!Needed(v2.tier) <= n
  BY <1>1, <1>2
<1>4. /\ sum.samples = v2.samples + 1 /\ sum.sum = v2.sum + w /\ sum.tier = v2.tier
      /\ sum \in Reputed!Records
  BY <1>3 DEF Reputed!Records
<1> HIDE DEF sum
<1>5. sum \in Reputed!Records /\ Earned(sum, n) /\ sum.samples = v2.samples + 1
  BY <1>3, <1>4 DEF Earned
<1>6. Reputed!Tier(sum, decay) \in Reputed!Tiers /\ Reputed!Needed(Reputed!Tier(sum, decay)) <= n
  BY <1>1, <1>5, TierEarned
<1>7. [ sum EXCEPT !.tier = Reputed!Tier(sum, decay) ] \in Reputed!Records
      /\ Earned([ sum EXCEPT !.tier = Reputed!Tier(sum, decay) ], n)
  BY <1>5, <1>6 DEF Reputed!Records, Earned
<1>8. Reputed!Counted(w, decay) \in { sum, [ sum EXCEPT !.tier = Reputed!Tier(sum, decay) ] }
  BY DEF Reputed!Counted, sum
<1> QED
  BY <1>5, <1>7, <1>8

\* What was received stays received.
LEMMA MoreReceived ==
  ASSUME Reputed!ReputationAssumption, NEW n \in 0..MaxReceived, n + 1 <= MaxReceived,
         NEW r \in Reputed!Records, Earned(r, n)
  PROVE  Earned(r, n + 1)
<1>1. Reputed!Needed(r.tier) \in Nat /\ r.samples \in Nat /\ r.sum \in Int
  BY RecordsAre DEF Reputed!Records, Reputed!ReputationAssumption
<1> QED
  BY <1>1 DEF Earned

-----------------------------------------------------------------------------
LEMMA ReputedInvInit == ASSUME Reputed!ReputationAssumption, Reputed!Init PROVE Reputed!IInv
<1>1. v1 \in 0..MaxReceived /\ v1 = 0
  BY DEF Reputed!Init, Reputed!ReputationAssumption
<1>2. Reputed!Idle \in Calls /\ Reputed!Idle.result = Reputed!NoRecord
        /\ Reputed!Idle.seen = Reputed!NoRecord
  BY RecordsAre DEF Calls, Reputed!Idle
<1>3. Reputed!TypeOK
  BY <1>1, <1>2, RecordsAre DEF Reputed!Init, Reputed!TypeOK, Calls
<1>4. Reputed!Received(Reputed!NoRecord)
  BY <1>1, RecordsAre, ReceivedIs
<1> QED
  BY <1>2, <1>3, <1>4 DEF Reputed!Init, Reputed!IInv

\* The calls, one of which has become another.
LEMMA CallsAre ==
  ASSUME Reputed!ReputationAssumption, Reputed!TypeOK, NEW u \in Requests, NEW call \in Calls,
         v4' = [ v4 EXCEPT ![u] = call ]
  PROVE  /\ v4' \in [ Requests -> Calls ]
         /\ \A t \in Requests : v4'[t] = IF t = u THEN call ELSE v4[t]
  BY DEF Reputed!TypeOK, Calls

\* A step that receives nothing: the records stay, or become what one of them says.
LEMMA ReputedStoresStep ==
  ASSUME Reputed!ReputationAssumption, Reputed!IInv, UNCHANGED << v1, v5 >>,
         v2' \in Reputed!Records, Earned(v2', v1),
         v3' \in Reputed!Records, Earned(v3', v1),
         v4' \in [ Requests -> Calls ],
         \A u \in Requests : Earned(v4'[u].result, v1) /\ Earned(v4'[u].seen, v1)
  PROVE  Reputed!IInv'
<1>1. Reputed!TypeOK'
  BY DEF Reputed!IInv, Reputed!TypeOK, Calls
<1>2. \A r : Reputed!Received(r)' <=> Earned(r', v1)
  BY DEF Reputed!Received, Earned
<1>3. Reputed!Received(v2)' /\ Reputed!Received(v3)'
  BY DEF Reputed!Received, Earned
<1>4. \A u \in Requests : Reputed!Received(v4[u].result)' /\ Reputed!Received(v4[u].seen)'
  BY DEF Reputed!Received, Earned
<1> QED
  BY <1>1, <1>3, <1>4 DEF Reputed!IInv

LEMMA InvEarned ==
  ASSUME Reputed!ReputationAssumption, Reputed!IInv
  PROVE  /\ v1 \in 0..MaxReceived /\ v2 \in Reputed!Records /\ v3 \in Reputed!Records
         /\ Earned(v2, v1) /\ Earned(v3, v1)
         /\ v4 \in [ Requests -> Calls ]
         /\ \A u \in Requests :
              /\ v4[u].result \in Reputed!Records /\ v4[u].seen \in Reputed!Records
                                /\ Earned(v4[u].result, v1)
                                /\ Earned(v4[u].seen, v1)
         /\ Reputed!Idle \in Calls /\ Earned(Reputed!Idle.result, v1)
         /\ Earned(Reputed!Idle.seen, v1)
         /\ Reputed!NoRecord \in Reputed!Records /\ Earned(Reputed!NoRecord, v1)
<1>1. v1 \in 0..MaxReceived /\ v4 \in [ Requests -> Calls ]
      /\ v2 \in Reputed!Records /\ v3 \in Reputed!Records
  BY DEF Reputed!IInv, Reputed!TypeOK, Calls
<1>2. Earned(v2, v1) /\ Earned(v3, v1)
      /\ \A u \in Requests : /\ Earned(v4[u].result, v1)
                             /\ Earned(v4[u].seen, v1)
  BY ReceivedIs DEF Reputed!IInv
<1>3. Reputed!NoRecord \in Reputed!Records /\ Earned(Reputed!NoRecord, v1)
  BY <1>1, RecordsAre
<1>4. Reputed!Idle \in Calls /\ Reputed!Idle.result = Reputed!NoRecord
        /\ Reputed!Idle.seen = Reputed!NoRecord
  BY <1>3 DEF Calls, Reputed!Idle
<1>5. \A u \in Requests : v4[u].result \in Reputed!Records /\ v4[u].seen \in Reputed!Records
  BY <1>1 DEF Calls
<1> QED
  BY <1>1, <1>2, <1>3, <1>4, <1>5

LEMMA ReputedReceivesStep ==
  ASSUME Reputed!ReputationAssumption, Reputed!IInv, NEW u \in Requests,
         Reputed!Receives(u) PROVE Reputed!IInv'
<1>1. PICK w \in Reputed!Indicators, decay \in Decays :
        /\ v2' = Reputed!Counted(w, decay)
        /\ v4' = [ v4 EXCEPT ![u] =
                         [ Reputed!Idle EXCEPT !.at = "get", !.result = Reputed!Counted(w, decay) ] ]
  BY DEF Reputed!Receives
<1>2. v1' = v1 + 1 /\ v1 < MaxReceived /\ UNCHANGED << v3, v5 >>
  BY DEF Reputed!Receives
<1> DEFINE n == v1 + 1
<1>3. v2' \in Reputed!Records /\ Earned(v2', n)
  BY <1>1, <1>2, CountedEarned DEF Reputed!IInv, Reputed!TypeOK
<1>4. v1 \in 0..MaxReceived /\ n \in 0..MaxReceived /\ n <= MaxReceived
  BY <1>2 DEF Reputed!IInv, Reputed!TypeOK, Reputed!ReputationAssumption
<1> DEFINE call == [ Reputed!Idle EXCEPT !.at = "get", !.result = v2' ]
<1>5. call \in Calls /\ call.result = v2' /\ call.seen = Reputed!NoRecord
  BY <1>3, RecordsAre DEF Calls, Reputed!Idle
<1>6. v4' = [ v4 EXCEPT ![u] = call ]
  BY <1>1
<1> HIDE DEF call
<1>7. /\ v4' \in [ Requests -> Calls ]
      /\ \A t \in Requests : v4'[t] = IF t = u THEN call ELSE v4[t]
  BY <1>5, <1>6, CallsAre DEF Reputed!IInv
<1>8. Earned(v3, n) /\ Earned(Reputed!NoRecord, n)
  BY <1>4, InvEarned, MoreReceived
<1>9. \A t \in Requests : Earned(v4'[t].result, n) /\ Earned(v4'[t].seen, n)
  <2>1. \A t \in Requests : Earned(v4[t].result, n) /\ Earned(v4[t].seen, n)
    BY <1>4, InvEarned, MoreReceived
  <2> QED
    BY <1>3, <1>5, <1>7, <1>8, <2>1
<1>10. Reputed!TypeOK'
  BY <1>2, <1>3, <1>4, <1>7 DEF Reputed!IInv, Reputed!TypeOK, Calls
<1>11. Reputed!Received(v2)' /\ Reputed!Received(v3)'
  BY <1>2, <1>3, <1>8 DEF Reputed!Received, Earned
<1>12. \A t \in Requests : Reputed!Received(v4[t].result)' /\ Reputed!Received(v4[t].seen)'
  BY <1>2, <1>9 DEF Reputed!Received, Earned
<1> QED
  BY <1>2, <1>10, <1>11, <1>12 DEF Reputed!IInv

LEMMA GetsStep ==
  ASSUME Reputed!ReputationAssumption, Reputed!IInv, NEW u \in Requests, Reputed!Gets(u)
  PROVE  Reputed!IInv'
<1> DEFINE call == [ at |-> "flush", result |-> v4[u].result, seen |-> v3 ]
<1>1. call \in Calls /\ call.result = v4[u].result /\ call.seen = v3
  BY InvEarned DEF Calls
<1>2. /\ v4' \in [ Requests -> Calls ]
      /\ \A t \in Requests : v4'[t] = IF t = u THEN call ELSE v4[t]
  <2>1. v4 \in [ Requests -> Calls ] /\ v3 \in Reputed!Records
    BY InvEarned
  <2>2. v4'[u] = call /\ v4' = [ v4 EXCEPT ![u] = v4'[u] ]
    BY <2>1 DEF Reputed!Gets, Calls
  <2>3. v4' = [ v4 EXCEPT ![u] = call ]
    BY <2>2
  <2> HIDE DEF call
  <2> QED
    BY <1>1, <2>3, CallsAre DEF Reputed!IInv
<1> HIDE DEF call
<1>3. UNCHANGED << v1, v2, v3, v5 >>
  BY DEF Reputed!Gets
<1> QED
  BY <1>1, <1>2, <1>3, InvEarned, ReputedStoresStep

\* A call is over.
LEMMA IdleStep ==
  ASSUME Reputed!ReputationAssumption, Reputed!IInv, NEW u \in Requests,
         UNCHANGED << v1, v2, v5 >>,
         v4' = [ v4 EXCEPT ![u] = Reputed!Idle ],
         v3' \in Reputed!Records, Earned(v3', v1)
  PROVE  Reputed!IInv'
<1>1. /\ v4' \in [ Requests -> Calls ]
      /\ \A t \in Requests : v4'[t] = IF t = u THEN Reputed!Idle ELSE v4[t]
  BY CallsAre, InvEarned DEF Reputed!IInv
<1> QED
  BY <1>1, InvEarned, ReputedStoresStep

\* Each column of the row is the one of a record that was earned.
LEMMA StoresRow ==
  ASSUME Reputed!ReputationAssumption, Reputed!IInv, NEW u \in Requests, Reputed!Stores(u)
  PROVE  v3' \in Reputed!Records /\ Earned(v3', v1)
<1> DEFINE result == v4[u].result
           seen == v4[u].seen
           Column(c) == IF result[c] # seen[c] THEN result[c] ELSE v3[c]
<1>1. result \in Reputed!Records /\ v3 \in Reputed!Records /\ Earned(result, v1) /\ Earned(v3, v1)
  BY InvEarned
<1>2. CASE v3' = result \/ v3' = v3
  BY <1>1, <1>2
<1>3. CASE v3' = [ c \in DOMAIN v3 |-> Column(c) ]
  <2>1. DOMAIN v3 = { "samples", "sum", "tier" }
    BY <1>1 DEF Reputed!Records
  <2>2. v3' = [ samples |-> Column("samples"), sum |-> Column("sum"), tier |-> Column("tier") ]
    BY <1>3, <2>1
  <2>3. /\ Column("samples") \in { result.samples, v3.samples }
        /\ Column("sum") \in { result.sum, v3.sum }
        /\ Column("tier") \in { result.tier, v3.tier }
    OBVIOUS
  <2> HIDE DEF Column
  <2> QED
    BY <1>1, <2>2, <2>3 DEF Reputed!Records, Earned
<1> QED
  BY <1>2, <1>3 DEF Reputed!Stores

LEMMA CallStep ==
  ASSUME Reputed!ReputationAssumption, Reputed!IInv, NEW u \in Requests,
         Reputed!Stores(u) \/ Reputed!Fails(u) PROVE Reputed!IInv'
<1>1. CASE Reputed!Stores(u)
  BY <1>1, StoresRow, IdleStep DEF Reputed!Stores
<1>2. CASE Reputed!Fails(u)
  BY <1>2, InvEarned, IdleStep DEF Reputed!Fails
<1> QED
  BY <1>1, <1>2

LEMMA QueriesStep ==
  ASSUME Reputed!ReputationAssumption, Reputed!IInv, Reputed!Queries
  PROVE  Reputed!IInv'
  BY InvEarned, ReputedStoresStep DEF Reputed!Queries

\* The count of declines starts again, and all calls are over.
LEMMA RestartStep ==
  ASSUME Reputed!ReputationAssumption, Reputed!IInv, Reputed!Restart
  PROVE  Reputed!IInv'
<1>1. /\ v2' = Reputed!NoRecord /\ v4' = [ u \in Requests |-> Reputed!Idle ]
      /\ v5' = [ v5 EXCEPT !.declining = 0 ] /\ UNCHANGED << v1, v3 >>
  BY DEF Reputed!Restart
<1>2. v5' \in [ tier : Reputed!Tiers, declining : 0..3 ] /\ v5'.declining = 0
  BY <1>1 DEF Reputed!IInv, Reputed!TypeOK
<1>3. Reputed!TypeOK'
  BY <1>1, <1>2, InvEarned DEF Reputed!TypeOK, Calls
<1>4. Reputed!Received(v2)' /\ Reputed!Received(v3)'
  BY <1>1, InvEarned DEF Reputed!Received, Earned
<1>5. \A t \in Requests : Reputed!Received(v4[t].result)' /\ Reputed!Received(v4[t].seen)'
  BY <1>1, InvEarned DEF Reputed!Received, Earned
<1> QED
  BY <1>2, <1>3, <1>4, <1>5 DEF Reputed!IInv

\* Whoever declines for the third time loses a tier, and nobody who declines is
\* computed to be trusted.
LEMMA ReviewsStep ==
  ASSUME Reputed!ReputationAssumption, Reputed!IInv, Reputed!Reviews
  PROVE  Reputed!IInv'
<1>1. PICK drift \in Reputed!Drifts(v2), decay \in Decays :
        LET declining == IF drift = "declining" THEN Reputed!Min3(v5.declining + 1) ELSE 0
        IN  v5' = [ declining |-> declining,
                        tier |-> Reputed!Moved(v5.tier, Reputed!ComputedTier(v2, decay, drift), declining) ]
  BY DEF Reputed!Reviews
<1> DEFINE declining == IF drift = "declining" THEN Reputed!Min3(v5.declining + 1) ELSE 0
           computed == Reputed!ComputedTier(v2, decay, drift)
<1>2. v5.declining \in 0..3 /\ v5.tier \in { "shadow", "probation", "trusted" }
  BY RecordsAre DEF Reputed!IInv, Reputed!TypeOK
<1>3. declining \in 0..3 /\ (declining = 3 => drift = "declining")
  BY <1>2 DEF Reputed!Min3
<1>4. computed \in { "shadow", "probation", "trusted" }
      /\ (drift = "declining" => computed # "trusted")
  BY DEF Reputed!ComputedTier
<1>5. v5' = [ declining |-> declining, tier |-> Reputed!Moved(v5.tier, computed, declining) ]
  BY <1>1
<1> HIDE DEF declining, computed
<1>6. /\ Reputed!Moved(v5.tier, computed, declining) \in { "shadow", "probation", "trusted" }
      /\ declining = 3 => Reputed!Moved(v5.tier, computed, declining) # "trusted"
  BY <1>2, <1>3, <1>4 DEF Reputed!Moved, Reputed!Below
<1>7. v5' \in [ tier : Reputed!Tiers, declining : 0..3 ]
      /\ (v5'.declining = 3 => v5'.tier # "trusted")
  BY <1>3, <1>5, <1>6, RecordsAre
<1>8. UNCHANGED << v1, v2, v3, v4 >>
  BY DEF Reputed!Reviews
<1>9. Reputed!TypeOK'
  BY <1>7, <1>8 DEF Reputed!IInv, Reputed!TypeOK
<1> QED
  BY <1>7, <1>8, <1>9 DEF Reputed!IInv, Reputed!Received

LEMMA ReputedInvNext ==
  ASSUME Reputed!ReputationAssumption, Reputed!IInv, [Reputed!Next]_Reputed!vars
  PROVE  Reputed!IInv'
<1>1. CASE UNCHANGED Reputed!vars
  BY <1>1 DEF Reputed!vars, Reputed!IInv, Reputed!TypeOK, Reputed!Received
<1> QED
  BY <1>1, ReputedReceivesStep, GetsStep, CallStep, QueriesStep, RestartStep, ReviewsStep
  DEF Reputed!Next

LEMMA ReputedSteps ==
  ASSUME focus = "reputed", [Next]_v
  PROVE  focus' = "reputed" /\ [Reputed!Next]_Reputed!vars
  BY DEF Next, v, Reputed!vars, Kept5

LEMMA ReputedInvariant == Spec => [](focus = "reputed" => Reputed!IInv)
<1> DEFINE Inv == focus = "reputed" => Reputed!IInv
<1>1. Init => Inv
  BY ReputedAssumption, ReputedInvInit DEF Init
<1>2. Inv /\ [Next]_v => Inv'
  BY ReputedAssumption, ReputedInvNext, ReputedSteps, FocusStays
<1> QED
  BY <1>1, <1>2, PTL DEF Spec

\* src/reputation: whatever is lost, stored over or read back, no record has more
\* samples than were received nor a tier that they were too few for, and nobody who
\* declines for the third time is trusted.
THEOREM TrustTakesSamples == Spec => []TrustIsEarned
<1>1. (focus = "reputed" => Reputed!IInv) => TrustIsEarned
  BY DEF TrustIsEarned, Reputed!TrustIsEarned, Reputed!IInv, Reputed!Received
<1> QED
  BY <1>1, ReputedInvariant, PTL

-----------------------------------------------------------------------------
(* Types *)

FirstTyped ==
  /\ focus = "repository" => Repository!TypeOK
  /\ focus = "trust" => Trust!TypeOK
  /\ focus = "gateway" => Gateway!TypeOK
  /\ focus = "branch" => Branch!TypeOK
  /\ focus = "setting" => Setting!TypeOK
  /\ focus = "pull_request" => PullRequest!TypeOK
  /\ focus = "poller" => Poller!TypeOK
  /\ focus = "container" => Container!TypeOK

MiddleTyped ==
  /\ focus = "events" => Events!TypeOK
  /\ focus = "dashboard" => Dashboard!TypeOK
  /\ focus = "library" => Library!TypeOK
  /\ focus = "intent" => Intent!TypeOK
  /\ focus = "consulted" => Consulted!TypeOK
  /\ focus = "ready" => Ready!TypeOK
  /\ focus = "assembled" => Assembled!TypeOK
  /\ focus = "reputed" => Reputed!TypeOK

LastTyped ==
  /\ focus = "shown" => Shown!TypeOK
  /\ focus = "reviewed" => Reviewed!TypeOK
  /\ focus = "verified" => Verified!TypeOK
  /\ focus = "aside" => Aside!TypeOK
  /\ focus = "spending" => Spending!TypeOK
  /\ focus = "complied" => Complied!TypeOK
  /\ focus = "plane" => Plane!TypeOK
  /\ focus = "consoled" => Consoled!TypeOK

LEMMA FirstTypes == Spec => []FirstTyped
<1>1. Repository!IInv => Repository!TypeOK
  BY DEF Repository!IInv
<1>2. Trust!IInv => Trust!TypeOK
  BY DEF Trust!IInv
<1>3. Gateway!IInv => Gateway!TypeOK
  BY DEF Gateway!IInv
<1>4. Branch!IInv => Branch!TypeOK
  BY DEF Branch!IInv
<1>5. Setting!IInv => Setting!TypeOK
  BY DEF Setting!IInv
<1>6. PullRequest!IInv => PullRequest!TypeOK
  BY DEF PullRequest!IInv
<1>7. Poller!IInv => Poller!TypeOK
  BY DEF Poller!IInv
<1>8. Container!IInv => Container!TypeOK
  BY DEF Container!IInv
<1>9. /\ focus = "repository" => Repository!IInv
      /\ focus = "trust" => Trust!IInv
      /\ focus = "gateway" => Gateway!IInv
      /\ focus = "branch" => Branch!IInv
      /\ focus = "setting" => Setting!IInv
      /\ focus = "pull_request" => PullRequest!IInv
      /\ focus = "poller" => Poller!IInv
      /\ focus = "container" => Container!IInv
      => FirstTyped
  BY <1>1, <1>2, <1>3, <1>4, <1>5, <1>6, <1>7, <1>8 DEF FirstTyped
<1> QED
  BY <1>9, RepositoryInvariant, TrustInvariant, GatewayInvariant, BranchInvariant,
     SettingInvariant, PullRequestInvariant, PollerInvariant, ContainerInvariant, PTL

LEMMA MiddleTypes == Spec => []MiddleTyped
<1>1. Events!IInv => Events!TypeOK
  BY DEF Events!IInv
<1>2. Dashboard!IInv => Dashboard!TypeOK
  BY DEF Dashboard!IInv
<1>3. Library!IInv => Library!TypeOK
  BY DEF Library!IInv
<1>4. Intent!IInv => Intent!TypeOK
  BY DEF Intent!IInv
<1>5. Consulted!IInv => Consulted!TypeOK
  BY DEF Consulted!IInv
<1>6. Ready!IInv => Ready!TypeOK
  BY DEF Ready!IInv
<1>7. Assembled!IInv => Assembled!TypeOK
  BY DEF Assembled!IInv
<1>8. Reputed!IInv => Reputed!TypeOK
  BY DEF Reputed!IInv
<1>9. /\ focus = "events" => Events!IInv
      /\ focus = "dashboard" => Dashboard!IInv
      /\ focus = "library" => Library!IInv
      /\ focus = "intent" => Intent!IInv
      /\ focus = "consulted" => Consulted!IInv
      /\ focus = "ready" => Ready!IInv
      /\ focus = "assembled" => Assembled!IInv
      /\ focus = "reputed" => Reputed!IInv
      => MiddleTyped
  BY <1>1, <1>2, <1>3, <1>4, <1>5, <1>6, <1>7, <1>8 DEF MiddleTyped
<1> QED
  BY <1>9, EventsInvariant, DashboardInvariant, LibraryInvariant, IntentInvariant,
     ConsultedInvariant, ReadyInvariant, AssembledInvariant, ReputedInvariant, PTL

LEMMA LastTypes == Spec => []LastTyped
<1>1. Shown!IInv => Shown!TypeOK
  BY DEF Shown!IInv
<1>2. Reviewed!IInv => Reviewed!TypeOK
  BY DEF Reviewed!IInv
<1>3. Verified!IInv => Verified!TypeOK
  BY DEF Verified!IInv
<1>4. Aside!IInv => Aside!TypeOK
  BY DEF Aside!IInv
<1>5. Spending!IInv => Spending!TypeOK
  BY DEF Spending!IInv
<1>6. Plane!IInv => Plane!TypeOK
  BY DEF Plane!IInv
<1>7. Consoled!IInv => Consoled!TypeOK
  BY DEF Consoled!IInv
<1>8. /\ focus = "shown" => Shown!IInv
      /\ focus = "reviewed" => Reviewed!IInv
      /\ focus = "verified" => Verified!IInv
      /\ focus = "aside" => Aside!IInv
      /\ focus = "spending" => Spending!IInv
      /\ focus = "complied" => Complied!TypeOK
      /\ focus = "plane" => Plane!IInv
      /\ focus = "consoled" => Consoled!IInv
      => LastTyped
  BY <1>1, <1>2, <1>3, <1>4, <1>5, <1>6, <1>7 DEF LastTyped
<1> QED
  BY <1>8, ShownInvariant, ReviewedInvariant, VerifiedInvariant, AsideInvariant,
     SpendingInvariant, CompliedTyped, PlaneInvariant, ConsoledInvariant, PTL

\* Whatever requests, runs and services do, and however their steps interleave, every
\* component's variables have the values that its code can give them: what a lookup
\* finds is there, an index is in its list and a counter within its bound.
THEOREM StatesHaveTypes == Spec => []TypeOK
<1>1. FirstTyped /\ MiddleTyped /\ LastTyped => TypeOK
  BY DEF FirstTyped, MiddleTyped, LastTyped, TypeOK
<1> QED
  BY <1>1, FirstTypes, MiddleTypes, LastTypes, PTL

=============================================================================
