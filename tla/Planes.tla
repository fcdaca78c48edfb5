------------------------------- MODULE Planes -------------------------------
(***************************************************************************)
(* Execution planes (src/compliance/plane_registry.py) and the compliance  *)
(* scorecards that look at them (src/admin/compliance_scorecard.py).  Both *)
(* live in one process.  A scorecard is kept for an hour: what happens to  *)
(* a plane meanwhile it does not show.                                     *)
(*                                                                         *)
(* Repositories are assigned to planes, planes deleted and facts stored as *)
(* the tests do it: no endpoint does.                                      *)
(***************************************************************************)
EXTENDS Naturals

CONSTANTS
  Repos,
  Ids,      \* planes that may be registered
  Ttl       \* _cache_ttl_seconds, in units of time

PlanesAssumption == Ttl \in Nat \ {0}

VARIABLES
  status,    \* of each plane
  assigned,  \* the repositories of each plane
  stored,    \* repositories of which set_compliance_data stored that all is well
  card,      \* the scorecard that is kept of each repository
  sick,      \* history: time since a healthy plane had the repository
  shown      \* the last scorecard that somebody saw

vars == << status, assigned, stored, card, sick, shown >>

\* A scorecard: the plane's check, the others, whose word it is, and its age.
Card(healthy, rest, asserted) ==
  [ healthy |-> healthy, rest |-> rest, asserted |-> asserted, age |-> 0 ]
Cards == [ healthy : BOOLEAN, rest : BOOLEAN, asserted : BOOLEAN, age : 0..Ttl ]
None == [ age |-> Ttl ]

NothingShown == [ card |-> None, sick |-> 0 ]

TypeOK ==
  /\ status \in [ Ids -> { "none", "active", "paused" } ]
  /\ assigned \in [ Ids -> SUBSET Repos ]
  /\ stored \subseteq Repos
  /\ card \in [ Repos -> {None} \cup Cards ]
  /\ sick \in [ Repos -> 0..Ttl ]
  /\ shown.card \in {None} \cup Cards /\ shown.sick \in 0..Ttl

Init ==
  /\ status = [ p \in Ids |-> "none" ]
  /\ assigned = [ p \in Ids |-> {} ]
  /\ stored = {}
  /\ card = [ r \in Repos |-> None ]
  /\ sick = [ r \in Repos |-> Ttl ]
  /\ shown = NothingShown

\* get_health_summary: a plane is healthy while it is active.
Healthy(p) == status[p] = "active"
HasPlane(r) == \E p \in Ids : Healthy(p) /\ r \in assigned[p]

-----------------------------------------------------------------------------
(* The registry *)

\* A repository that has no healthy plane after this has been without one from now.
Changes(newStatus, newAssigned) ==
  /\ status' = newStatus /\ assigned' = newAssigned
  /\ sick' = [ r \in Repos |-> IF HasPlane(r) \/ HasPlane(r)' THEN 0 ELSE sick[r] ]
  /\ UNCHANGED << stored, card, shown >>

SetStatus(p, to) == Changes([ status EXCEPT ![p] = to ], assigned)

Register(p) == status[p] = "none" /\ SetStatus(p, "active")
Pause(p) == status[p] # "none" /\ SetStatus(p, "paused")
Resume(p) == status[p] # "none" /\ SetStatus(p, "active")

Assign(p, r) ==
  status[p] # "none" /\ Changes(status, [ assigned EXCEPT ![p] = @ \cup {r} ])
Unassign(p, r) ==
  status[p] # "none" /\ Changes(status, [ assigned EXCEPT ![p] = @ \ {r} ])

\* A plane with repositories is kept.
Remove(p) == status[p] # "none" /\ assigned[p] = {} /\ SetStatus(p, "none")

-----------------------------------------------------------------------------
(* Scorecards *)

\* Mutant: what is kept is good for ever.
KeptForGood(r) == card[r] # None

Fresh(r) == card[r].age < Ttl

\* _fetch_compliance_data: the plane of the registry, and what was stored.
Fetched(r) == Card(HasPlane(r), r \in stored, FALSE)

Answers(r, c) ==
  /\ card' = [ card EXCEPT ![r] = c ]
  /\ shown' = [ card |-> c, sick |-> sick[r] ]
  /\ UNCHANGED << status, assigned, stored, sick >>

\* GET /repos/{repo_id}/compliance, and the page.
Views(r) == Answers(r, IF Fresh(r) THEN card[r] ELSE Fetched(r))

\* POST /repos/{repo_id}/compliance/evaluate: what the administrator says is kept too.
Asserts(r, healthy, rest) == Answers(r, Card(healthy, rest, TRUE))

Stores(r) ==
  /\ stored' = stored \cup {r}
  /\ UNCHANGED << status, assigned, card, sick, shown >>

Invalidates(r) ==
  /\ card' = [ card EXCEPT ![r] = None ]
  /\ UNCHANGED << status, assigned, stored, sick, shown >>

Older(n) == IF n < Ttl THEN n + 1 ELSE Ttl

TimePasses ==
  /\ card' = [ r \in Repos |-> IF card[r] = None THEN None
                                                 ELSE [ card[r] EXCEPT !.age = Older(@) ] ]
  /\ sick' = [ r \in Repos |-> IF HasPlane(r) THEN 0 ELSE Older(sick[r]) ]
  /\ UNCHANGED << status, assigned, stored, shown >>

-----------------------------------------------------------------------------
Next ==
  \/ \E p \in Ids :
       \/ Register(p) \/ Pause(p) \/ Resume(p) \/ Remove(p)
       \/ \E r \in Repos : Assign(p, r) \/ Unassign(p, r)
  \/ \E r \in Repos :
       \/ Views(r) \/ Stores(r) \/ Invalidates(r)
       \/ \E healthy, rest \in BOOLEAN : Asserts(r, healthy, rest)
  \/ TimePasses

Spec == Init /\ [][Next]_vars

\* Who is shown a repository on a healthy plane, by the registry's word, is shown
\* what was so less than Ttl ago, whatever was paused, moved or deleted since.
ShownWasSo ==
  LET c == shown.card IN
  (c # None /\ ~c.asserted /\ c.healthy) => shown.sick < Ttl

-----------------------------------------------------------------------------
(* The inductive invariant of the proofs *)

\* A card that says healthy by the registry's word is no younger than the last time
\* the repository had a healthy plane.
CardsOK ==
  \A r \in Repos :
    /\ HasPlane(r) => sick[r] = 0
    /\ card[r] # None /\ ~card[r].asserted /\ card[r].healthy => sick[r] <= card[r].age

IInv == TypeOK /\ CardsOK /\ ShownWasSo

=============================================================================
