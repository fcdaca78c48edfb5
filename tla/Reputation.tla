----------------------------- MODULE Reputation -----------------------------
(***************************************************************************)
(* The reputation of one expert in one context: the outcomes that are       *)
(* attributed to it (src/outcome), the engine's record in memory and its    *)
(* row (src/reputation/engine.py), and the tier that sustained drift moves  *)
(* (src/reputation/tiers.py).                                               *)
(*                                                                         *)
(* Only tests drive these parts; the application reads the memory for its   *)
(* pages.  They are driven here as the tests do.  Weights are per cent.      *)
(* Confidence is a function of the number of samples, so a threshold for it *)
(* is a number of samples.                                                  *)
(***************************************************************************)
EXTENDS Integers, FiniteSets

CONSTANTS
  Updates,        \* calls of update_weight_persistent that may be in flight
  Outcomes, Bands, Reopens,   \* what may be reported
  Decays,         \* what the time since the last indicator leaves of a weight
  MinSamples,     \* TIER_THRESHOLDS: a move between tiers -> samples it needs
  ConfidentFrom,  \* confidence, per cent -> the samples it is reached with
  MaxReceived     \* bound on the indicators

Moves == { "to_probation", "to_trusted", "from_trusted", "from_probation" }

ReputationAssumption ==
  /\ Outcomes \subseteq { "success", "failure", "loopback" }
  /\ Bands \subseteq { "low", "medium", "high" }
  /\ Reopens \subseteq { "intent_gap", "implementation_bug", "regression", "governance_failure" }
  /\ Decays \subseteq 0..100
  /\ MinSamples \in [ Moves -> Nat ] /\ ConfidentFrom \in [ { 30, 50, 60 } -> Nat ]
  /\ ConfidentFrom[30] <= ConfidentFrom[50] /\ ConfidentFrom[50] <= ConfidentFrom[60]
  /\ MaxReceived \in Nat

VARIABLES
  received,   \* history: indicators for the expert in this context
  memory,     \* _weights and _weight_history, one key of them
  row,        \* expert_reputation
  update,     \* the calls that store a record
  review      \* what compute_tier_transition said last, and its count

vars == << received, memory, row, update, review >>

Rank == [ shadow |-> 0, probation |-> 1, trusted |-> 2 ]
Tiers == DOMAIN Rank

NoRecord == [ samples |-> 0, sum |-> 0, tier |-> "shadow" ]
Records == [ samples : 0..MaxReceived, sum : -120 * MaxReceived .. 120 * MaxReceived, tier : Tiers ]
Idle == [ at |-> "idle", result |-> NoRecord, seen |-> NoRecord ]

TypeOK ==
  /\ received \in 0..MaxReceived
  /\ memory \in Records /\ row \in Records
  /\ update \in [ Updates -> [ at : { "idle", "get", "flush" }, result : Records, seen : Records ] ]
  /\ review \in [ tier : Tiers, declining : 0..3 ]

Init ==
  /\ received = 0 /\ memory = NoRecord /\ row = NoRecord
  /\ update = [ u \in Updates |-> Idle ]
  /\ review = [ tier |-> "shadow", declining |-> 0 ]

-----------------------------------------------------------------------------
(* What reaches the expert *)

BaseWeight == [ success |-> 100, failure |-> -100, loopback |-> -50 ]

\* Failures at easy tasks hurt more, successes at hard ones count more.
Multiplier(outcome, band) ==
  CASE band = "medium" -> 100
    [] band = "low"  -> IF outcome = "success" THEN 80 ELSE 120
    [] band = "high" -> IF outcome = "success" THEN 120 ELSE 80

\* _normalize_weight; an indicator without provenance is nobody's.
Normalized(outcome, band) == (BaseWeight[outcome] * Multiplier(outcome, band)) \div 100

\* What a reopened issue costs the experts; a gap in the intent is not theirs.
ReopenWeight == [ implementation_bug |-> -80, regression |-> -100, governance_failure |-> -100 ]

\* process_reopen classifies and blames.
ReopenIndicators == { ReopenWeight[c] : c \in Reopens \cap DOMAIN ReopenWeight }

Indicators == { Normalized(o, b) : o \in Outcomes, b \in Bands } \cup ReopenIndicators

-----------------------------------------------------------------------------
(* update_weight *)

\* The decayed mean, moved from -100..100 to 0..100, is at least or at most this.
WeightFrom(r, decay, least) == r.sum * decay >= (2 * least - 100) * 100 * r.samples
WeightUpTo(r, decay, most)  == r.sum * decay <= (2 * most - 100) * 100 * r.samples

\* _compute_confidence: it grows with the logarithm of the samples.
Confident(r, confidence) == r.samples >= ConfidentFrom[confidence]

\* Mutant: the confidence is not asked for.
PromotedUnsure(r, decay, move, weight, confidence) ==
  r.samples >= MinSamples[move] /\ WeightFrom(r, decay, weight)

Promoted(r, decay, move, weight, confidence) ==
  r.samples >= MinSamples[move] /\ WeightFrom(r, decay, weight)
    /\ Confident(r, confidence)

\* _compute_trust_tier.
Tier(r, decay) ==
  CASE r.tier = "shadow" /\ Promoted(r, decay, "to_probation", 30, 30) -> "probation"
    [] r.tier = "probation" /\ Promoted(r, decay, "to_trusted", 50, 60) -> "trusted"
    [] /\ r.tier = "probation" /\ ~Promoted(r, decay, "to_trusted", 50, 60)
       /\ r.samples >= MinSamples["from_probation"] /\ WeightUpTo(r, decay, 0) -> "shadow"
    [] /\ r.tier = "trusted"
       /\ r.samples >= MinSamples["from_trusted"] /\ WeightUpTo(r, decay, 20) -> "probation"
    [] OTHER -> r.tier

\* The first indicator makes a record in shadow, whatever the row says.
Counted(weight, decay) ==
  LET sum == [ memory EXCEPT !.samples = @ + 1, !.sum = @ + weight ]
  IN  IF memory.samples = 0 THEN sum ELSE [ sum EXCEPT !.tier = Tier(sum, decay) ]

Receives(u) ==
  /\ update[u].at = "idle" /\ received < MaxReceived
  /\ \E weight \in Indicators, decay \in Decays :
       LET result == Counted(weight, decay) IN
       /\ memory' = result
       /\ update' = [ update EXCEPT ![u] = [ Idle EXCEPT !.at = "get", !.result = result ] ]
  /\ received' = received + 1
  /\ UNCHANGED << row, review >>

-----------------------------------------------------------------------------
(* update_weight_persistent, query_weights_persistent *)

Gets(u) ==
  /\ update[u].at = "get"
  /\ update' = [ update EXCEPT ![u].at = "flush", ![u].seen = row ]
  /\ UNCHANGED << received, memory, row, review >>

\* The flush sends the columns that differ from the row it saw; an insert beside
\* another one fails.  The record in memory stays either way.
Stores(u) ==
  LET call == update[u] IN
  /\ call.at = "flush"
  /\ row' = IF call.seen = NoRecord
              THEN IF row = NoRecord THEN call.result ELSE row
              ELSE [ c \in DOMAIN row |->
                       IF call.result[c] # call.seen[c] THEN call.result[c] ELSE row[c] ]
  /\ update' = [ update EXCEPT ![u] = Idle ]
  /\ UNCHANGED << received, memory, review >>

Fails(u) ==
  /\ update[u].at # "idle"
  /\ update' = [ update EXCEPT ![u] = Idle ]
  /\ UNCHANGED << received, memory, row, review >>

\* The row replaces what is in memory when nothing there answers the query, which
\* may be because its record does not meet the query's filters.
Queries ==
  /\ row # NoRecord
  /\ memory' = row
  /\ UNCHANGED << received, row, update, review >>

Restart ==
  /\ memory' = NoRecord
  /\ update' = [ u \in Updates |-> Idle ]
  /\ review' = [ review EXCEPT !.declining = 0 ]
  /\ UNCHANGED << received, row >>

-----------------------------------------------------------------------------
(* compute_tier_transition *)

\* compute_tier, with the thresholds of tiers.py.
ComputedTier(r, decay, drift) ==
  CASE ~(r.samples >= MinSamples["to_probation"] /\ Confident(r, 30)) -> "shadow"
    [] OTHER ->
       IF Promoted(r, decay, "to_trusted", 60, 50) /\ drift # "declining" THEN "trusted"
       ELSE IF WeightFrom(r, decay, 30) THEN "probation" ELSE "shadow"

Below == [ trusted |-> "probation", probation |-> "shadow", shadow |-> "shadow" ]

\* A sustained decline takes a tier; in all other cases the computed one counts,
\* after a sustained improvement too.
Moved(current, computed, declining) ==
  IF declining = 3 /\ Below[current] # current THEN Below[current] ELSE computed

Min3(n) == IF n < 3 THEN n ELSE 3

\* The drift is the slope of the latest weights, three at least; which way it
\* points is left open.
Drifts(r) == IF r.samples < 3 THEN {"stable"} ELSE { "improving", "stable", "declining" }

Reviews ==
  \E drift \in Drifts(memory), decay \in Decays :
    LET declining == IF drift = "declining" THEN Min3(review.declining + 1) ELSE 0
    IN  /\ memory # NoRecord
        /\ review' = [ declining |-> declining,
                       tier |-> Moved(review.tier, ComputedTier(memory, decay, drift), declining) ]
        /\ UNCHANGED << received, memory, row, update >>

Next ==
  \/ \E u \in Updates : Receives(u) \/ Gets(u) \/ Stores(u) \/ Fails(u)
  \/ Queries \/ Restart \/ Reviews

Spec == Init /\ [][Next]_vars

-----------------------------------------------------------------------------
(* Properties *)

\* The samples that confidence and the thresholds ask for before a tier is given.
Needed(tier) ==
  CASE tier = "shadow" -> 0
    [] tier = "probation" -> ConfidentFrom[30]
    [] tier = "trusted" -> ConfidentFrom[60]

\* Whatever is lost, stored over or read back, in memory and in the row there are
\* never more samples than were received, and no tier that fewer were enough for.
\* While an expert declines for the third time and on, no review leaves it trusted.
TrustIsEarned ==
  /\ \A r \in { memory, row } : r.samples <= received /\ Needed(r.tier) <= received
  /\ review.declining = 3 => review.tier # "trusted"

-----------------------------------------------------------------------------
(* The inductive invariant of the proofs *)

\* What a record says was received: its samples, the sum of as many weights, and a tier
\* that they were enough for.
Received(r) ==
  /\ r.samples <= received /\ Needed(r.tier) <= received
  /\ r.sum \in -120 * received .. 120 * received

IInv ==
  /\ TypeOK
  /\ Received(memory) /\ Received(row)
  /\ \A u \in Updates : Received(update[u].result) /\ Received(update[u].seen)
  /\ review.declining = 3 => review.tier # "trusted"

=============================================================================
