-------------------------- MODULE DashboardProofs ---------------------------
(***************************************************************************)
(* Proofs about the components of Services that tell people what goes on:  *)
(* pull requests and issues as GitHub has them, the events and messages    *)
(* that are shown, the project board and its review, the intent that       *)
(* people change meanwhile, and what a run tells beside its stages. Each   *)
(* has an inductive invariant of its own, IInv of its module; Services     *)
(* lets a behaviour exercise one component, so that a step of Services is  *)
(* a step of the component's and leaves the focus. In what follows a       *)
(* component's variables have the names that Services gives them, v1, v2,  *)
(* ...                                                                     *)
(***************************************************************************)
EXTENDS Services, FiniteSetTheorems, SequenceTheorems, WellFoundedInduction, TLAPS

\* A behaviour exercises one component.
LEMMA FocusIsKept == ASSUME [Next]_v PROVE focus' = focus
  BY DEF Next, v, Kept2, Kept3, Kept4, Kept5, Kept6, Kept7, Kept8, Kept9, Kept10, Kept11
(***************************************************************************)
(* PullRequests: GitHub's events about one pull request and the row that   *)
(* follows them.  As long as nothing strays each event is taken in its     *)
(* turn, and when the newest is taken the row has it, or its handler. The  *)
(* variables: v1 github, v2 happened, v3 pending, v4 merge, v5 handler, v6 *)
(* newest, v7 strayed.                                                     *)
(***************************************************************************)

LEMMA PullRequestInvInit ==
  ASSUME PullRequest!PullRequestsAssumption, PullRequest!Init
  PROVE  PullRequest!IInv
<1>1. PullRequest!Idle \in PullRequest!Working /\ PullRequest!Idle.event = 0
        /\ PullRequest!Idle.state = "none"
  BY DEF PullRequest!PullRequestsAssumption, PullRequest!Idle, PullRequest!Working
<1>2. PullRequest!TypeOK
  BY <1>1
  DEF PullRequest!PullRequestsAssumption, PullRequest!Init, PullRequest!TypeOK,
      PullRequest!Working
<1>3. \A h \in Handlers : v5[h] = PullRequest!Idle
  BY DEF PullRequest!Init
<1>4. ~v4.known /\ v4.status = "none"
  BY DEF PullRequest!Init
<1>5. PullRequest!EventsOK /\ PullRequest!MergedOK /\ PullRequest!UpToDate
  BY <1>1, <1>3, <1>4
  DEF PullRequest!Init, PullRequest!EventsOK, PullRequest!MergedOK, PullRequest!MergedIsMerged,
      PullRequest!UpToDate
<1>6. PullRequest!InTurn
  BY <1>1, <1>3, <1>4 DEF PullRequest!Init, PullRequest!InTurn, PullRequest!Busy
<1> QED
  BY <1>2, <1>5, <1>6 DEF PullRequest!IInv

-----------------------------------------------------------------------------
(* GitHub *)

LEMMA PullRequestChangesStep ==
  ASSUME PullRequest!PullRequestsAssumption, PullRequest!IInv,
         NEW from \in PullRequest!PrStates \cup {"none"}, NEW to \in PullRequest!PrStates,
         from # "merged", PullRequest!Changes(from, to)
  PROVE  PullRequest!IInv'
<1> DEFINE new == [ event |-> v2', state |-> to ]
<1>1. /\ v2 \in Nat /\ v2' = v2 + 1 /\ v2' \in 1..MaxEvents
      /\ v1 = from /\ v1' = to
      /\ v6 \in Nat /\ v6 <= v2
      /\ new.event = v2' /\ new.state = to
      /\ v3' = v3 \cup {new}
      /\ UNCHANGED << v4, v5, v6, v7 >>
  BY DEF PullRequest!Changes, PullRequest!IInv, PullRequest!TypeOK, PullRequest!EventsOK,
         PullRequest!PullRequestsAssumption
<1>2. new \in [ event : 1..MaxEvents, state : PullRequest!PrStates ]
  BY <1>1
<1> HIDE DEF new
<1>3. PullRequest!TypeOK'
  BY <1>1, <1>2 DEF PullRequest!IInv, PullRequest!TypeOK
<1>4. \A e \in v3 : e.event \in Nat
  BY DEF PullRequest!IInv, PullRequest!TypeOK, PullRequest!PullRequestsAssumption
<1>5. PullRequest!EventsOK'
  BY <1>1, <1>4 DEF PullRequest!IInv, PullRequest!EventsOK, PullRequest!PrStates
<1>6. PullRequest!MergedOK'
  BY <1>1 DEF PullRequest!IInv, PullRequest!MergedOK, PullRequest!MergedIsMerged
<1>7. PullRequest!InTurn'
  BY <1>1 DEF PullRequest!IInv, PullRequest!InTurn, PullRequest!Busy
<1>8. PullRequest!UpToDate'
  BY <1>1 DEF PullRequest!UpToDate
<1> QED
  BY <1>3, <1>5, <1>6, <1>7, <1>8 DEF PullRequest!IInv

LEMMA EventLostStep ==
  ASSUME PullRequest!PullRequestsAssumption, PullRequest!IInv, PullRequest!EventLost
  PROVE  PullRequest!IInv'
  BY DEF PullRequest!EventLost, PullRequest!IInv, PullRequest!TypeOK, PullRequest!EventsOK,
         PullRequest!MergedOK, PullRequest!MergedIsMerged, PullRequest!InTurn,
         PullRequest!UpToDate

LEMMA PublisherCommitsStep ==
  ASSUME PullRequest!PullRequestsAssumption, PullRequest!IInv, PullRequest!PublisherCommits
  PROVE  PullRequest!IInv'
<1>1. /\ v4' = [ known |-> TRUE, status |-> "open" ] /\ ~v4.known /\ v1 # "none"
      /\ UNCHANGED << v1, v2, v3, v5, v6, v7 >>
  BY DEF PullRequest!PublisherCommits
<1>2. v4'.known /\ v4'.status = "open"
  BY <1>1
<1>3. PullRequest!TypeOK'
  BY <1>1 DEF PullRequest!IInv, PullRequest!TypeOK, PullRequest!PrStates
<1>4. PullRequest!EventsOK' /\ PullRequest!MergedOK'
  BY <1>1, <1>2
  DEF PullRequest!IInv, PullRequest!EventsOK, PullRequest!MergedOK, PullRequest!MergedIsMerged
<1>5. ~v7 => \A h \in Handlers : ~PullRequest!Busy(h)
  BY <1>1 DEF PullRequest!IInv, PullRequest!InTurn
<1>6. PullRequest!InTurn'
  BY <1>1, <1>5 DEF PullRequest!IInv, PullRequest!InTurn, PullRequest!Busy
<1>7. PullRequest!UpToDate'
  BY <1>1, <1>2, <1>5 DEF PullRequest!IInv, PullRequest!UpToDate, PullRequest!Busy
<1> QED
  BY <1>3, <1>4, <1>6, <1>7 DEF PullRequest!IInv

-----------------------------------------------------------------------------
(* The handlers *)

\* Taking an event, whether there is a row for it or not.
LEMMA PullRequestReceivesStep ==
  ASSUME PullRequest!PullRequestsAssumption, PullRequest!IInv, NEW h \in Handlers,
         PullRequest!Receives(h)
  PROVE  PullRequest!IInv'
<1>1. PICK e \in v3 :
        /\ v3' = v3 \ {e}
        /\ v6' = IF e.event > v6 THEN e.event ELSE v6
        /\ IF v4.known
             THEN /\ v5' = [ v5 EXCEPT ![h] =
                        [ event |-> e.event, state |-> e.state, was |-> v4.status ] ]
                  /\ v7' = (v7 \/ e.event < v6 \/ \E i \in Handlers : PullRequest!Busy(i))
             ELSE /\ v7' = (v7 \/ e.event < v6 \/ e.state # "open")
                  /\ UNCHANGED v5
  BY DEF PullRequest!Receives
<1>2. ~PullRequest!Busy(h) /\ UNCHANGED << v1, v2, v4 >>
  BY DEF PullRequest!Receives
<1>3. /\ e.event \in 1..MaxEvents /\ e.state \in PullRequest!PrStates
      /\ e.event <= v2 /\ (e.event = v2 => e.state = v1)
      /\ (e.state = "merged" => v1 = "merged")
  BY DEF PullRequest!IInv, PullRequest!TypeOK, PullRequest!EventsOK, PullRequest!MergedOK
<1>4. v6 \in Nat /\ v2 \in Nat /\ v6 <= v2 /\ v6' \in 0..MaxEvents
      /\ v6 <= v6' /\ v6' <= v2 /\ e.event <= v6'
  BY <1>1, <1>3
  DEF PullRequest!PullRequestsAssumption, PullRequest!IInv, PullRequest!TypeOK,
      PullRequest!EventsOK
<1>5. v7' \in BOOLEAN /\ (~v7' => ~v7 /\ ~(e.event < v6))
  BY <1>1 DEF PullRequest!IInv, PullRequest!TypeOK
<1>6. PullRequest!EventsOK'
  BY <1>1, <1>2, <1>4 DEF PullRequest!IInv, PullRequest!EventsOK
<1>7. ~v7' => \A n \in 1..v2' : n <= v6' \/ \E f \in v3' : f.event = n
  <2> SUFFICES ASSUME ~v7', NEW n \in 1..v2
               PROVE  n <= v6' \/ \E f \in v3' : f.event = n
    BY <1>2
  <2>1. n <= v6 \/ \E f \in v3 : f.event = n
    BY <1>5 DEF PullRequest!IInv, PullRequest!InTurn
  <2>2. CASE n <= v6
    BY <1>4, <2>2
  <2>3. CASE \E f \in v3 : f.event = n
    <3>1. PICK f \in v3 : f.event = n
      BY <2>3
    <3>2. CASE f = e
      BY <1>4, <3>1, <3>2
    <3>3. CASE f # e
      BY <1>1, <3>1, <3>3
    <3> QED
      BY <3>2, <3>3
  <2> QED
    BY <2>1, <2>2, <2>3
<1>8. ~v7' /\ v6' = v2' => e.state = v1 /\ e.event = v2
  BY <1>1, <1>2, <1>3, <1>4, <1>5
<1>9. CASE ~v4.known
  <2>1. v5' = v5 /\ v7' = (v7 \/ e.event < v6 \/ e.state # "open")
    BY <1>1, <1>9
  <2>2. PullRequest!TypeOK'
    BY <1>1, <1>2, <1>4, <1>5, <2>1 DEF PullRequest!IInv, PullRequest!TypeOK
  <2>3. PullRequest!MergedOK'
    BY <1>1, <1>2, <2>1 DEF PullRequest!IInv, PullRequest!MergedOK, PullRequest!MergedIsMerged
  <2>4. PullRequest!InTurn'
    BY <1>2, <1>5, <1>7, <2>1 DEF PullRequest!IInv, PullRequest!InTurn, PullRequest!Busy
  <2>5. PullRequest!UpToDate'
    BY <1>2, <1>8, <1>9, <2>1 DEF PullRequest!UpToDate
  <2> QED
    BY <1>6, <2>2, <2>3, <2>4, <2>5 DEF PullRequest!IInv
<1>10. CASE v4.known
  <2> DEFINE taken == [ event |-> e.event, state |-> e.state, was |-> v4.status ]
  <2>1. taken \in PullRequest!Working /\ taken.event = e.event /\ taken.state = e.state
        /\ taken.was = v4.status
    BY <1>3
    DEF PullRequest!PullRequestsAssumption, PullRequest!IInv, PullRequest!TypeOK,
        PullRequest!Working
  <2>2. v5' = [ v5 EXCEPT ![h] = taken ]
    BY <1>1, <1>10
  <2>3. v7' = (v7 \/ e.event < v6 \/ \E i \in Handlers : PullRequest!Busy(i))
    BY <1>1, <1>10
  <2> HIDE DEF taken
  <2>4. v5 \in [ Handlers -> PullRequest!Working ]
    BY DEF PullRequest!IInv, PullRequest!TypeOK, PullRequest!Working
  <2>5. v5'[h] = taken /\ \A i \in Handlers : i # h => v5'[i] = v5[i]
    BY <2>2, <2>4
  <2>6. PullRequest!TypeOK'
    <3>1. v5' \in [ Handlers -> PullRequest!Working ]
      BY <2>1, <2>2, <2>4
    <3> QED
      BY <1>1, <1>2, <1>4, <1>5, <3>1
      DEF PullRequest!IInv, PullRequest!TypeOK, PullRequest!Working
  <2>7. PullRequest!MergedOK'
    BY <1>1, <1>2, <1>3, <2>1, <2>5
    DEF PullRequest!IInv, PullRequest!MergedOK, PullRequest!MergedIsMerged
  <2>8. ~v7' => \A i \in Handlers : i # h => ~PullRequest!Busy(i)'
    BY <2>3, <2>5 DEF PullRequest!Busy
  <2>9. PullRequest!InTurn'
    BY <1>2, <1>7, <1>10, <2>1, <2>5, <2>8 DEF PullRequest!InTurn
  <2>10. PullRequest!Busy(h)'
    BY <1>3, <2>1, <2>5 DEF PullRequest!Busy
  <2>11. PullRequest!UpToDate'
    BY <1>2, <1>8, <1>10, <2>1, <2>5, <2>8, <2>10 DEF PullRequest!UpToDate
  <2> QED
    BY <1>6, <2>6, <2>7, <2>9, <2>11 DEF PullRequest!IInv
<1> QED
  BY <1>9, <1>10

\* A handler is done: it has written what it had in hand, or failed.
LEMMA DoneStep ==
  ASSUME PullRequest!PullRequestsAssumption, PullRequest!IInv, NEW h \in Handlers,
         PullRequest!Commits(h) \/ PullRequest!HandlerFails(h)
  PROVE  PullRequest!IInv'
<1>1. /\ PullRequest!Busy(h) /\ v5' = [ v5 EXCEPT ![h] = PullRequest!Idle ]
      /\ UNCHANGED << v1, v2, v3, v6 >>
  BY DEF PullRequest!Commits, PullRequest!HandlerFails
<1>2. PullRequest!Idle \in PullRequest!Working /\ PullRequest!Idle.event = 0
        /\ PullRequest!Idle.state = "none"
  BY DEF PullRequest!PullRequestsAssumption, PullRequest!Idle, PullRequest!Working
<1>3. v5 \in [ Handlers -> PullRequest!Working ] /\ v5[h] \in PullRequest!Working
  BY DEF PullRequest!IInv, PullRequest!TypeOK, PullRequest!Working
<1>4. v5'[h] = PullRequest!Idle /\ \A i \in Handlers : i # h => v5'[i] = v5[i]
  BY <1>1, <1>3
<1>5. \/ PullRequest!HandlerFails(h) /\ v7' /\ v4' = v4
      \/ /\ v7' = v7
         /\ v4' = IF v5[h].state = v5[h].was THEN v4
                     ELSE [ v4 EXCEPT !.status = v5[h].state ]
  BY DEF PullRequest!Commits, PullRequest!HandlerFails, PullRequest!Writes, PullRequest!StatusOf
<1>6. /\ v4' \in [ known : BOOLEAN, status : PullRequest!PrStates \cup {"none"} ]
      /\ v4'.known = v4.known
      /\ v4'.status \in { v4.status, v5[h].state }
      /\ v7' \in BOOLEAN
      /\ ~v7' => ~v7
  BY <1>3, <1>5
  DEF PullRequest!IInv, PullRequest!TypeOK, PullRequest!Working, PullRequest!HandlerFails
<1>7. PullRequest!TypeOK'
  <2>1. v5' \in [ Handlers -> PullRequest!Working ]
    BY <1>1, <1>2, <1>3
  <2> QED
    BY <1>1, <1>6, <2>1 DEF PullRequest!IInv, PullRequest!TypeOK, PullRequest!Working
<1>8. PullRequest!EventsOK'
  BY <1>1, <1>6 DEF PullRequest!IInv, PullRequest!EventsOK
<1>9. PullRequest!MergedOK'
  BY <1>1, <1>2, <1>4, <1>6 DEF PullRequest!IInv, PullRequest!MergedOK, PullRequest!MergedIsMerged
<1>10. ~v7' => \A i \in Handlers : ~PullRequest!Busy(i)'
  BY <1>1, <1>2, <1>4, <1>6 DEF PullRequest!IInv, PullRequest!InTurn, PullRequest!Busy
<1>11. PullRequest!InTurn'
  BY <1>1, <1>6, <1>10 DEF PullRequest!IInv, PullRequest!InTurn
<1>12. ~v7' => v4'.status = v5[h].state /\ v4.known
  <2> SUFFICES ASSUME ~v7' PROVE v4'.status = v5[h].state /\ v4.known
    OBVIOUS
  <2>1. v5[h].was = v4.status /\ v4.known
    BY <1>1, <1>6 DEF PullRequest!IInv, PullRequest!InTurn
  <2> QED
    BY <1>5, <2>1 DEF PullRequest!IInv, PullRequest!TypeOK, PullRequest!HandlerFails
<1>13. PullRequest!UpToDate'
  BY <1>1, <1>6, <1>10, <1>12 DEF PullRequest!IInv, PullRequest!UpToDate
<1> QED
  BY <1>7, <1>8, <1>9, <1>11, <1>13 DEF PullRequest!IInv

-----------------------------------------------------------------------------
LEMMA PullRequestInvNext ==
  ASSUME PullRequest!PullRequestsAssumption, PullRequest!IInv, [PullRequest!Next]_PullRequest!vars
  PROVE  PullRequest!IInv'
<1>1. CASE PullRequest!Opens \/ PullRequest!Closes \/ PullRequest!Reopens \/ PullRequest!ApprovePr
  BY <1>1, PullRequestChangesStep
  DEF PullRequest!Opens, PullRequest!Closes, PullRequest!Reopens, PullRequest!ApprovePr,
      PullRequest!PrStates
<1>2. CASE PullRequest!EventLost \/ PullRequest!PublisherCommits
  BY <1>2, EventLostStep, PublisherCommitsStep
<1>3. CASE \E h \in Handlers :
             PullRequest!Receives(h) \/ PullRequest!Commits(h) \/ PullRequest!HandlerFails(h)
  BY <1>3, PullRequestReceivesStep, DoneStep
<1>4. CASE PullRequest!Quiet \/ UNCHANGED PullRequest!vars
  BY <1>4
  DEF PullRequest!Quiet, PullRequest!vars, PullRequest!IInv, PullRequest!TypeOK,
      PullRequest!EventsOK, PullRequest!MergedOK, PullRequest!MergedIsMerged, PullRequest!InTurn,
      PullRequest!UpToDate,
              PullRequest!Busy
<1> QED
  BY <1>1, <1>2, <1>3, <1>4 DEF PullRequest!Next

\* Once all events are handled the row is as GitHub has it, unless one strayed.
LEMMA RowFollows ==
  ASSUME PullRequest!PullRequestsAssumption, PullRequest!IInv
  PROVE  PullRequest!MergedIsMerged /\ PullRequest!FollowsGitHub
<1>1. SUFFICES ASSUME v4.known, v3 = {}, \A h \in Handlers : ~PullRequest!Busy(h), ~v7
               PROVE  v4.status = v1
  BY DEF PullRequest!IInv, PullRequest!MergedOK, PullRequest!FollowsGitHub
<1>2. v2 \in Nat /\ v6 \in Nat /\ v2 > 0 /\ v6 <= v2
  BY <1>1
  DEF PullRequest!IInv, PullRequest!TypeOK, PullRequest!EventsOK,
      PullRequest!PullRequestsAssumption
<1>3. v2 <= v6
  BY <1>1, <1>2 DEF PullRequest!IInv, PullRequest!InTurn
<1> QED
  BY <1>1, <1>2, <1>3 DEF PullRequest!IInv, PullRequest!UpToDate

LEMMA PullRequestSteps ==
  ASSUME focus = "pull_request", [Next]_v
  PROVE  focus' = "pull_request" /\ [PullRequest!Next]_PullRequest!vars
  BY DEF Next, v, PullRequest!vars, Kept7

LEMMA PullRequestInvariant == Spec => [](focus = "pull_request" => PullRequest!IInv)
<1> DEFINE Inv == focus = "pull_request" => PullRequest!IInv
<1>1. Init => Inv
  BY PullRequestAssumption, PullRequestInvInit DEF Init
<1>2. Inv /\ [Next]_v => Inv'
  BY PullRequestAssumption, PullRequestInvNext, PullRequestSteps, FocusIsKept
<1> QED
  BY <1>1, <1>2, PTL DEF Spec

\* src/ingress/webhook_handler.py: the row says "merged" of no pull request that is not,
\* whatever becomes of its events and however their handlers overlap; and once all events
\* are handled the row is as GitHub has it, unless one strayed.
THEOREM RowTellsTheTruth == Spec => []MergeStatusIsTrue
<1>1. (focus = "pull_request" => PullRequest!IInv) => MergeStatusIsTrue
  BY RowFollows, PullRequestAssumption DEF MergeStatusIsTrue
<1> QED
  BY <1>1, PullRequestInvariant, PTL

(***************************************************************************)
(* Polling: Cycles over the pages of the issues.  An issue moves towards   *)
(* the first page only when it is newer than all that was read. The        *)
(* variables: v1 issue, v2 now, v3 since, v4 tasks, v5 cycle, v6 excused.  *)
(***************************************************************************)

\* The instance has its own finite sets and cardinalities, defined as those
\* that the library's theorems are about.
LEMMA PollerFinite ==
  /\ \A S : Poller!IsFiniteSet(S) = IsFiniteSet(S)
  /\ \A S : Poller!Cardinality(S) = Cardinality(S)
<1>1. \A S : Poller!IsFiniteSet(S) = IsFiniteSet(S)
  BY DEF Poller!IsFiniteSet, IsFiniteSet
<1>2. \A S : Poller!Cardinality(S) = Cardinality(S)
  BY DEF Poller!Cardinality, Cardinality
<1> QED
  BY <1>1, <1>2

LEMMA ImageFinite ==
  ASSUME NEW S, Poller!IsFiniteSet(S), NEW f, DOMAIN f = S, f = [ x \in S |-> f[x] ]
  PROVE  Poller!IsFiniteSet({ f[x] : x \in S })
<1>1. f \in Surjection(S, { f[x] : x \in S })
  BY DEF Surjection
<1> QED
  BY PollerFinite, <1>1, FS_Surjection

LEMMA ReplacedElement ==
  ASSUME NEW S, Poller!IsFiniteSet(S), NEW old, NEW new, new \notin S
  PROVE  /\ Poller!IsFiniteSet((S \ {old}) \cup {new})
         /\ Poller!Cardinality((S \ {old}) \cup {new}) \in Nat /\ Poller!Cardinality(S) \in Nat
         /\ Poller!Cardinality((S \ {old}) \cup {new}) >= Poller!Cardinality(S)
<1> DEFINE R == S \ {old}
<1>1. /\ Poller!IsFiniteSet(R) /\ Poller!Cardinality(S) \in Nat
      /\ Poller!Cardinality(R)
           = IF old \in S THEN Poller!Cardinality(S) - 1 ELSE Poller!Cardinality(S)
  BY PollerFinite, FS_RemoveElement, FS_CardinalityType
<1>2. new \notin R
  OBVIOUS
<1> HIDE DEF R
<1>3. Poller!IsFiniteSet(R \cup {new})
        /\ Poller!Cardinality(R \cup {new}) = Poller!Cardinality(R) + 1
  BY PollerFinite, <1>1, <1>2, FS_AddElement
<1>4. Poller!Cardinality(R \cup {new}) >= Poller!Cardinality(S)
        /\ Poller!Cardinality(R \cup {new}) \in Nat
  BY <1>1, <1>3
<1> QED
  BY <1>1, <1>3, <1>4 DEF R

\* The versions listed are finitely many.
LEMMA ListedFinite ==
  ASSUME Poller!PollingAssumption
  PROVE  Poller!IsFiniteSet(Poller!OpenVersions) /\ Poller!IsFiniteSet(Poller!Listed)
<1> DEFINE Open == { j \in Issues : v1[j].open }
           f == [ i \in Open |-> Poller!Current(i) ]
<1>1. Poller!IsFiniteSet(Open)
  BY PollerFinite, FS_Subset DEF Poller!PollingAssumption
<1>2. Poller!IsFiniteSet({ f[i] : i \in Open })
  BY <1>1, ImageFinite
<1>3. Poller!OpenVersions = { f[i] : i \in Open }
  BY DEF Poller!OpenVersions
<1> QED
  BY PollerFinite, <1>2, <1>3, FS_Subset DEF Poller!Listed

LEMMA OpenTypes ==
  ASSUME Poller!PollingAssumption, Poller!TypeOK, Poller!TimesOK, NEW w \in Poller!OpenVersions
  PROVE  w \in Poller!Version /\ w.time <= v2 /\ v1[w.issue].open /\ w = Poller!Current(w.issue)
<1>1. PICK i \in Issues : v1[i].open /\ w = Poller!Current(i)
  BY DEF Poller!OpenVersions
<1>2. v1[i].updated \in 1..MaxTime /\ v1[i].updated <= v2
  BY <1>1 DEF Poller!TypeOK, Poller!TimesOK, Poller!PollingAssumption
<1> QED
  BY <1>1, <1>2 DEF Poller!Current, Poller!Version

LEMMA RankTypes ==
  ASSUME Poller!PollingAssumption, NEW w
  PROVE  /\ Poller!IsFiniteSet({ u \in Poller!Listed : u.time >= w.time })
         /\ Poller!Rank(w) \in Nat /\ Poller!Rank(w) <= Poller!Cardinality(Poller!Listed)
         /\ Poller!Cardinality(Poller!Listed) \in Nat
  BY PollerFinite, ListedFinite, FS_Subset, FS_CardinalityType DEF Poller!Rank

\* Newer versions come first.
LEMMA RankDescends ==
  ASSUME Poller!PollingAssumption, Poller!TypeOK, Poller!TimesOK, NEW u \in Poller!Listed,
         NEW w \in Poller!Listed,
         u.time >= w.time
  PROVE  Poller!Rank(u) <= Poller!Rank(w)
<1> DEFINE Before(x) == { y \in Poller!Listed : y.time >= x.time }
<1>1. \A y \in Poller!Listed : y.time \in Nat
  BY OpenTypes DEF Poller!Listed, Poller!Version
<1>2. Before(u) \subseteq Before(w)
  BY <1>1
<1>3. Poller!IsFiniteSet(Before(w))
  BY RankTypes
<1> QED
  BY PollerFinite, <1>2, <1>3, FS_Subset DEF Poller!Rank

LEMMA PollerInvInit == ASSUME Poller!PollingAssumption, Poller!Init PROVE Poller!IInv
<1>1. Poller!OpenVersions = {}
  BY DEF Poller!Init, Poller!OpenVersions
<1> QED
  BY <1>1
  DEF Poller!PollingAssumption, Poller!Init, Poller!IInv, Poller!TypeOK, Poller!TimesOK,
      Poller!PagesOK, Poller!FedOK, Poller!NothingSkipped,
     Poller!Sleeping, Poller!Listed, Poller!Version

-----------------------------------------------------------------------------
(* GitHub *)

\* What is in the list as it was moves back when another version comes to its head.
LEMMA UpdatesPushBack ==
  ASSUME Poller!PollingAssumption, Poller!IInv, NEW i \in Issues, Poller!IssueUpdated(i),
         NEW w \in Poller!Listed, w \in Poller!Listed'
  PROVE  Poller!Rank(w)' >= Poller!Rank(w) /\ Poller!Rank(w)' \in Nat
<1> DEFINE Before == { u \in Poller!Listed : u.time >= w.time }
           new == [ issue |-> i, time |-> v2 + 1 ]
           Moved == (Before \ { Poller!Current(i) }) \cup {new}
           After == { u \in Poller!Listed' : u.time >= w.time }
<1>1. /\ v2' = v2 + 1 /\ v2 \in Nat /\ v3 \in Nat /\ v3' = v3 /\ v3 <= v2
      /\ v1'[i] = [ open |-> TRUE, updated |-> v2 + 1 ]
      /\ \A j \in Issues : j # i => v1'[j] = v1[j]
  BY DEF Poller!IssueUpdated, Poller!IInv, Poller!TypeOK, Poller!TimesOK, Poller!PollingAssumption
<1>2. \A u \in Poller!Listed : u.time \in Nat /\ u.time <= v2
  BY OpenTypes DEF Poller!IInv, Poller!Listed, Poller!Version, Poller!PollingAssumption
<1>3. new \in Poller!Listed' /\ new.time = v2 + 1
  BY <1>1 DEF Poller!Listed, Poller!OpenVersions, Poller!Current
<1>4. ASSUME NEW u \in Poller!Listed, u # Poller!Current(i) PROVE u \in Poller!Listed'
  <2>1. PICK j \in Issues : v1[j].open /\ u = Poller!Current(j) /\ u.time >= v3
    BY DEF Poller!Listed, Poller!OpenVersions
  <2>2. j # i
    BY <1>4, <2>1
  <2>3. u = Poller!Current(j)'
    BY <1>1, <2>1, <2>2 DEF Poller!Current
  <2> QED
    BY <1>1, <2>1, <2>2, <2>3 DEF Poller!Listed, Poller!OpenVersions
<1>5. Moved \subseteq After
  BY <1>1, <1>2, <1>3, <1>4
<1>6. Poller!IsFiniteSet(Before)
  BY PollerFinite, ListedFinite, FS_Subset
<1>7. new \notin Before
  BY <1>1, <1>2, <1>3
<1>8. Poller!Cardinality(Moved) >= Poller!Cardinality(Before) /\ Poller!Cardinality(Moved) \in Nat
      /\ Poller!Cardinality(Before) \in Nat
  BY <1>6, <1>7, ReplacedElement
<1>10. Poller!IsFiniteSet(Poller!Listed')
  <2> DEFINE Open == { j \in Issues : v1'[j].open }
             f == [ j \in Open |-> Poller!Current(j)' ]
  <2>1. Poller!IsFiniteSet(Open)
    BY PollerFinite, FS_Subset DEF Poller!PollingAssumption
  <2>2. Poller!IsFiniteSet({ f[j] : j \in Open })
    BY <2>1, ImageFinite
  <2>3. Poller!OpenVersions' = { f[j] : j \in Open }
    BY DEF Poller!OpenVersions
  <2> QED
    BY PollerFinite, <2>2, <2>3, FS_Subset DEF Poller!Listed
<1>11. Poller!IsFiniteSet(After)
  BY PollerFinite, <1>10, FS_Subset
<1>12. Poller!Cardinality(Moved) <= Poller!Cardinality(After)
  BY PollerFinite, <1>5, <1>11, FS_Subset
<1>13. Poller!Cardinality(After) \in Nat
  BY PollerFinite, <1>11, FS_CardinalityType
<1>14. Poller!Rank(w) = Poller!Cardinality(Before) /\ Poller!Rank(w)' = Poller!Cardinality(After)
  BY DEF Poller!Rank
<1> QED
  BY <1>8, <1>12, <1>13, <1>14

LEMMA IssueUpdatedStep ==
  ASSUME Poller!PollingAssumption, Poller!IInv, NEW i \in Issues, Poller!IssueUpdated(i)
  PROVE  Poller!IInv'
<1> DEFINE new == [ issue |-> i, time |-> v2 + 1 ]
<1>1. /\ v2' = v2 + 1 /\ v2 \in Nat /\ v3 \in Nat /\ v3 <= v2 /\ v2 + 1 <= MaxTime
      /\ v1' = [ v1 EXCEPT ![i] = [ open |-> TRUE, updated |-> v2 + 1 ] ]
      /\ UNCHANGED << v3, v4, v5, v6 >>
  BY DEF Poller!IssueUpdated, Poller!IInv, Poller!TypeOK, Poller!TimesOK, Poller!PollingAssumption
<1>2. v1'[i] = [ open |-> TRUE, updated |-> v2 + 1 ]
      /\ \A j \in Issues : j # i => v1'[j] = v1[j]
  BY <1>1 DEF Poller!IInv, Poller!TypeOK
<1>3. Poller!TypeOK'
  BY <1>1 DEF Poller!IInv, Poller!TypeOK, Poller!PollingAssumption
<1>4. Poller!TimesOK'
  <2>1. \A j \in Issues : v1[j].updated \in Nat
    BY DEF Poller!IInv, Poller!TypeOK, Poller!PollingAssumption
  <2>2. \A g \in v5.got : g.time \in Nat
    BY DEF Poller!IInv, Poller!TypeOK, Poller!Version, Poller!PollingAssumption
  <2> QED
    BY <1>1, <1>2, <2>1, <2>2 DEF Poller!IInv, Poller!TimesOK
<1>5. ASSUME NEW w \in Poller!OpenVersions' PROVE w = new \/ w \in Poller!OpenVersions
  BY <1>2 DEF Poller!OpenVersions, Poller!Current
<1>6. Poller!PagesOK'
  <2> SUFFICES ASSUME ~v5.torn, NEW w \in Poller!Listed', w \notin v5.got
               PROVE  \/ Poller!NewerThanRead(w)'
                      \/ v5.at = "fetch" /\ Poller!Rank(w)' > (v5.page - 1) * PerPage
    BY <1>1 DEF Poller!PagesOK
  <2>1. CASE w = new
    <3>1. \A g \in v5.got : g.time \in Nat /\ g.time <= v2
      BY DEF Poller!IInv, Poller!TypeOK, Poller!TimesOK, Poller!Version, Poller!PollingAssumption
    <3> QED
      BY <1>1, <2>1, <3>1 DEF Poller!NewerThanRead
  <2>2. CASE w # new
    <3>1. w \in Poller!Listed
      BY <1>1, <1>5, <2>2 DEF Poller!Listed
    <3>2. Poller!Rank(w)' >= Poller!Rank(w) /\ Poller!Rank(w) \in Nat /\ Poller!Rank(w)' \in Nat
      BY <3>1, UpdatesPushBack, RankTypes
    <3>4. (v5.page - 1) * PerPage \in Nat
      BY DEF Poller!IInv, Poller!TypeOK, Poller!PollingAssumption
    <3> QED
      BY <1>1, <3>1, <3>2, <3>4 DEF Poller!IInv, Poller!PagesOK, Poller!NewerThanRead
  <2> QED
    BY <2>1, <2>2
<1>7. Poller!NothingSkipped'
  BY <1>1, <1>5 DEF Poller!IInv, Poller!NothingSkipped
<1> QED
  BY <1>1, <1>3, <1>4, <1>6, <1>7 DEF Poller!IInv, Poller!FedOK

\* It leaves the list, and while the cycle reads that excuses it from its order.
LEMMA IssueClosesStep ==
  ASSUME Poller!PollingAssumption, Poller!IInv, NEW i \in Issues, Poller!IssueCloses(i)
  PROVE  Poller!IInv'
<1>1. /\ v1' = [ v1 EXCEPT ![i].open = FALSE ]
      /\ UNCHANGED << v2, v3, v4, v6 >>
      /\ v5'.got = v5.got /\ v5'.fed = v5.fed /\ v5'.at = v5.at
      /\ v5.torn => v5'.torn
      /\ v5.at = "fetch" => v5'.torn
      /\ v5' \in [ at : { "sleep", "fetch", "feed" }, page : Nat \ {0},
                      got : SUBSET Poller!Version, fed : SUBSET Poller!Version, torn : BOOLEAN ]
  BY DEF Poller!IssueCloses, Poller!IInv, Poller!TypeOK
<1>2. \A j \in Issues : v1'[j].updated = v1[j].updated /\ (v1'[j].open => v1[j].open)
  BY <1>1 DEF Poller!IInv, Poller!TypeOK
<1>3. Poller!TypeOK' /\ Poller!TimesOK'
  BY <1>1, <1>2 DEF Poller!IInv, Poller!TypeOK, Poller!TimesOK
<1>4. Poller!OpenVersions' \subseteq Poller!OpenVersions
  BY <1>2 DEF Poller!OpenVersions, Poller!Current
<1>5. Poller!Listed' \subseteq Poller!Listed
  BY <1>1, <1>4 DEF Poller!Listed
<1>6. Poller!PagesOK'
  BY <1>1, <1>5 DEF Poller!IInv, Poller!PagesOK, Poller!NewerThanRead
<1> QED
  BY <1>1, <1>3, <1>4, <1>6 DEF Poller!IInv, Poller!FedOK, Poller!NothingSkipped

-----------------------------------------------------------------------------
(* A cycle *)

\* A page is read: what is listed before it and is not read is newer than all on it.
LEMMA PageOrder ==
  ASSUME Poller!PollingAssumption, Poller!IInv, ~v5.torn, v5.at = "fetch",
         NEW w \in Poller!Listed, w \notin v5.got \cup Poller!PageOf(v5.page)
  PROVE  \/ \A g \in v5.got \cup Poller!PageOf(v5.page) : g.time < w.time
         \/ Poller!Rank(w) > v5.page * PerPage
<1> DEFINE n == v5.page
<1>1. n \in Nat \ {0} /\ PerPage \in Nat /\ n * PerPage \in Nat /\ (n - 1) * PerPage \in Nat
  BY DEF Poller!PollingAssumption, Poller!IInv, Poller!TypeOK
<1>2. Poller!Rank(w) \in Nat
  BY RankTypes
<1>3. CASE Poller!Rank(w) > (n - 1) * PerPage
  BY <1>1, <1>2, <1>3 DEF Poller!PageOf
<1>4. CASE Poller!Rank(w) <= (n - 1) * PerPage
  <2>1. Poller!NewerThanRead(w)
    BY <1>1, <1>2, <1>4 DEF Poller!IInv, Poller!PagesOK
  <2>2. ASSUME NEW g \in Poller!PageOf(n) PROVE g.time < w.time
    <3>1. g \in Poller!Listed /\ Poller!Rank(g) > (n - 1) * PerPage /\ Poller!Rank(g) \in Nat
      BY RankTypes DEF Poller!PageOf
    <3>2. g.time \in Nat /\ w.time \in Nat
      BY <3>1, OpenTypes DEF Poller!Listed, Poller!IInv, Poller!Version
    <3>3. ~(g.time >= w.time)
      BY <1>1, <1>2, <1>4, <3>1, RankDescends DEF Poller!IInv
    <3> QED
      BY <3>2, <3>3
  <2> QED
    BY <2>1, <2>2 DEF Poller!NewerThanRead
<1> QED
  BY <1>1, <1>2, <1>3, <1>4

LEMMA PageTypes ==
  ASSUME Poller!PollingAssumption, Poller!IInv, NEW n \in Nat
  PROVE  Poller!PageOf(n) \subseteq Poller!Version /\ \A g \in Poller!PageOf(n) : g.time <= v2
  BY OpenTypes DEF Poller!PageOf, Poller!Listed, Poller!IInv

LEMMA FetchPageStep ==
  ASSUME Poller!PollingAssumption, Poller!IInv, Poller!FetchPage
  PROVE  Poller!IInv'
<1> DEFINE n == v5.page
           read == v5.got \cup Poller!PageOf(n)
<1>1. n \in Nat \ {0} /\ PerPage \in Nat /\ n * PerPage \in Nat
  BY DEF Poller!PollingAssumption, Poller!IInv, Poller!TypeOK
<1>2. /\ v5.at = "fetch" /\ UNCHANGED << v1, v2, v3, v4, v6 >>
      /\ v5' = [ v5 EXCEPT !.got = read, !.page = IF Poller!HasNext(n) THEN n + 1 ELSE n,
                                 !.at = IF Poller!HasNext(n) THEN "fetch" ELSE "feed" ]
  BY DEF Poller!FetchPage
<1>3. v5' = [ at |-> IF Poller!HasNext(n) THEN "fetch" ELSE "feed",
                 page |-> IF Poller!HasNext(n) THEN n + 1 ELSE n,
                 got |-> read, fed |-> v5.fed, torn |-> v5.torn ]
  BY <1>2 DEF Poller!IInv, Poller!TypeOK
<1>4. read \subseteq Poller!Version /\ \A g \in read : g.time <= v2
  BY <1>1, PageTypes DEF Poller!IInv, Poller!TypeOK, Poller!TimesOK
<1>5. Poller!TypeOK' /\ Poller!TimesOK' /\ Poller!FedOK'
  <2> HIDE DEF n, read
  <2>1. UNCHANGED << v1, v2, v3, v4, v6 >>
    BY <1>2
  <2>2. /\ v5' \in [ at : { "sleep", "fetch", "feed" }, page : Nat \ {0},
                        got : SUBSET Poller!Version, fed : SUBSET Poller!Version, torn : BOOLEAN ]
        /\ v5'.got = read /\ v5'.fed = v5.fed
    BY <1>1, <1>3, <1>4 DEF Poller!IInv, Poller!TypeOK
  <2>3. v5.got \subseteq read
    BY DEF read
  <2> QED
    BY <1>4, <2>1, <2>2, <2>3 DEF Poller!IInv, Poller!TypeOK, Poller!TimesOK, Poller!FedOK
<1>6. Poller!Listed' = Poller!Listed /\ Poller!OpenVersions' = Poller!OpenVersions
        /\ \A w : Poller!Rank(w)' = Poller!Rank(w)
  BY <1>2 DEF Poller!Listed, Poller!OpenVersions, Poller!Current, Poller!Rank
<1>7. Poller!PagesOK'
  <2> SUFFICES ASSUME ~v5.torn, NEW w \in Poller!Listed, w \notin read
               PROVE  \/ \A g \in read : g.time < w.time
                      \/ Poller!HasNext(n) /\ Poller!Rank(w) > n * PerPage
    BY <1>1, <1>3, <1>6 DEF Poller!PagesOK, Poller!NewerThanRead
  <2>1. (\A g \in read : g.time < w.time) \/ Poller!Rank(w) > n * PerPage
    BY <1>2, PageOrder
  <2>2. Poller!Rank(w) \in Nat /\ Poller!Rank(w) <= Poller!Cardinality(Poller!Listed)
          /\ Poller!Cardinality(Poller!Listed) \in Nat
    BY RankTypes
  <2> QED
    BY <1>1, <2>1, <2>2 DEF Poller!HasNext
<1> QED
  BY <1>2, <1>5, <1>6, <1>7 DEF Poller!IInv, Poller!NothingSkipped

LEMMA EarlyReturnStep ==
  ASSUME Poller!PollingAssumption, Poller!IInv, Poller!EarlyReturn
  PROVE  Poller!IInv'
<1> DEFINE read == v5.got \cup Poller!PageOf(v5.page)
<1>1. /\ UNCHANGED << v1, v2, v3, v4, v6 >>
      /\ v5' = [ at |-> "feed", page |-> v5.page, got |-> read, fed |-> v5.fed,
                    torn |-> TRUE ]
  BY DEF Poller!EarlyReturn, Poller!IInv, Poller!TypeOK
<1>2. read \subseteq Poller!Version /\ \A g \in read : g.time <= v2
  BY PageTypes DEF Poller!IInv, Poller!TypeOK, Poller!TimesOK
<1>3. Poller!TypeOK' /\ Poller!TimesOK' /\ Poller!FedOK' /\ Poller!PagesOK'
  BY <1>1, <1>2 DEF Poller!IInv, Poller!TypeOK, Poller!TimesOK, Poller!FedOK, Poller!PagesOK
<1>4. Poller!OpenVersions' = Poller!OpenVersions
  BY <1>1 DEF Poller!OpenVersions, Poller!Current
<1> QED
  BY <1>1, <1>3, <1>4 DEF Poller!IInv, Poller!NothingSkipped

\* A cycle that starts has read nothing, and one that ends leaves nothing.
LEMMA FreshCycleStep ==
  ASSUME Poller!PollingAssumption, Poller!IInv, Poller!StartCycle \/ Poller!CycleEnds
  PROVE  Poller!IInv'
<1>1. /\ UNCHANGED << v1, v2, v3, v4, v6 >>
      /\ v5'.got = {} /\ v5'.fed = {} /\ ~v5'.torn
      /\ v5' \in [ at : { "sleep", "fetch", "feed" }, page : Nat \ {0},
                      got : SUBSET Poller!Version, fed : SUBSET Poller!Version, torn : BOOLEAN ]
  <2>1. CASE Poller!StartCycle
    <3>1. v5' = [ at |-> "fetch", page |-> 1, got |-> {}, fed |-> {}, torn |-> FALSE ]
      BY <2>1 DEF Poller!StartCycle, Poller!Sleeping
    <3>2. UNCHANGED << v1, v2, v3, v4, v6 >>
      BY <2>1 DEF Poller!StartCycle
    <3> QED
      BY <3>1, <3>2
  <2>2. CASE Poller!CycleEnds
    BY <2>2 DEF Poller!CycleEnds, Poller!Sleeping
  <2> QED
    BY <2>1, <2>2
<1>2. Poller!TypeOK' /\ Poller!TimesOK' /\ Poller!FedOK' /\ Poller!PagesOK'
  BY <1>1
  DEF Poller!IInv, Poller!TypeOK, Poller!TimesOK, Poller!FedOK, Poller!PagesOK,
      Poller!NewerThanRead
<1>3. Poller!OpenVersions' = Poller!OpenVersions
  BY <1>1 DEF Poller!OpenVersions, Poller!Current
<1> QED
  BY <1>1, <1>2, <1>3 DEF Poller!IInv, Poller!NothingSkipped

LEMMA FeedStep ==
  ASSUME Poller!PollingAssumption, Poller!IInv, Poller!FeedIssue \/ Poller!FeedFails
  PROVE  Poller!IInv'
<1>1. PICK w \in v5.got :
        /\ v5' = [ v5 EXCEPT !.fed = @ \cup {w} ]
        /\ \/ v4' = v4 \cup {w} /\ v6' = v6
           \/ v6' = v6 \cup {w} /\ v4' = v4
        /\ UNCHANGED << v1, v2, v3 >>
  BY DEF Poller!FeedIssue, Poller!FeedFails, Poller!Unfed
<1>2. v5' = [ at |-> v5.at, page |-> v5.page, got |-> v5.got,
                 fed |-> v5.fed \cup {w}, torn |-> v5.torn ]
  BY <1>1 DEF Poller!IInv, Poller!TypeOK
<1>3. w \in Poller!Version
  BY DEF Poller!IInv, Poller!TypeOK
<1>4. Poller!TypeOK' /\ Poller!TimesOK' /\ Poller!FedOK'
  BY <1>1, <1>2, <1>3 DEF Poller!IInv, Poller!TypeOK, Poller!TimesOK, Poller!FedOK
<1>5. Poller!Listed' = Poller!Listed /\ Poller!OpenVersions' = Poller!OpenVersions
        /\ \A u : Poller!Rank(u)' = Poller!Rank(u)
  BY <1>1 DEF Poller!Listed, Poller!OpenVersions, Poller!Current, Poller!Rank
<1>6. Poller!PagesOK'
  BY <1>2, <1>5 DEF Poller!IInv, Poller!PagesOK, Poller!NewerThanRead
<1> QED
  BY <1>1, <1>4, <1>5, <1>6 DEF Poller!IInv, Poller!NothingSkipped

-----------------------------------------------------------------------------
(* poll_since *)

Less == { p \in Nat \X Nat : p[1] < p[2] }

LEMMA LatestExists ==
  ASSUME NEW n \in Nat, NEW T, T \subseteq 0..n, T # {}
  PROVE  \E t \in T : \A s \in T : s <= t
<1> DEFINE U == { n - t : t \in T }
<1>1. IsWellFoundedOn(Less, Nat)
  BY NatLessThanWellFounded DEF Less, OpToRel
<1>2. \A t \in T : n - t \in Nat
  OBVIOUS
<1>3. U \subseteq Nat /\ U # {}
  BY <1>2
<1>4. PICK x \in U : \A y \in U : ~(<< y, x >> \in Less)
  BY <1>1, <1>3, WFMin
<1>5. PICK t \in T : x = n - t
  OBVIOUS
<1>6. ASSUME NEW s \in T PROVE s <= t
  <2>1. n - s \in U /\ n - s \in Nat /\ x \in Nat
    BY <1>3
  <2>2. ~(n - s < x)
    BY <1>4, <2>1 DEF Less
  <2> QED
    BY <2>1, <2>2, <1>5, <1>6
<1> QED
  BY <1>6

LEMMA NextSinceIsLatest ==
  ASSUME Poller!PollingAssumption, Poller!IInv, v5.got # {}
  PROVE  \E g \in v5.got : /\ Poller!NextSince(v5.got) = g.time
                           /\ \A h \in v5.got : h.time <= g.time
<1> DEFINE T == { g.time : g \in v5.got }
<1>1. T \subseteq 0..MaxTime /\ T # {}
  BY DEF Poller!IInv, Poller!TypeOK, Poller!Version, Poller!PollingAssumption
<1>2. \E t \in T : \A s \in T : t >= s
  BY <1>1, LatestExists DEF Poller!PollingAssumption
<1>3. Poller!Max(T) \in T /\ \A s \in T : Poller!Max(T) >= s
  BY <1>2 DEF Poller!Max
<1>4. Poller!NextSince(v5.got) = Poller!Max(T)
  BY DEF Poller!NextSince
<1> QED
  BY <1>1, <1>3, <1>4

\* poll_since moves to the newest version read: what is older than that and
\* was not read is older than the last poll_since.
LEMMA PollerPersistStep ==
  ASSUME Poller!PollingAssumption, Poller!IInv, Poller!PersistState
  PROVE  Poller!IInv'
<1>1. /\ v5.at = "feed" /\ v5.got \subseteq v5.fed
      /\ v3' = Poller!NextSince(v5.got) /\ v5' = Poller!Sleeping
      /\ v6' = IF v5.torn THEN v6 \cup (Poller!OpenVersions \ v5.got) ELSE v6
      /\ UNCHANGED << v1, v2, v4 >>
  BY DEF Poller!PersistState, Poller!Unfed
<1>2. Poller!OpenVersions' = Poller!OpenVersions
  BY <1>1 DEF Poller!OpenVersions, Poller!Current
<1>3. \A w \in Poller!OpenVersions : w \in Poller!Version /\ w.time \in Nat
  BY OpenTypes DEF Poller!IInv, Poller!Version
<1>4. v3' \in 0..MaxTime /\ v3' <= v2
  BY <1>1, NextSinceIsLatest
  DEF Poller!NextSince, Poller!IInv, Poller!TypeOK, Poller!TimesOK, Poller!Version,
      Poller!PollingAssumption
<1>5. v5'.got = {} /\ v5'.fed = {} /\ ~v5'.torn
      /\ v5' \in [ at : { "sleep", "fetch", "feed" }, page : Nat \ {0},
                      got : SUBSET Poller!Version, fed : SUBSET Poller!Version, torn : BOOLEAN ]
  BY <1>1 DEF Poller!Sleeping
<1>6. v6' \subseteq Poller!Version
  BY <1>1, <1>3 DEF Poller!IInv, Poller!TypeOK
<1>7. Poller!TypeOK' /\ Poller!TimesOK' /\ Poller!FedOK' /\ Poller!PagesOK'
  BY <1>1, <1>4, <1>5, <1>6
  DEF Poller!IInv, Poller!TypeOK, Poller!TimesOK, Poller!FedOK, Poller!PagesOK,
      Poller!NewerThanRead
<1>8. ASSUME NEW w \in Poller!OpenVersions, w.time < v3'
      PROVE  w \in v4 \cup v6'
  <2>1. v6 \subseteq v6' /\ v5.got \subseteq v4 \cup v6
    BY <1>1 DEF Poller!IInv, Poller!FedOK
  <2>2. CASE v5.got = {}
    BY <1>1, <1>8, <2>1, <2>2 DEF Poller!NextSince, Poller!IInv, Poller!NothingSkipped
  <2>3. CASE v5.got # {} /\ v5.torn
    BY <1>1, <2>1, <2>3
  <2>4. CASE v5.got # {} /\ ~v5.torn /\ w.time < v3
    BY <2>1, <2>4 DEF Poller!IInv, Poller!NothingSkipped
  <2>5. CASE v5.got # {} /\ ~v5.torn /\ w.time >= v3 /\ w \notin v5.got
    <3>1. w \in Poller!Listed
      BY <2>5 DEF Poller!Listed
    <3>2. \A g \in v5.got : g.time < w.time
      BY <1>1, <2>5, <3>1 DEF Poller!IInv, Poller!PagesOK, Poller!NewerThanRead
    <3>3. PICK g \in v5.got : v3' = g.time
      BY <1>1, <2>5, NextSinceIsLatest
    <3>4. g.time \in Nat /\ w.time \in Nat
      BY <1>3 DEF Poller!IInv, Poller!TypeOK, Poller!Version, Poller!PollingAssumption
    <3> QED
      BY <1>8, <3>2, <3>3, <3>4
  <2> QED
    BY <1>3, <2>1, <2>2, <2>3, <2>4, <2>5 DEF Poller!IInv, Poller!TypeOK, Poller!PollingAssumption
<1>9. Poller!NothingSkipped'
  BY <1>1, <1>2, <1>8 DEF Poller!NothingSkipped
<1> QED
  BY <1>7, <1>9 DEF Poller!IInv

-----------------------------------------------------------------------------
LEMMA PollerInvNext ==
  ASSUME Poller!PollingAssumption, Poller!IInv, [Poller!Next]_Poller!vars
  PROVE  Poller!IInv'
<1>1. CASE UNCHANGED Poller!vars
  BY <1>1
  DEF Poller!vars, Poller!IInv, Poller!TypeOK, Poller!TimesOK, Poller!PagesOK, Poller!FedOK,
      Poller!NothingSkipped, Poller!NewerThanRead, Poller!Listed,
     Poller!OpenVersions, Poller!Current, Poller!Rank
<1> QED
  BY <1>1, IssueUpdatedStep, IssueClosesStep, FetchPageStep, EarlyReturnStep, FreshCycleStep,
     FeedStep, PollerPersistStep DEF Poller!Next

LEMMA PollerSteps ==
  ASSUME focus = "poller", [Next]_v
  PROVE  focus' = "poller" /\ [Poller!Next]_Poller!vars
  BY DEF Next, v, Poller!vars, Kept6

LEMMA PollerInvariant == Spec => [](focus = "poller" => Poller!IInv)
<1> DEFINE Inv == focus = "poller" => Poller!IInv
<1>1. Init => Inv
  BY PollerAssumption, PollerInvInit DEF Init
<1>2. Inv /\ [Next]_v => Inv'
  BY PollerAssumption, PollerInvNext, PollerSteps, FocusIsKept
<1> QED
  BY <1>1, <1>2, PTL DEF Spec

(***************************************************************************)
(* EventStream: Events, the stream that sends them and the browser's place *)
(* in it.  The server's place and the browser's are past known events      *)
(* only. The variables: v1 last, v2 conn, v3 wire, v4 lastId, v5 got, v6   *)
(* shown, v7 reload, v8 excused.                                           *)
(***************************************************************************)

LEMMA EventsInvInit == ASSUME Events!EventStreamAssumption, Events!Init PROVE Events!IInv
  BY DEF Events!EventStreamAssumption, Events!Init, Events!IInv, Events!TypeOK, Events!PositionOK,
         Events!WireOK, Events!ReloadOK, Events!NoSilentGap,
     Events!Known, Events!Closed, Events!Events

\* What is known stays known: nothing is taken back, and a later full state
\* stands for what an earlier one stood for.
LEMMA KnownStays ==
  ASSUME Events!IInv, v5 \subseteq v5', v8 \subseteq v8', v7 <= v7',
         v7 \in Nat, v7' \in Nat,
         NEW e \in Events!Events, Events!Known(e)
  PROVE  Events!Known(e)'
<1>1. e \in Nat
  BY DEF Events!Events
<1> QED
  BY <1>1 DEF Events!Known

\* The steps that only move the connection, and take nothing off the wire.
LEMMA ConnectStep ==
  ASSUME Events!EventStreamAssumption, Events!IInv,
         Events!Publish \/ Events!Connect \/ Events!SubscribeAll \/ Events!SubscribeFrom
  PROVE  Events!IInv'
<1>1. /\ UNCHANGED << v3, v4, v5, v6, v7, v8 >>
      /\ v1' \in 0..MaxSeq /\ v1 <= v1'
  BY DEF Events!Publish, Events!Connect, Events!SubscribeAll, Events!SubscribeFrom, Events!IInv,
         Events!TypeOK, Events!EventStreamAssumption
<1>2. \A e : Events!Known(e)' = Events!Known(e)
  BY <1>1 DEF Events!Known
<1>3. CASE Events!Publish
  <2>1. v2' = v2
    BY <1>3 DEF Events!Publish
  <2> QED
    BY <1>1, <1>2, <2>1
    DEF Events!IInv, Events!TypeOK, Events!PositionOK, Events!WireOK, Events!ReloadOK,
        Events!NoSilentGap, Events!Events,
       Events!EventStreamAssumption
<1>4. CASE Events!Connect
  <2>1. v2' = [ at |-> "asking", from |-> v4, next |-> 1 ] /\ v3 = << >> /\ v1' = v1
    BY <1>4 DEF Events!Connect, Events!Closed, Events!IInv, Events!WireOK
  <2> QED
    BY <1>1, <1>2, <2>1
    DEF Events!IInv, Events!TypeOK, Events!PositionOK, Events!WireOK, Events!ReloadOK,
        Events!NoSilentGap, Events!Events,
       Events!EventStreamAssumption
<1>5. CASE Events!SubscribeAll
  <2>1. v2' = [ at |-> "following", from |-> v2.from, next |-> 1 ] /\ v1' = v1
    BY <1>5 DEF Events!SubscribeAll, Events!IInv, Events!TypeOK
  <2>2. v3 = << >>
    BY <1>5 DEF Events!SubscribeAll, Events!IInv, Events!WireOK
  <2> QED
    BY <1>1, <1>2, <2>1, <2>2
    DEF Events!IInv, Events!TypeOK, Events!PositionOK, Events!WireOK, Events!ReloadOK,
        Events!NoSilentGap, Events!Events,
       Events!EventStreamAssumption
<1>6. CASE Events!SubscribeFrom
  <2>1. /\ v2' = [ at |-> "following", from |-> v2.from, next |-> v2.from + 1 ]
        /\ v2.from + 1 \in 1..(MaxSeq + 1) /\ v1' = v1
    <3>1. v1' = v1 /\ v2' = [ v2 EXCEPT !.at = "following", !.next = v2.from + 1 ]
      BY <1>6 DEF Events!SubscribeFrom
    <3>2. v2.from \in 0..MaxSeq
      BY DEF Events!IInv, Events!TypeOK
    <3>3. v2.from + 1 \in 1..(MaxSeq + 1)
      BY <3>2 DEF Events!EventStreamAssumption
    <3> QED
      BY <3>1, <3>3 DEF Events!IInv, Events!TypeOK
  <2>2. v3 = << >>
    BY <1>6 DEF Events!SubscribeFrom, Events!IInv, Events!WireOK
  <2>3. \A e \in Events!Events : e < v2'.next => e <= v2.from
    BY <2>1 DEF Events!IInv, Events!TypeOK, Events!Events, Events!EventStreamAssumption
  <2>4. Events!TypeOK' /\ Events!PositionOK' /\ Events!ReloadOK' /\ Events!NoSilentGap'
    BY <1>1, <1>2, <2>1
    DEF Events!IInv, Events!TypeOK, Events!PositionOK, Events!ReloadOK, Events!NoSilentGap,
        Events!Events,
       Events!EventStreamAssumption
  <2>5. Events!WireOK'
    BY <1>1, <1>2, <2>1, <2>2, <2>3 DEF Events!IInv, Events!PositionOK, Events!WireOK
  <2> QED
    BY <2>4, <2>5 DEF Events!IInv
<1> QED
  BY <1>3, <1>4, <1>5, <1>6

\* full_state: the head of the stream stands for all that was published.
LEMMA AsksForHeadStep ==
  ASSUME Events!EventStreamAssumption, Events!IInv, Events!AsksForHead
  PROVE  Events!IInv'
<1>1. PICK head \in { 0, v1 } : Events!Decides(head)
  BY DEF Events!AsksForHead
<1>2. /\ UNCHANGED << v1, v3, v5, v6, v8 >> /\ v3 = << >>
      /\ v2.at = "asking" /\ v2.from # 0
  BY <1>1 DEF Events!Decides, Events!IInv, Events!WireOK
<1>3. CASE head > v2.from + MaxGap
  <2>1. /\ v2' = [ at |-> "latest", from |-> v2.from, next |-> v2.next ]
        /\ head = v1 /\ v1 > 0 /\ v4' = v1 /\ v7' = v1
    BY <1>1, <1>3 DEF Events!Decides, Events!IInv, Events!TypeOK, Events!EventStreamAssumption
  <2>2. Events!TypeOK' /\ Events!ReloadOK'
    BY <1>2, <2>1 DEF Events!IInv, Events!TypeOK, Events!ReloadOK
  <2>3. \A e \in Events!Events : Events!Known(e) => Events!Known(e)'
    BY <1>2, <2>1, <2>2, KnownStays DEF Events!IInv, Events!TypeOK, Events!ReloadOK
  <2>4. \A e \in Events!Events : e <= v4' => Events!Known(e)'
    BY <2>1 DEF Events!Known
  <2>5. Events!PositionOK'
    BY <2>1, <2>3, <2>4 DEF Events!IInv, Events!PositionOK
  <2>6. Events!WireOK' /\ Events!NoSilentGap'
    BY <1>2, <2>1, <2>3 DEF Events!IInv, Events!WireOK, Events!NoSilentGap, Events!Known
  <2> QED
    BY <2>2, <2>5, <2>6 DEF Events!IInv
<1>4. CASE ~(head > v2.from + MaxGap)
  <2>1. /\ v2' = [ at |-> "replaying", from |-> v2.from, next |-> v2.next ]
        /\ UNCHANGED << v4, v7 >>
    BY <1>1, <1>4 DEF Events!Decides, Events!IInv, Events!TypeOK
  <2>2. \A e : Events!Known(e)' = Events!Known(e)
    BY <1>2, <2>1 DEF Events!Known
  <2> QED
    BY <1>2, <2>1, <2>2
    DEF Events!IInv, Events!TypeOK, Events!PositionOK, Events!WireOK, Events!ReloadOK,
        Events!NoSilentGap
<1> QED
  BY <1>3, <1>4

LEMMA SubscribeLatestStep ==
  ASSUME Events!EventStreamAssumption, Events!IInv, Events!SubscribeLatest
  PROVE  Events!IInv'
<1>1. /\ UNCHANGED << v1, v3, v4, v5, v6, v7 >> /\ v3 = << >> /\ v1 > 0
      /\ v2' = [ at |-> "following", from |-> v2.from, next |-> v1 ]
      /\ v8' = v8 \cup { e \in Events!Events : e > v7 /\ e < v1 }
  BY DEF Events!SubscribeLatest, Events!IInv, Events!TypeOK, Events!WireOK, Events!ReloadOK
<1>2. Events!TypeOK' /\ Events!ReloadOK'
  BY <1>1 DEF Events!IInv, Events!TypeOK, Events!ReloadOK, Events!EventStreamAssumption
<1>3. \A e \in Events!Events : Events!Known(e) => Events!Known(e)'
  BY <1>1 DEF Events!Known
<1>4. \A e \in Events!Events : e < v1 => Events!Known(e)'
  BY <1>1 DEF Events!Known, Events!IInv, Events!TypeOK, Events!Events
<1> QED
  BY <1>1, <1>2, <1>3, <1>4
  DEF Events!IInv, Events!PositionOK, Events!WireOK, Events!NoSilentGap, Events!Known

LEMMA SendsStep ==
  ASSUME Events!EventStreamAssumption, Events!IInv, Events!Sends
  PROVE  Events!IInv'
<1>1. /\ UNCHANGED << v1, v4, v5, v6, v7, v8 >>
      /\ v2.at = "following" /\ v2.next <= v1 /\ v2.next \in Events!Events
      /\ v2' = [ at |-> "following", from |-> v2.from, next |-> v2.next + 1 ]
      /\ v3' = Append(v3, v2.next)
  <2>1. v2.next \in 1..(MaxSeq + 1) /\ v1 \in 0..MaxSeq
    BY DEF Events!IInv, Events!TypeOK
  <2>2. v2' = [ v2 EXCEPT !.next = v2.next + 1 ] /\ v2.next <= v1
    BY DEF Events!Sends
  <2>3. v2.next \in Events!Events
    BY <2>1, <2>2 DEF Events!Events, Events!EventStreamAssumption
  <2> QED
    BY <2>2, <2>3 DEF Events!Sends, Events!IInv, Events!TypeOK
<1>2. \A e : Events!Known(e)' = Events!Known(e)
  BY <1>1 DEF Events!Known
<1>3. v3 \in Seq(Events!Events) /\ Len(v3) \in Nat
  BY DEF Events!IInv, Events!TypeOK
<1>4. /\ v3' \in Seq(Events!Events) /\ Len(v3') = Len(v3) + 1 /\ v3'[Len(v3) + 1] = v2.next
      /\ \A i \in 1..Len(v3) : v3'[i] = v3[i]
  BY <1>1, <1>3
<1>5. Events!TypeOK' /\ Events!PositionOK' /\ Events!ReloadOK' /\ Events!NoSilentGap'
  BY <1>1, <1>2, <1>4
  DEF Events!IInv, Events!TypeOK, Events!PositionOK, Events!ReloadOK, Events!NoSilentGap,
      Events!Events,
     Events!EventStreamAssumption
<1>6. ASSUME NEW i \in 1..Len(v3'), NEW e \in Events!Events, e < v3'[i]
      PROVE  Events!Known(e)' \/ \E j \in 1..(i - 1) : v3'[j] = e
  <2>1. CASE i = Len(v3) + 1
    <3>1. Events!Known(e) \/ \E j \in 1..Len(v3) : v3[j] = e
      BY <1>1, <1>4, <1>6, <2>1 DEF Events!IInv, Events!WireOK
    <3> QED
      BY <1>2, <1>3, <1>4, <2>1, <3>1
  <2>2. CASE i # Len(v3) + 1
    <3>1. i \in 1..Len(v3)
      BY <1>3, <1>4, <2>2
    <3>2. Events!Known(e) \/ \E j \in 1..(i - 1) : v3[j] = e
      BY <1>4, <1>6, <3>1 DEF Events!IInv, Events!WireOK
    <3>3. \A j \in 1..(i - 1) : v3'[j] = v3[j]
      BY <1>3, <1>4, <3>1
    <3> QED
      BY <1>2, <3>2, <3>3
  <2> QED
    BY <2>1, <2>2
<1>7. ASSUME NEW e \in Events!Events, e < v2'.next
      PROVE  Events!Known(e)' \/ \E j \in 1..Len(v3') : v3'[j] = e
  <2>1. CASE e = v2.next
    BY <1>3, <1>4, <2>1
  <2>2. CASE e # v2.next
    <3>1. e < v2.next
      BY <1>1, <1>7, <2>2 DEF Events!Events
    <3>2. Events!Known(e) \/ \E j \in 1..Len(v3) : v3[j] = e
      BY <1>1, <3>1 DEF Events!IInv, Events!WireOK
    <3> QED
      BY <1>2, <1>3, <1>4, <3>2
  <2> QED
    BY <2>1, <2>2
<1>8. Events!WireOK'
  BY <1>1, <1>6, <1>7 DEF Events!WireOK
<1> QED
  BY <1>5, <1>8 DEF Events!IInv

LEMMA SkipsMessageStep ==
  ASSUME Events!EventStreamAssumption, Events!IInv, Events!SkipsMessage
  PROVE  Events!IInv'
<1>1. /\ UNCHANGED << v1, v3, v4, v5, v6, v7 >>
      /\ v2.at = "following" /\ v2.next <= v1 /\ v2.next \in Events!Events
      /\ v2' = [ at |-> "following", from |-> v2.from, next |-> v2.next + 1 ]
      /\ v8' = v8 \cup { v2.next }
  <2>1. v2.next \in 1..(MaxSeq + 1) /\ v1 \in 0..MaxSeq
    BY DEF Events!IInv, Events!TypeOK
  <2>2. v2' = [ v2 EXCEPT !.next = v2.next + 1 ] /\ v2.next <= v1
    BY DEF Events!SkipsMessage
  <2>3. v2.next \in Events!Events
    BY <2>1, <2>2 DEF Events!Events, Events!EventStreamAssumption
  <2> QED
    BY <2>2, <2>3 DEF Events!SkipsMessage, Events!IInv, Events!TypeOK
<1>2. \A e \in Events!Events : Events!Known(e) => Events!Known(e)'
  BY <1>1 DEF Events!Known
<1>3. \A e \in Events!Events : e = v2.next => Events!Known(e)'
  BY <1>1 DEF Events!Known
<1>4. \A e \in Events!Events : e < v2'.next => e < v2.next \/ e = v2.next
  BY <1>1 DEF Events!Events
<1>5. Events!TypeOK' /\ Events!ReloadOK'
  <2>1. v2.next + 1 \in 1..(MaxSeq + 1)
    BY <1>1 DEF Events!Events, Events!EventStreamAssumption
  <2>2. v8' \subseteq Events!Events
    BY <1>1 DEF Events!IInv, Events!TypeOK
  <2> QED
    BY <1>1, <2>1, <2>2 DEF Events!IInv, Events!TypeOK, Events!ReloadOK
<1>6. Events!PositionOK' /\ Events!NoSilentGap'
  BY <1>1, <1>2 DEF Events!IInv, Events!PositionOK, Events!NoSilentGap, Events!Known
<1>7. Events!WireOK'
  <2>1. \A e \in Events!Events : e < v2'.next =>
          Events!Known(e)' \/ \E j \in 1..Len(v3) : v3[j] = e
    BY <1>1, <1>2, <1>3, <1>4 DEF Events!IInv, Events!WireOK
  <2> QED
    BY <1>1, <1>2, <2>1 DEF Events!IInv, Events!WireOK
<1> QED
  BY <1>5, <1>6, <1>7 DEF Events!IInv

\* An event arrives after those sent before it, so all before it are known.
LEMMA EventsReceivesStep ==
  ASSUME Events!EventStreamAssumption, Events!IInv, Events!Receives
  PROVE  Events!IInv'
<1>1. /\ v3 # << >> /\ v3' = Tail(v3) /\ v4' = Head(v3)
      /\ v5' = v5 \cup { Head(v3) } /\ v6' \subseteq v6 \cup { Head(v3) }
      /\ UNCHANGED << v1, v2, v7, v8 >>
  BY DEF Events!Receives
<1>2. /\ v3 \in Seq(Events!Events) /\ Len(v3) \in Nat \ {0} /\ Head(v3) = v3[1]
      /\ v3[1] \in Events!Events /\ v3' \in Seq(Events!Events) /\ Len(v3') = Len(v3) - 1
      /\ \A i \in 1..Len(v3') : v3'[i] = v3[i + 1]
  BY <1>1 DEF Events!IInv, Events!TypeOK
<1>3. Events!TypeOK' /\ Events!ReloadOK'
  <2>1. v3[1] \in 0..MaxSeq
    BY <1>2 DEF Events!Events, Events!EventStreamAssumption
  <2>2. v5' \subseteq Events!Events /\ v6' \subseteq v5'
    BY <1>1, <1>2 DEF Events!IInv, Events!TypeOK
  <2> QED
    BY <1>1, <1>2, <2>1, <2>2 DEF Events!IInv, Events!TypeOK, Events!ReloadOK
<1>4. \A e \in Events!Events : Events!Known(e) => Events!Known(e)'
  BY <1>1 DEF Events!Known
<1>5. \A e \in Events!Events : e = v3[1] => Events!Known(e)'
  BY <1>1, <1>2 DEF Events!Known
<1>6. \A e \in Events!Events : e < v3[1] => Events!Known(e)
  BY <1>2 DEF Events!IInv, Events!WireOK
<1>7. \A e \in Events!Events : e <= v3[1] => Events!Known(e)'
  BY <1>2, <1>4, <1>5, <1>6 DEF Events!Events
<1>8. Events!PositionOK'
  BY <1>1, <1>2, <1>4, <1>7 DEF Events!IInv, Events!PositionOK
<1>9. Events!NoSilentGap'
  <2>1. \A e, f \in Events!Events : f \in v5' /\ e < f => Events!Known(e)'
    BY <1>1, <1>2, <1>4, <1>6 DEF Events!IInv, Events!NoSilentGap, Events!Known
  <2>2. v5' \subseteq Events!Events
    BY <1>3 DEF Events!TypeOK
  <2> QED
    BY <2>1, <2>2 DEF Events!NoSilentGap, Events!Known
<1>10. ASSUME NEW i \in 1..Len(v3'), NEW e \in Events!Events, e < v3'[i]
       PROVE  Events!Known(e)' \/ \E j \in 1..(i - 1) : v3'[j] = e
  <2>1. i + 1 \in 1..Len(v3) /\ e < v3[i + 1]
    BY <1>2, <1>10
  <2>2. Events!Known(e) \/ \E j \in 1..i : v3[j] = e
    BY <2>1 DEF Events!IInv, Events!WireOK
  <2>3. ASSUME NEW j \in 1..i, v3[j] = e, j # 1
        PROVE  j - 1 \in 1..(i - 1) /\ v3'[j - 1] = e
    BY <1>2, <2>1, <2>3
  <2>4. (\E j \in 1..i : v3[j] = e) => v3[1] = e \/ \E j \in 1..(i - 1) : v3'[j] = e
    BY <2>3
  <2> QED
    BY <1>4, <1>5, <2>2, <2>4
<1>11. ASSUME v2.at = "following", NEW e \in Events!Events, e < v2.next
       PROVE  Events!Known(e)' \/ \E j \in 1..Len(v3') : v3'[j] = e
  <2>1. Events!Known(e) \/ \E j \in 1..Len(v3) : v3[j] = e
    BY <1>11 DEF Events!IInv, Events!WireOK
  <2>2. ASSUME NEW j \in 1..Len(v3), v3[j] = e, j # 1
        PROVE  j - 1 \in 1..Len(v3') /\ v3'[j - 1] = e
    BY <1>2, <2>2
  <2>3. (\E j \in 1..Len(v3) : v3[j] = e)
          => v3[1] = e \/ \E j \in 1..Len(v3') : v3'[j] = e
    BY <2>2
  <2> QED
    BY <1>4, <1>5, <2>1, <2>3
<1>12. v2'.at # "following" => v3' = << >>
  BY <1>1 DEF Events!IInv, Events!WireOK
<1>13. Events!WireOK'
  BY <1>1, <1>10, <1>11, <1>12 DEF Events!WireOK
<1> QED
  BY <1>3, <1>8, <1>9, <1>13 DEF Events!IInv

\* A connection that ends takes what is on the wire with it; one that failed
\* leaves the browser at position 1.
LEMMA ClosesStep ==
  ASSUME Events!EventStreamAssumption, Events!IInv, Events!ConnectFails \/ Events!Disconnects
  PROVE  Events!IInv'
<1>1. /\ UNCHANGED << v1, v5, v6, v7 >> /\ v3' = << >>
      /\ v2' = [ at |-> "closed", from |-> 0, next |-> 1 ]
      /\ \/ v4' = v4 /\ v8' = v8
         \/ v4' = 1 /\ v8' = v8 \cup {1} /\ 1 \in Events!Events
  BY DEF Events!ConnectFails, Events!Disconnects, Events!Closed, Events!Events,
         Events!EventStreamAssumption
<1>2. Events!TypeOK' /\ Events!ReloadOK'
  <2>1. v4' \in 0..MaxSeq /\ v8' \subseteq Events!Events
    <3>1. v4 \in 0..MaxSeq /\ v8 \subseteq Events!Events
      BY DEF Events!IInv, Events!TypeOK
    <3>2. \A e \in Events!Events : e \in 0..MaxSeq
      BY DEF Events!Events, Events!EventStreamAssumption
    <3> QED
      BY <1>1, <3>1, <3>2
  <2>2. v2' \in [ at : { "closed", "asking", "latest", "replaying", "following" },
                    from : 0..MaxSeq, next : 1..(MaxSeq + 1) ]
    BY <1>1 DEF Events!EventStreamAssumption
  <2>3. v3' \in Seq(Events!Events)
    BY <1>1
  <2> QED
    BY <1>1, <2>1, <2>2, <2>3 DEF Events!IInv, Events!TypeOK, Events!ReloadOK
<1>3. \A e \in Events!Events : Events!Known(e) => Events!Known(e)'
  BY <1>1 DEF Events!Known
<1>4. Events!PositionOK'
  <2>1. ASSUME NEW e \in Events!Events, e <= v4' \/ e <= v2'.from PROVE Events!Known(e)'
    <3>1. e <= v4'
      BY <1>1, <2>1 DEF Events!Events
    <3>2. e <= v4 \/ (e = 1 /\ 1 \in v8')
      BY <1>1, <3>1 DEF Events!Events
    <3> QED
      BY <1>3, <3>2 DEF Events!Known, Events!IInv, Events!PositionOK
  <2> QED
    BY <2>1 DEF Events!PositionOK
<1>5. Events!WireOK'
  BY <1>1 DEF Events!WireOK
<1>6. Events!NoSilentGap'
  BY <1>1, <1>3 DEF Events!IInv, Events!NoSilentGap, Events!Known
<1> QED
  BY <1>2, <1>4, <1>5, <1>6 DEF Events!IInv

LEMMA EventsInvNext ==
  ASSUME Events!EventStreamAssumption, Events!IInv, [Events!Next]_Events!vars
  PROVE  Events!IInv'
<1>1. CASE UNCHANGED Events!vars
  BY <1>1
  DEF Events!vars, Events!IInv, Events!TypeOK, Events!PositionOK, Events!WireOK, Events!ReloadOK,
      Events!NoSilentGap, Events!Known
<1> QED
  BY <1>1, ConnectStep, AsksForHeadStep, SubscribeLatestStep, SendsStep, SkipsMessageStep,
     EventsReceivesStep, ClosesStep DEF Events!Next

LEMMA EventsSteps ==
  ASSUME focus = "events", [Next]_v
  PROVE  focus' = "events" /\ [Events!Next]_Events!vars
  BY DEF Next, v, Events!vars, Kept8

LEMMA EventsInvariant == Spec => [](focus = "events" => Events!IInv)
<1> DEFINE Inv == focus = "events" => Events!IInv
<1>1. Init => Inv
  BY EventsAssumption, EventsInvInit DEF Init
<1>2. Inv /\ [Next]_v => Inv'
  BY EventsAssumption, EventsInvNext, EventsSteps, FocusIsKept
<1> QED
  BY <1>1, <1>2, PTL DEF Spec

(***************************************************************************)
(* Consumers: Messages and the consumer that acknowledges them.  What it   *)
(* holds was published, and what it is to acknowledge has had its effect.  *)
(* The variables: v1 published, v2 consumer, v3 copies, v4 atWork, v5      *)
(* effects, v6 acked, v7 failures.                                         *)
(***************************************************************************)

LEMMA DashboardInvInit ==
  ASSUME Dashboard!ConsumersAssumption, Dashboard!Init
  PROVE  Dashboard!IInv
  BY DEF Dashboard!ConsumersAssumption, Dashboard!Init, Dashboard!IInv, Dashboard!TypeOK,
         Dashboard!InHandOK, Dashboard!AckedHadEffect, Dashboard!Nothing

LEMMA DeliveredStep ==
  ASSUME Dashboard!ConsumersAssumption, Dashboard!IInv, NEW m \in Messages, Dashboard!Delivered(m)
  PROVE  Dashboard!IInv'
<1>1. v3[m] + 1 \in 0..MaxCopies
  BY DEF Dashboard!ConsumersAssumption, Dashboard!Delivered, Dashboard!IInv, Dashboard!TypeOK
<1> QED
  BY <1>1
  DEF Dashboard!Delivered, Dashboard!IInv, Dashboard!TypeOK, Dashboard!InHandOK,
      Dashboard!AckedHadEffect

LEMMA TakesStep ==
  ASSUME Dashboard!ConsumersAssumption, Dashboard!IInv, NEW m \in Messages, Dashboard!Takes(m)
  PROVE  Dashboard!IInv'
<1>1. v3[m] - 1 \in 0..MaxCopies
  BY DEF Dashboard!ConsumersAssumption, Dashboard!Takes, Dashboard!IInv, Dashboard!TypeOK
<1> QED
  BY <1>1
  DEF Dashboard!Takes, Dashboard!IInv, Dashboard!TypeOK, Dashboard!InHandOK,
      Dashboard!AckedHadEffect

\* The effect comes before the step at which the acknowledgement is sent.
LEMMA ActsStep ==
  ASSUME Dashboard!ConsumersAssumption, Dashboard!IInv, Dashboard!Acts
  PROVE  Dashboard!IInv'
<1>1. v4.message \in Messages /\ v4.message \in v1
  BY DEF Dashboard!Acts, Dashboard!IInv, Dashboard!TypeOK, Dashboard!InHandOK
<1>2. v5[v4.message] + 1 \in Nat \ {0}
  BY <1>1 DEF Dashboard!IInv, Dashboard!TypeOK
<1> QED
  BY <1>1, <1>2
  DEF Dashboard!Acts, Dashboard!IInv, Dashboard!TypeOK, Dashboard!InHandOK,
      Dashboard!AckedHadEffect

LEMMA DashboardInvNext ==
  ASSUME Dashboard!ConsumersAssumption, Dashboard!IInv, [Dashboard!Next]_Dashboard!vars
  PROVE  Dashboard!IInv'
<1>1. CASE UNCHANGED Dashboard!vars
  BY <1>1
  DEF Dashboard!vars, Dashboard!IInv, Dashboard!TypeOK, Dashboard!InHandOK,
      Dashboard!AckedHadEffect
<1>2. CASE Dashboard!Publish \/ Dashboard!Starts \/ Dashboard!Stops
  BY <1>2
  DEF Dashboard!ConsumersAssumption, Dashboard!Publish, Dashboard!Starts, Dashboard!Stops,
      Dashboard!Nothing, Dashboard!IInv, Dashboard!TypeOK, Dashboard!InHandOK,
     Dashboard!AckedHadEffect
<1>3. CASE Dashboard!Fails \/ Dashboard!Acks
  BY <1>3
  DEF Dashboard!Fails, Dashboard!Acks, Dashboard!Nothing, Dashboard!IInv, Dashboard!TypeOK,
      Dashboard!InHandOK, Dashboard!AckedHadEffect
<1> QED
  BY <1>1, <1>2, <1>3, DeliveredStep, TakesStep, ActsStep DEF Dashboard!Next

LEMMA DashboardSteps ==
  ASSUME focus = "dashboard", [Next]_v
  PROVE  focus' = "dashboard" /\ [Dashboard!Next]_Dashboard!vars
  BY DEF Next, v, Dashboard!vars, Kept7

LEMMA DashboardInvariant == Spec => [](focus = "dashboard" => Dashboard!IInv)
<1> DEFINE Inv == focus = "dashboard" => Dashboard!IInv
<1>1. Init => Inv
  BY DashboardAssumption, DashboardInvInit DEF Init
<1>2. Inv /\ [Next]_v => Inv'
  BY DashboardAssumption, DashboardInvNext, DashboardSteps, FocusIsKept
<1> QED
  BY <1>1, <1>2, PTL DEF Spec

(***************************************************************************)
(* Board: Synchronisations of the project board.  A request that met no    *)
(* other has the rows and the fields as they are, and has shown every      *)
(* active task whose turn is over. The variables: v1 row, v2 project, v3   *)
(* item, v4 sync, v5 noted, v6 disturbances.                               *)
(***************************************************************************)

Forced == [ at : { "idle", "find", "cost", "complexity", "walk", "set" },
            left : SUBSET Tasks, rows : [ Tasks -> Shown!TaskRows ] \cup {<< >>},
            cached : Shown!ProjectSetups, todo : Seq(Shown!Fields \X Shown!Options),
            task : Tasks \cup {"none"}, failed : BOOLEAN, calm : BOOLEAN ]

\* What the invariant says of one request, with the rows, the project and the items.
ActiveIn(w) == { t \in Tasks : w[t].status # "published" }
Tier(w, t) == Shown!Mapped(Shown!TierMapping, w[t].tier)
ShowsIn(t, w, p, m) ==
  /\ t \in DOMAIN m
  /\ "Automation Tier" \in p.fields /\ Tier(w, t) # "none" => m[t]["Automation Tier"] = Tier(w, t)
CurrentIn(c, w, p, m) ==
  /\ c.at # "idle" /\ c.rows = w
  /\ c.at # "find" => c.cached = p
  /\ ~c.failed => \A t \in ActiveIn(w) \ c.left :
                    ShowsIn(t, w, p, m) \/ (c.at = "set" /\ c.task = t /\ c.todo # << >>)
FieldsOK(c) ==
  /\ c.at # "idle" => c.rows \in [ Tasks -> Shown!TaskRows ]
  /\ c.at \in { "complexity", "walk", "set" } => "Cost" \in c.cached.fields
  /\ c.at \in { "walk", "set" } => "Complexity" \in c.cached.fields
  /\ c.at = "set" => c.task \in Tasks /\ c.todo \in { << >>, Shown!TierPush(c) }
  /\ c.todo # << >> => c.at = "set" /\ "Automation Tier" \in c.cached.fields
ShownFits(c, w, p, m) == c \in Forced /\ FieldsOK(c) /\ (c.calm => CurrentIn(c, w, p, m))

\* The invariant in these terms.
Surroundings ==
  /\ v1 \in [ Tasks -> Shown!TaskRows ] /\ v2 \in Shown!ProjectSetups
  /\ DOMAIN v3 \subseteq Tasks /\ v3 \in [ DOMAIN v3 -> Shown!Showing ]
  /\ v5 \subseteq Tasks /\ v6 \in 0..MaxDisturbances

LEMMA ShowsIs == \A t : Shown!Shows(t) <=> ShowsIn(t, v1, v2, v3)
  BY DEF Shown!Shows, ShowsIn, Tier

LEMMA ShownInvIs ==
  Shown!IInv <=> /\ Surroundings
                 /\ v4 \in [ Requests -> Forced ]
                 /\ \A s \in Requests : ShownFits(v4[s], v1, v2, v3)
<1>1. \A c : Shown!IsCurrent(c) <=> CurrentIn(c, v1, v2, v3)
  BY ShowsIs DEF Shown!IsCurrent, CurrentIn, Shown!ActiveTasks, ActiveIn
<1>2. \A c : Shown!SyncOK(c) <=> FieldsOK(c) /\ (c.calm => CurrentIn(c, v1, v2, v3))
  BY <1>1 DEF Shown!SyncOK, FieldsOK
<1>3. Shown!TypeOK <=> Surroundings /\ v4 \in [ Requests -> Forced ]
  BY DEF Shown!TypeOK, Surroundings, Forced
<1> QED
  BY <1>2, <1>3 DEF Shown!IInv, ShownFits

LEMMA ShownInvIsThen ==
  ASSUME Surroundings', v4' \in [ Requests -> Forced ],
         \A s \in Requests : ShownFits(v4'[s], v1', v2', v3')
  PROVE  Shown!IInv'
<1>1. \A t : Shown!Shows(t)' <=> ShowsIn(t', v1', v2', v3')
  BY DEF Shown!Shows, ShowsIn, Tier
<1>2. Shown!TypeOK'
  BY DEF Shown!TypeOK, Surroundings, Forced
<1>3. ASSUME NEW s \in Requests PROVE Shown!SyncOK(v4[s])'
  <2>1. ShownFits(v4'[s], v1', v2', v3')
    OBVIOUS
  <2>2. v4'[s].calm => Shown!IsCurrent(v4[s])'
    BY <2>1
    DEF ShownFits, Shown!IsCurrent, CurrentIn, Shown!ActiveTasks, ActiveIn, Shown!Shows, ShowsIn,
        Tier
  <2> QED
    BY <2>1, <2>2 DEF ShownFits, Shown!SyncOK, FieldsOK, Shown!TierPush
<1> QED
  BY <1>2, <1>3 DEF Shown!IInv

LEMMA IdleFits == Shown!Idle \in Forced /\ \A w, p, m : ShownFits(Shown!Idle, w, p, m)
<1>1. Shown!NotFound \in Shown!ProjectSetups
  BY DEF Shown!NotFound, Shown!ProjectSetups
<1>2. << >> \in Seq(Shown!Fields \X Shown!Options)
  OBVIOUS
<1>3. Shown!Idle \in Forced
  BY <1>1, <1>2 DEF Shown!Idle, Forced
<1> QED
  BY <1>3 DEF Shown!Idle, ShownFits, FieldsOK

LEMMA ShownInvInit == ASSUME Shown!BoardAssumption, Shown!Init PROVE Shown!IInv
<1>1. v1 \in [ Tasks -> Shown!TaskRows ] /\ v2 \in Shown!ProjectSetups
      /\ DOMAIN v3 \subseteq Tasks /\ v3 \in [ DOMAIN v3 -> Shown!Showing ]
  BY DEF Shown!Init, Shown!BoardAssumption
<1>2. 0 \in 0..MaxDisturbances
  BY DEF Shown!BoardAssumption
<1>3. v4 \in [ Requests -> Forced ] /\ \A s \in Requests : v4[s] = Shown!Idle
  BY IdleFits DEF Shown!Init
<1> QED
  BY <1>1, <1>2, <1>3, IdleFits, ShownInvIs DEF Shown!Init, Surroundings

-----------------------------------------------------------------------------
(* Requests that others disturb *)

LEMMA UnsettledOK ==
  ASSUME NEW c \in Forced, NEW w, NEW p, NEW m, FieldsOK(c)
  PROVE  ShownFits([ c EXCEPT !.calm = FALSE ], w, p, m)
<1> DEFINE no == FALSE  d == [ c EXCEPT !.calm = no ]
<1>1. no \in BOOLEAN /\ ~no
  OBVIOUS
<1> HIDE DEF no
<1>2. /\ d.at = c.at /\ d.left = c.left /\ d.rows = c.rows /\ d.cached = c.cached
      /\ d.todo = c.todo /\ d.task = c.task /\ d.failed = c.failed /\ d.calm = no
      /\ d \in Forced
  BY <1>1 DEF Forced
<1>3. ~d.calm
  BY <1>1, <1>2
<1> HIDE DEF d
<1>4. ShownFits(d, w, p, m)
  BY <1>2, <1>3 DEF ShownFits, FieldsOK, Shown!TierPush
<1> QED
  BY <1>4 DEF d, no

\* What a request is when others have done something: as it was, or unsettled.
LEMMA OthersAre ==
  ASSUME v4 \in [ Requests -> Forced ], NEW rs
  PROVE  /\ Shown!Unsettled(rs) \in [ Requests -> Forced ]
         /\ \A s \in Requests :
              Shown!Unsettled(rs)[s] = IF s \in rs THEN [ v4[s] EXCEPT !.calm = FALSE ]
                                                           ELSE v4[s]
<1>1. \A s \in Requests : [ v4[s] EXCEPT !.calm = FALSE ] \in Forced
  <2> TAKE s \in Requests
  <2> DEFINE no == FALSE
  <2>1. no \in BOOLEAN
    OBVIOUS
  <2> HIDE DEF no
  <2>2. [ v4[s] EXCEPT !.calm = no ] \in Forced
    BY <2>1 DEF Forced
  <2> QED
    BY <2>2 DEF no
<1> QED
  BY <1>1 DEF Shown!Unsettled

\* A request that is not met by a change of the surroundings fits as before: the
\* rows stay, what tasks showed they show, and the project has no new field for tiers.
LEMMA StaysFit ==
  ASSUME NEW c, NEW w, NEW p, NEW m, ShownFits(c, w, p, m), NEW m2,
         \A t \in DOMAIN m : t \in DOMAIN m2 /\ m2[t] = m[t]
  PROVE  ShownFits(c, w, p, m2)
  BY DEF ShownFits, CurrentIn, ShowsIn

\* A step of one request that disturbs all others, or meets none of them.
LEMMA OneMoves ==
  ASSUME Shown!BoardAssumption, Shown!IInv, NEW s \in Requests, Surroundings', UNCHANGED v1,
         v4' \in [ Requests -> Forced ], ShownFits(v4'[s], v1', v2', v3'),
         \A q \in Requests \ {s} :
           \/ v4'[q] = [ v4[q] EXCEPT !.calm = FALSE ]
           \/ /\ v4'[q] = v4[q] /\ UNCHANGED v2
              /\ \A t \in DOMAIN v3 : t \in DOMAIN v3' /\ v3'[t] = v3[t]
  PROVE  Shown!IInv'
<1>1. ASSUME NEW q \in Requests \ {s} PROVE ShownFits(v4'[q], v1', v2', v3')
  <2>1. ShownFits(v4[q], v1, v2, v3) /\ v4[q] \in Forced /\ FieldsOK(v4[q])
    BY ShownInvIs DEF ShownFits
  <2>2. CASE v4'[q] = [ v4[q] EXCEPT !.calm = FALSE ]
    BY <2>1, <2>2, UnsettledOK
  <2>3. CASE /\ v4'[q] = v4[q] /\ UNCHANGED v2
             /\ \A t \in DOMAIN v3 : t \in DOMAIN v3' /\ v3'[t] = v3[t]
    BY <2>1, <2>3, StaysFit
  <2> QED
    BY <2>2, <2>3
<1> QED
  BY <1>1, ShownInvIsThen

LEMMA AllUnsettled ==
  ASSUME Shown!BoardAssumption, Shown!IInv, v4' = Shown!Unsettled(Requests),
         Surroundings' PROVE Shown!IInv'
<1>1. /\ v4' \in [ Requests -> Forced ]
      /\ \A s \in Requests : v4'[s] = [ v4[s] EXCEPT !.calm = FALSE ]
  BY OthersAre, ShownInvIs
<1>2. ASSUME NEW s \in Requests PROVE ShownFits(v4'[s], v1', v2', v3')
  <2>1. v4[s] \in Forced /\ FieldsOK(v4[s])
    BY ShownInvIs DEF ShownFits
  <2> QED
    BY <1>1, <2>1, UnsettledOK
<1> QED
  BY <1>1, <1>2, ShownInvIsThen

LEMMA DisturbanceOK ==
  ASSUME Shown!BoardAssumption, Shown!IInv, Shown!Disturbance PROVE v6' \in 0..MaxDisturbances
  BY ShownInvIs DEF Shown!Disturbance, Surroundings, Shown!BoardAssumption

\* A field of an item is set.
LEMMA SetsOK ==
  ASSUME Shown!IInv, NEW t \in DOMAIN v3, NEW f \in Shown!Fields, NEW value \in Shown!Options,
         NEW person, Shown!Sets(t, f, value, person)
  PROVE  /\ DOMAIN v3' = DOMAIN v3 /\ v3' \in [ DOMAIN v3' -> Shown!Showing ]
         /\ v3'[t] = [ v3[t] EXCEPT ![f] = value ]
         /\ v3'[t][f] = value
         /\ \A u \in DOMAIN v3 : u # t => v3'[u] = v3[u]
         /\ v5' \subseteq Tasks
<1>1. v3 \in [ DOMAIN v3 -> Shown!Showing ] /\ DOMAIN v3 \subseteq Tasks /\ v5 \subseteq Tasks
  BY ShownInvIs DEF Surroundings
<1>2. v3' = [ v3 EXCEPT ![t][f] = value ] /\ v5' = Shown!Heard(t, f, value, person)
  BY DEF Shown!Sets
<1>3. v5' \subseteq Tasks
  BY <1>1, <1>2 DEF Shown!Heard
<1>4. v3[t] \in [ Shown!Fields -> Shown!Options \cup {"none"} ]
  BY <1>1 DEF Shown!Showing
<1> DEFINE x == [ v3[t] EXCEPT ![f] = value ]
<1>5. x \in Shown!Showing /\ x[f] = value
  BY <1>4 DEF Shown!Showing
<1>6. v3' = [ v3 EXCEPT ![t] = x ]
  BY <1>2
<1> HIDE DEF x
<1>7. DOMAIN v3' = DOMAIN v3 /\ v3'[t] = x /\ \A u \in DOMAIN v3 : u # t => v3'[u] = v3[u]
  BY <1>1, <1>6
<1>8. v3' \in [ DOMAIN v3' -> Shown!Showing ]
  BY <1>1, <1>5, <1>6
<1> QED
  BY <1>3, <1>5, <1>7, <1>8 DEF x

LEMMA ShownOthersStep ==
  ASSUME Shown!BoardAssumption, Shown!IInv,
         \E t \in Tasks : Shown!RowChanges(t) \/ Shown!PersonSets(t) \/ Shown!PersonRemoves(t)
  PROVE  Shown!IInv'
<1> PICK t \in Tasks : Shown!RowChanges(t) \/ Shown!PersonSets(t) \/ Shown!PersonRemoves(t)
  OBVIOUS
<1>1. Surroundings
  BY ShownInvIs
<1>2. CASE Shown!RowChanges(t)
  <2>1. PICK x \in BoardRows : v1' = [ v1 EXCEPT ![t] = x ]
    BY <1>2 DEF Shown!RowChanges
  <2>2. v1' \in [ Tasks -> Shown!TaskRows ]
    BY <1>1, <2>1 DEF Surroundings, Shown!BoardAssumption
  <2>3. v4' = Shown!Unsettled(Requests) /\ UNCHANGED << v2, v3, v5 >> /\ Shown!Disturbance
    BY <1>2 DEF Shown!RowChanges
  <2>4. Surroundings'
    BY <1>1, <2>2, <2>3, DisturbanceOK DEF Surroundings
  <2> QED
    BY <2>3, <2>4, AllUnsettled
<1>3. CASE Shown!PersonSets(t)
  <2>1. PICK f \in v2.fields : \E x \in v2.options[f] : Shown!Sets(t, f, x, TRUE)
    BY <1>3 DEF Shown!PersonSets
  <2>2. PICK x \in v2.options[f] : Shown!Sets(t, f, x, TRUE)
    BY <2>1
  <2>3. f \in Shown!Fields /\ x \in Shown!Options
    BY <1>1 DEF Surroundings, Shown!ProjectSetups
  <2>4. v4' = Shown!Unsettled(Requests) /\ UNCHANGED << v1, v2 >> /\ Shown!Disturbance
          /\ t \in DOMAIN v3
    BY <1>3 DEF Shown!PersonSets
  <2>5. DOMAIN v3' = DOMAIN v3 /\ v3' \in [ DOMAIN v3' -> Shown!Showing ] /\ v5' \subseteq Tasks
    BY <2>2, <2>3, <2>4, SetsOK
  <2>6. Surroundings'
    BY <1>1, <2>4, <2>5, DisturbanceOK DEF Surroundings
  <2> QED
    BY <2>4, <2>6, AllUnsettled
<1>4. CASE Shown!PersonRemoves(t)
  <2>1. v3' = [ u \in DOMAIN v3 \ {t} |-> v3[u] ] /\ v4' = Shown!Unsettled(Requests)
        /\ UNCHANGED << v1, v2, v5 >> /\ Shown!Disturbance
    BY <1>4 DEF Shown!PersonRemoves
  <2>2. DOMAIN v3' \subseteq Tasks /\ v3' \in [ DOMAIN v3' -> Shown!Showing ]
    BY <1>1, <2>1 DEF Surroundings
  <2>3. Surroundings'
    BY <1>1, <2>1, <2>2, DisturbanceOK DEF Surroundings
  <2> QED
    BY <2>1, <2>3, AllUnsettled
<1> QED
  BY <1>2, <1>3, <1>4

-----------------------------------------------------------------------------
(* The steps of a request *)

\* A request moves, and nothing else.
LEMMA QuietStep ==
  ASSUME Shown!BoardAssumption, Shown!IInv, NEW s \in Requests, NEW c, ShownFits(c, v1, v2, v3),
         v4' = [ v4 EXCEPT ![s] = c ], UNCHANGED << v1, v2, v3, v5 >>,
         v6' \in 0..MaxDisturbances
  PROVE  Shown!IInv'
<1>1. Surroundings /\ v4 \in [ Requests -> Forced ] /\ c \in Forced
  BY ShownInvIs DEF ShownFits
<1>2. v4' \in [ Requests -> Forced ] /\ v4'[s] = c /\ \A q \in Requests \ {s} : v4'[q] = v4[q]
  BY <1>1
<1>3. Surroundings'
  BY <1>1 DEF Surroundings
<1> QED
  BY <1>2, <1>3, OneMoves

LEMMA Asked ==
  ASSUME Shown!BoardAssumption, Shown!IInv, NEW s \in Requests
  PROVE  /\ Surroundings /\ v4 \in [ Requests -> Forced ] /\ v4[s] \in Forced
         /\ ShownFits(v4[s], v1, v2, v3) /\ FieldsOK(v4[s])
         /\ v6 \in 0..MaxDisturbances
  BY ShownInvIs DEF ShownFits, Surroundings

LEMMA ShownListsStep ==
  ASSUME Shown!BoardAssumption, Shown!IInv, NEW s \in Requests, Shown!Lists(s) PROVE Shown!IInv'
<1> DEFINE yes == TRUE
<1>1. yes \in BOOLEAN /\ yes
  OBVIOUS
<1> DEFINE c == [ Shown!Idle EXCEPT !.at = "find", !.rows = v1, !.calm = yes, !.left = Shown!ActiveTasks ]
<1>2. v4' = [ v4 EXCEPT ![s] = c ] /\ UNCHANGED << v1, v2, v3, v5, v6 >>
  BY DEF Shown!Lists
<1> HIDE DEF yes
<1>3. Shown!ActiveTasks \subseteq Tasks /\ v1 \in [ Tasks -> Shown!TaskRows ]
        /\ Shown!ActiveTasks = ActiveIn(v1)
  BY Asked DEF Shown!ActiveTasks, ActiveIn, Surroundings
<1>4. /\ c \in Forced /\ c.at = "find" /\ c.rows = v1 /\ c.calm = yes
      /\ c.left = Shown!ActiveTasks /\ c.todo = Shown!Idle.todo
  BY <1>1, <1>3, IdleFits DEF Forced
<1>5. c.todo = << >>
  BY <1>4 DEF Shown!Idle
<1> HIDE DEF c
<1>6. ShownFits(c, v1, v2, v3)
  BY <1>3, <1>4, <1>5 DEF ShownFits, FieldsOK, CurrentIn
<1> QED
  BY <1>2, <1>6, Asked, QuietStep

LEMMA FindsStep ==
  ASSUME Shown!BoardAssumption, Shown!IInv, NEW s \in Requests, Shown!Finds(s) PROVE Shown!IInv'
<1> DEFINE c == [ v4[s] EXCEPT !.at = "cost", !.cached = v2 ]
<1>1. Surroundings /\ v4 \in [ Requests -> Forced ] /\ v4[s] \in Forced /\ v4[s].at = "find"
      /\ ShownFits(v4[s], v1, v2, v3)
  BY Asked DEF Shown!Finds
<1>2. v4' = [ v4 EXCEPT ![s] = c ] /\ UNCHANGED << v1, v2, v3, v5, v6 >>
  BY <1>1 DEF Shown!Finds
<1>3. /\ c \in Forced /\ c.at = "cost" /\ c.rows = v4[s].rows /\ (c.calm <=> v4[s].calm)
      /\ c.left = v4[s].left /\ c.todo = v4[s].todo /\ c.cached = v2
      /\ (c.failed <=> v4[s].failed)
  BY <1>1 DEF Forced, Surroundings
<1> HIDE DEF c
<1>4. ShownFits(c, v1, v2, v3)
  BY <1>1, <1>3 DEF ShownFits, FieldsOK, CurrentIn
<1> QED
  BY <1>2, <1>4, Asked, QuietStep

LEMMA EnsuresStep ==
  ASSUME Shown!BoardAssumption, Shown!IInv, NEW s \in Requests, NEW step, NEW field, NEW next,
         NEW options \in SUBSET Shown!Options,
         \/ step = "cost" /\ field = "Cost" /\ next = "complexity"
         \/ step = "complexity" /\ field = "Complexity" /\ next = "walk",
         Shown!Ensures(s, step, field, options, next)
  PROVE  Shown!IInv'
<1>1. /\ Surroundings /\ v4 \in [ Requests -> Forced ] /\ v4[s] \in Forced /\ v4[s].at = step
      /\ ShownFits(v4[s], v1, v2, v3) /\ FieldsOK(v4[s])
      /\ UNCHANGED << v1, v3, v5, v6 >> /\ v6 \in 0..MaxDisturbances
      /\ step # "idle" /\ step # "find" /\ next # "idle" /\ next # "find" /\ next # "set"
      /\ next \in { "complexity", "walk" } /\ field \in Shown!Fields
  BY Asked DEF Shown!Ensures, Shown!Fields
<1>2. CASE field \in v4[s].cached.fields
  <2> DEFINE c == [ v4[s] EXCEPT !.at = next ]
  <2>1. v4' = [ v4 EXCEPT ![s] = c ] /\ UNCHANGED v2
    BY <1>1, <1>2 DEF Shown!Ensures
  <2>2. /\ c \in Forced /\ c.at = next /\ c.rows = v4[s].rows /\ (c.calm <=> v4[s].calm)
        /\ c.left = v4[s].left /\ c.todo = v4[s].todo /\ c.cached = v4[s].cached
        /\ (c.failed <=> v4[s].failed) /\ c.task = v4[s].task
    BY <1>1 DEF Forced
  <2> HIDE DEF c
  <2>3. ShownFits(c, v1, v2, v3)
    BY <1>1, <1>2, <2>2 DEF ShownFits, FieldsOK, CurrentIn
  <2> QED
    BY <1>1, <2>1, <2>3, QuietStep
<1>3. CASE field \notin v4[s].cached.fields /\ field \in v2.fields
  <2>1. v4' = [ v4 EXCEPT ![s] = Shown!Idle ] /\ UNCHANGED v2
    BY <1>3 DEF Shown!Ensures
  <2> QED
    BY <1>1, <2>1, IdleFits, QuietStep
<1>4. CASE field \notin v4[s].cached.fields /\ field \notin v2.fields
  <2> DEFINE others == Shown!Unsettled(Requests \ {s})
             c == [ v4[s] EXCEPT !.at = next, !.cached = Shown!Cached(v4[s].cached, field, options) ]
  <2>1. /\ v2' = Shown!Cached(v2, field, options)
        /\ v4' = [ others EXCEPT ![s].at = next, ![s].cached = Shown!Cached(@, field, options) ]
    BY <1>4 DEF Shown!Ensures
  <2>2. /\ others \in [ Requests -> Forced ] /\ others[s] = v4[s]
        /\ \A q \in Requests \ {s} : others[q] = [ v4[q] EXCEPT !.calm = FALSE ]
    BY <1>1, OthersAre
  <2>3. v4' = [ others EXCEPT ![s] = c ]
    BY <2>1, <2>2
  <2>4. \A x \in Shown!ProjectSetups :
          /\ Shown!Cached(x, field, options) \in Shown!ProjectSetups
          /\ Shown!Cached(x, field, options).fields = x.fields \cup {field}
    BY <1>1 DEF Shown!Cached, Shown!ProjectSetups
  <2>5. /\ c \in Forced /\ c.at = next /\ c.rows = v4[s].rows /\ (c.calm <=> v4[s].calm)
        /\ c.left = v4[s].left /\ c.todo = v4[s].todo
        /\ c.cached = Shown!Cached(v4[s].cached, field, options)
        /\ (c.failed <=> v4[s].failed) /\ c.task = v4[s].task
    BY <1>1, <2>4 DEF Forced
  <2> HIDE DEF c, others
  <2>6. c.cached.fields = v4[s].cached.fields \cup {field}
        /\ v2' \in Shown!ProjectSetups /\ v2'.fields = v2.fields \cup {field}
    BY <1>1, <2>1, <2>4, <2>5 DEF Forced, Surroundings
  <2>7. FieldsOK(c)
    BY <1>1, <2>5, <2>6 DEF FieldsOK
  <2>8. ASSUME c.calm PROVE CurrentIn(c, v1, v2', v3)
    <3>1. CurrentIn(v4[s], v1, v2, v3)
      BY <1>1, <2>5, <2>8 DEF ShownFits
    <3>2. c.cached = v2'
      BY <1>1, <2>1, <2>5, <3>1 DEF CurrentIn
    <3>3. \A t : ShowsIn(t, v1, v2, v3) => ShowsIn(t, v1, v2', v3)
      BY <1>1, <2>6 DEF ShowsIn
    <3> QED
      BY <1>1, <2>5, <3>1, <3>2, <3>3 DEF CurrentIn
  <2>9. ShownFits(c, v1, v2', v3)
    BY <2>5, <2>7, <2>8 DEF ShownFits
  <2>10. v4' \in [ Requests -> Forced ] /\ v4'[s] = c
         /\ \A q \in Requests \ {s} : v4'[q] = [ v4[q] EXCEPT !.calm = FALSE ]
    BY <2>2, <2>3, <2>5
  <2>11. Surroundings'
    BY <1>1, <2>6 DEF Surroundings
  <2> QED
    BY <1>1, <2>9, <2>10, <2>11, OneMoves
<1> QED
  BY <1>2, <1>3, <1>4

LEMMA EnsuresSteps ==
  ASSUME Shown!BoardAssumption, Shown!IInv, NEW s \in Requests,
         Shown!EnsuresCost(s) \/ Shown!EnsuresComplexity(s)
  PROVE  Shown!IInv'
<1>1. Shown!ValuesOf(Shown!ComplexityMapping) \in SUBSET Shown!Options
        /\ {} \in SUBSET Shown!Options
  BY DEF Shown!Options
<1>2. CASE Shown!EnsuresCost(s)
  BY <1>1, <1>2, EnsuresStep DEF Shown!EnsuresCost
<1>3. CASE Shown!EnsuresComplexity(s)
  BY <1>1, <1>3, EnsuresStep DEF Shown!EnsuresComplexity
<1> QED
  BY <1>2, <1>3

\* Of the fields the tier alone is pushed, where it maps to something.
LEMMA PushedIs ==
  ASSUME NEW w \in [ Tasks -> Shown!TaskRows ], NEW t \in Tasks, NEW p \in Shown!ProjectSetups
  PROVE  LET pair == << "Automation Tier", Tier(w, t) >> IN
         /\ Shown!Pushed(w[t], p) = IF Tier(w, t) # "none" /\ "Automation Tier" \in p.fields
                                THEN << pair >> ELSE << >>
         /\ Tier(w, t) # "none" => Tier(w, t) \in Shown!Options
         /\ Shown!Pushed(w[t], p) \in Seq(Shown!Fields \X Shown!Options)
<1> DEFINE pair == << "Automation Tier", Tier(w, t) >>
           rest == Shown!Push("Automation Tier", Tier(w, t), p)
<1>1. w[t].status \in { "received", "published" }
        /\ w[t].tier \in DOMAIN Shown!TierMapping \cup {"none"}
  BY DEF Shown!TaskRows
<1>2. w[t].status \notin DOMAIN Shown!StatusMapping
  BY <1>1 DEF Shown!StatusMapping
<1>3. Shown!Push("Status", Shown!Mapped(Shown!StatusMapping, w[t].status), p) = << >>
  BY <1>2 DEF Shown!Push, Shown!Mapped
<1>4. Tier(w, t) # "none" => Tier(w, t) \in Shown!Options
  BY <1>1 DEF Tier, Shown!Mapped, Shown!Options, Shown!ValuesOf
<1>5. rest = IF Tier(w, t) # "none" /\ "Automation Tier" \in p.fields THEN << pair >> ELSE << >>
  BY DEF Shown!Push
<1>6. rest \in Seq(Shown!Fields \X Shown!Options)
  <2> DEFINE S == Shown!Fields \X Shown!Options
  <2>1. Tier(w, t) # "none" => pair \in S
    BY <1>4 DEF Shown!Fields
  <2> HIDE DEF S, pair, rest
  <2>2. pair \in S => << pair >> \in Seq(S)
    OBVIOUS
  <2>3. << >> \in Seq(S)
    OBVIOUS
  <2>4. rest \in Seq(S)
    BY <1>5, <2>1, <2>2, <2>3
  <2> QED
    BY <2>4 DEF S
<1>7. Shown!Pushed(w[t], p) = << >> \o rest
  BY <1>3 DEF Shown!Pushed, Tier
<1> HIDE DEF rest, pair
<1>8. << >> \o rest = rest
  BY <1>6, ConcatEmptySeq
<1> QED
  BY <1>4, <1>5, <1>6, <1>7, <1>8 DEF pair

LEMMA AddsStep ==
  ASSUME Shown!BoardAssumption, Shown!IInv, NEW s \in Requests, Shown!Adds(s) PROVE Shown!IInv'
<1>1. /\ Surroundings /\ v4 \in [ Requests -> Forced ] /\ v4[s] \in Forced /\ v4[s].at = "walk"
      /\ ShownFits(v4[s], v1, v2, v3) /\ FieldsOK(v4[s])
      /\ UNCHANGED << v1, v2, v5, v6 >> /\ v6 \in 0..MaxDisturbances
  BY Asked DEF Shown!Adds
<1>2. PICK t \in v4[s].left :
        /\ v3' = [ u \in DOMAIN v3 \cup {t} |-> IF u \in DOMAIN v3 THEN v3[u] ELSE Shown!Blank ]
        /\ v4' = [ Shown!Unsettled(IF t \in DOMAIN v3 THEN {} ELSE Requests \ {s}) EXCEPT
                       ![s].at = "set", ![s].task = t, ![s].left = @ \ {t},
                       ![s].todo = Shown!Pushed(v4[s].rows[t], v4[s].cached) ]
  BY DEF Shown!Adds
<1> DEFINE others == Shown!Unsettled(IF t \in DOMAIN v3 THEN {} ELSE Requests \ {s})
           todo == Shown!Pushed(v4[s].rows[t], v4[s].cached)
           c == [ v4[s] EXCEPT !.at = "set", !.task = t, !.left = @ \ {t}, !.todo = todo ]
<1>3. /\ others \in [ Requests -> Forced ] /\ others[s] = v4[s]
      /\ \A q \in Requests \ {s} : others[q] = IF t \in DOMAIN v3 THEN v4[q]
                                            ELSE [ v4[q] EXCEPT !.calm = FALSE ]
  BY <1>1, OthersAre
<1>4. v4' = [ others EXCEPT ![s] = c ]
  BY <1>2, <1>3
<1>5. t \in Tasks /\ v4[s].rows \in [ Tasks -> Shown!TaskRows ]
        /\ v4[s].cached \in Shown!ProjectSetups
  BY <1>1, <1>2 DEF Forced, FieldsOK
<1> DEFINE rows == v4[s].rows  tier == Tier(rows, t)
<1>6. /\ todo = IF tier # "none" /\ "Automation Tier" \in v4[s].cached.fields
                  THEN << << "Automation Tier", tier >> >> ELSE << >>
      /\ todo \in Seq(Shown!Fields \X Shown!Options)
  BY <1>5, PushedIs
<1> HIDE DEF todo, others
<1>7. /\ c \in Forced /\ c.at = "set" /\ c.rows = rows /\ (c.calm <=> v4[s].calm)
      /\ c.left = v4[s].left \ {t} /\ c.todo = todo /\ c.cached = v4[s].cached
      /\ (c.failed <=> v4[s].failed) /\ c.task = t
  BY <1>1, <1>5, <1>6 DEF Forced
<1> HIDE DEF c
<1>8. Shown!TierPush(c) = << << "Automation Tier", tier >> >>
  BY <1>7 DEF Shown!TierPush, Tier
<1>9. FieldsOK(c)
  BY <1>1, <1>5, <1>6, <1>7, <1>8 DEF FieldsOK
<1>10. /\ DOMAIN v3' = DOMAIN v3 \cup {t} /\ \A u \in DOMAIN v3 : v3'[u] = v3[u]
       /\ v3' \in [ DOMAIN v3' -> Shown!Showing ]
  <2>1. Shown!Blank \in Shown!Showing
    BY DEF Shown!Blank, Shown!Showing
  <2> QED
    BY <1>1, <1>2, <2>1 DEF Surroundings
<1>11. ASSUME c.calm PROVE CurrentIn(c, v1, v2, v3')
  <2>1. CurrentIn(v4[s], v1, v2, v3)
    BY <1>1, <1>7, <1>11 DEF ShownFits
  <2>2. rows = v1 /\ v4[s].cached = v2
    BY <1>1, <2>1 DEF CurrentIn
  <2>3. ASSUME ~c.failed, NEW u \in ActiveIn(v1) \ c.left
        PROVE  ShowsIn(u, v1, v2, v3') \/ (c.task = u /\ c.todo # << >>)
    <3>1. CASE u = t
      <4> DEFINE pushes == << << "Automation Tier", tier >> >>
      <4>1. pushes # << >>
        OBVIOUS
      <4>2. c.todo = IF tier # "none" /\ "Automation Tier" \in v2.fields
                       THEN pushes ELSE << >>
        BY <1>6, <1>7, <2>2
      <4> HIDE DEF pushes
      <4>3. c.todo # << >> \/ tier = "none" \/ "Automation Tier" \notin v2.fields
        BY <4>1, <4>2
      <4>4. tier = Tier(v1, t) /\ c.task = t /\ t \in DOMAIN v3'
        BY <1>7, <1>10, <2>2
      <4> QED
        BY <3>1, <4>3, <4>4 DEF ShowsIn
    <3>2. CASE u # t
      <4>1. u \in ActiveIn(v1) \ v4[s].left /\ ~v4[s].failed
        BY <1>7, <2>3, <3>2
      <4>2. ShowsIn(u, v1, v2, v3)
        BY <1>1, <2>1, <4>1 DEF CurrentIn
      <4> QED
        BY <1>10, <4>2 DEF ShowsIn
    <3> QED
      BY <3>1, <3>2
  <2> QED
    BY <1>7, <2>2, <2>3 DEF CurrentIn
<1>12. ShownFits(c, v1, v2, v3')
  BY <1>7, <1>9, <1>11 DEF ShownFits
<1>13. v4' \in [ Requests -> Forced ] /\ v4'[s] = c
         /\ \A q \in Requests \ {s} : v4'[q] = others[q]
  BY <1>3, <1>4, <1>7
<1>14. Surroundings'
  BY <1>1, <1>5, <1>10 DEF Surroundings
<1>15. ASSUME NEW q \in Requests \ {s}
       PROVE  \/ v4'[q] = [ v4[q] EXCEPT !.calm = FALSE ]
              \/ /\ v4'[q] = v4[q] /\ UNCHANGED v2
                 /\ \A u \in DOMAIN v3 : u \in DOMAIN v3' /\ v3'[u] = v3[u]
  BY <1>1, <1>3, <1>10, <1>13
<1> QED
  BY <1>1, <1>12, <1>13, <1>14, <1>15, OneMoves

\* A task's turn is over: everything was set, or the request has failed.
LEMMA NextTaskStep ==
  ASSUME Shown!BoardAssumption, Shown!IInv, NEW s \in Requests, NEW errors \in BOOLEAN,
         Shown!NextTask(s, errors),
         v4[s].at = "set", errors \/ v4[s].todo = << >>,
         UNCHANGED << v1, v2, v3, v5 >>, v6' \in 0..MaxDisturbances
  PROVE  Shown!IInv'
<1>1. /\ v4 \in [ Requests -> Forced ] /\ v4[s] \in Forced
      /\ ShownFits(v4[s], v1, v2, v3) /\ FieldsOK(v4[s])
  BY Asked
<1> DEFINE failed == v4[s].failed \/ errors
           c == [ v4[s] EXCEPT !.at = "walk", !.task = "none", !.todo = << >>, !.failed = failed ]
<1>2. v4' = [ v4 EXCEPT ![s] = c ]
  BY <1>1 DEF Shown!NextTask
<1>3. failed \in BOOLEAN /\ (failed <=> v4[s].failed \/ errors)
  OBVIOUS
<1> HIDE DEF failed
<1>4. << >> \in Seq(Shown!Fields \X Shown!Options)
  OBVIOUS
<1>5. /\ c \in Forced /\ c.at = "walk" /\ c.rows = v4[s].rows /\ (c.calm <=> v4[s].calm)
      /\ c.left = v4[s].left /\ c.todo = << >> /\ c.cached = v4[s].cached
      /\ (c.failed <=> failed)
  BY <1>1, <1>3, <1>4 DEF Forced
<1> HIDE DEF c
<1>6. ShownFits(c, v1, v2, v3)
  BY <1>1, <1>3, <1>5 DEF ShownFits, FieldsOK, CurrentIn
<1> QED
  BY <1>2, <1>6, QuietStep

\* The tier is set on the item of the task.
LEMMA SetStep ==
  ASSUME Shown!BoardAssumption, Shown!IInv, NEW s \in Requests, Shown!Pushes(s),
         v4[s].todo # << >>,
         v4[s].task \in DOMAIN v3,
         Head(v4[s].todo)[2] \in v4[s].cached.options[Head(v4[s].todo)[1]]
  PROVE  Shown!IInv'
<1>1. /\ Surroundings /\ v4 \in [ Requests -> Forced ] /\ v4[s] \in Forced /\ v4[s].at = "set"
      /\ ShownFits(v4[s], v1, v2, v3) /\ FieldsOK(v4[s])
      /\ UNCHANGED << v1, v2, v6 >> /\ v6 \in 0..MaxDisturbances
  BY Asked DEF Shown!Pushes
<1> DEFINE t == v4[s].task
           tier == Tier(v4[s].rows, t)
           others == Shown!Unsettled(Requests \ {s})
           c == [ v4[s] EXCEPT !.todo = << >> ]
<1>2. t \in Tasks /\ v4[s].todo = << << "Automation Tier", tier >> >>
      /\ v4[s].cached \in Shown!ProjectSetups /\ "Automation Tier" \in Shown!Fields
  BY <1>1 DEF FieldsOK, Shown!TierPush, Tier, Forced, Shown!Fields
<1>3. Head(v4[s].todo)[1] = "Automation Tier" /\ Head(v4[s].todo)[2] = tier
      /\ Tail(v4[s].todo) = << >>
  <2> DEFINE push == << "Automation Tier", tier >>
  <2>1. push[1] = "Automation Tier" /\ push[2] = tier /\ v4[s].todo = << push >>
    BY <1>2
  <2> HIDE DEF push
  <2>2. Head(<< push >>) = push /\ Tail(<< push >>) = << >>
    OBVIOUS
  <2> QED
    BY <2>1, <2>2
<1>4. tier \in Shown!Options
  BY <1>2, <1>3 DEF Shown!ProjectSetups
<1>5. /\ Shown!Sets(t, "Automation Tier", tier, FALSE)
      /\ v4' = [ others EXCEPT ![s].todo = Tail(@) ]
  BY <1>3 DEF Shown!Pushes
<1>6. /\ others \in [ Requests -> Forced ] /\ others[s] = v4[s]
      /\ \A q \in Requests \ {s} : others[q] = [ v4[q] EXCEPT !.calm = FALSE ]
  BY <1>1, OthersAre
<1>7. v4' = [ others EXCEPT ![s] = c ]
  BY <1>3, <1>5, <1>6
<1> HIDE DEF others
<1>8. << >> \in Seq(Shown!Fields \X Shown!Options)
  OBVIOUS
<1>9. /\ c \in Forced /\ c.at = "set" /\ c.rows = v4[s].rows /\ (c.calm <=> v4[s].calm)
      /\ c.left = v4[s].left /\ c.todo = << >> /\ c.cached = v4[s].cached
      /\ (c.failed <=> v4[s].failed) /\ c.task = t
  BY <1>1, <1>8 DEF Forced
<1> HIDE DEF c
<1>10. /\ DOMAIN v3' = DOMAIN v3 /\ v3' \in [ DOMAIN v3' -> Shown!Showing ]
       /\ v3'[t]["Automation Tier"] = tier
       /\ \A u \in DOMAIN v3 : u # t => v3'[u] = v3[u]
       /\ v5' \subseteq Tasks
  <2> HIDE DEF t, tier
  <2> DEFINE no == FALSE
  <2>1. t \in DOMAIN v3 /\ Shown!Sets(t, "Automation Tier", tier, no)
    BY <1>5 DEF t
  <2> HIDE DEF no
  <2> QED
    BY <1>2, <1>4, <2>1, SetsOK
<1>11. ASSUME c.calm PROVE CurrentIn(c, v1, v2, v3')
  <2>1. CurrentIn(v4[s], v1, v2, v3)
    BY <1>1, <1>9, <1>11 DEF ShownFits
  <2>2. v4[s].rows = v1 /\ v4[s].cached = v2
    BY <1>1, <2>1 DEF CurrentIn
  <2>3. ASSUME ~c.failed, NEW u \in ActiveIn(v1) \ c.left PROVE ShowsIn(u, v1, v2, v3')
    <3>1. CASE u = t
      BY <1>10, <2>2, <3>1 DEF ShowsIn
    <3>2. CASE u # t
      <4>1. ShowsIn(u, v1, v2, v3)
        BY <1>9, <2>1, <2>3, <3>2 DEF CurrentIn
      <4> QED
        BY <1>10, <3>2, <4>1 DEF ShowsIn
    <3> QED
      BY <3>1, <3>2
  <2> QED
    BY <1>9, <2>2, <2>3 DEF CurrentIn
<1>12. FieldsOK(c)
  BY <1>1, <1>9 DEF FieldsOK
<1>13. ShownFits(c, v1, v2, v3')
  BY <1>9, <1>11, <1>12 DEF ShownFits
<1>14. /\ v4' \in [ Requests -> Forced ] /\ v4'[s] = c
       /\ \A q \in Requests \ {s} : v4'[q] = [ v4[q] EXCEPT !.calm = FALSE ]
  BY <1>6, <1>7, <1>9
<1>15. Surroundings'
  BY <1>1, <1>10 DEF Surroundings
<1> QED
  BY <1>1, <1>13, <1>14, <1>15, OneMoves

LEMMA PushesStep ==
  ASSUME Shown!BoardAssumption, Shown!IInv, NEW s \in Requests, Shown!Pushes(s)
  PROVE  Shown!IInv'
<1>1. v4[s].at = "set" /\ UNCHANGED << v1, v2, v6 >>
      /\ v6 \in 0..MaxDisturbances
  BY Asked DEF Shown!Pushes
<1>2. CASE v4[s].todo = << >>
  <2>1. Shown!NextTask(s, FALSE) /\ UNCHANGED << v3, v5 >>
    BY <1>2 DEF Shown!Pushes
  <2> QED
    BY <1>1, <1>2, <2>1, NextTaskStep
<1>3. CASE /\ v4[s].todo # << >> /\ v4[s].task \in DOMAIN v3
           /\ Head(v4[s].todo)[2] \in v4[s].cached.options[Head(v4[s].todo)[1]]
  BY <1>3, SetStep
<1>4. CASE /\ v4[s].todo # << >>
           /\ ~(/\ v4[s].task \in DOMAIN v3
                /\ Head(v4[s].todo)[2] \in v4[s].cached.options[Head(v4[s].todo)[1]])
  <2>1. Shown!NextTask(s, TRUE) /\ UNCHANGED << v3, v5 >>
    BY <1>4 DEF Shown!Pushes
  <2> QED
    BY <1>1, <2>1, NextTaskStep
<1> QED
  BY <1>2, <1>3, <1>4

LEMMA ShownEndsStep ==
  ASSUME Shown!BoardAssumption, Shown!IInv, NEW s \in Requests,
         Shown!CallFails(s) \/ Shown!Answers(s) PROVE Shown!IInv'
<1>1. /\ Surroundings /\ v4 \in [ Requests -> Forced ] /\ v4[s] \in Forced
      /\ ShownFits(v4[s], v1, v2, v3) /\ FieldsOK(v4[s])
      /\ v6 \in 0..MaxDisturbances
  BY Asked
<1>2. UNCHANGED << v1, v2, v3, v5 >> /\ v6' \in 0..MaxDisturbances
  BY <1>1, DisturbanceOK DEF Shown!CallFails, Shown!Answers
<1>3. CASE v4' = [ v4 EXCEPT ![s] = Shown!Idle ]
  BY <1>2, <1>3, IdleFits, QuietStep
<1>4. ASSUME v4[s].at = "walk", NEW t \in v4[s].left,
             v4' = [ v4 EXCEPT ![s].left = @ \ {t}, ![s].failed = TRUE ]
      PROVE  Shown!IInv'
  <2> DEFINE yes == TRUE
             c == [ v4[s] EXCEPT !.left = @ \ {t}, !.failed = yes ]
  <2>1. v4' = [ v4 EXCEPT ![s] = c ]
    BY <1>1, <1>4
  <2>2. yes \in BOOLEAN /\ yes
    OBVIOUS
  <2> HIDE DEF yes
  <2>3. /\ c \in Forced /\ c.at = "walk" /\ c.rows = v4[s].rows /\ (c.calm <=> v4[s].calm)
        /\ c.todo = v4[s].todo /\ c.cached = v4[s].cached /\ c.failed = yes
    BY <1>1, <1>4, <2>2 DEF Forced
  <2> HIDE DEF c
  <2>4. ShownFits(c, v1, v2, v3)
    BY <1>1, <1>4, <2>2, <2>3 DEF ShownFits, FieldsOK, CurrentIn
  <2> QED
    BY <1>2, <2>1, <2>4, QuietStep
<1>5. CASE v4[s].at = "set" /\ Shown!NextTask(s, TRUE)
  BY <1>2, <1>5, NextTaskStep
<1> QED
  BY <1>3, <1>4, <1>5 DEF Shown!CallFails, Shown!Answers

LEMMA ShownInvNext ==
  ASSUME Shown!BoardAssumption, Shown!IInv, [Shown!Next]_Shown!vars
  PROVE  Shown!IInv'
<1>1. CASE UNCHANGED Shown!vars
  <2>1. Surroundings' /\ v4' \in [ Requests -> Forced ]
    BY <1>1, ShownInvIs DEF Shown!vars, Surroundings
  <2>2. \A s \in Requests : ShownFits(v4'[s], v1', v2', v3')
    BY <1>1, ShownInvIs DEF Shown!vars
  <2> QED
    BY <2>1, <2>2, ShownInvIsThen
<1> QED
  BY <1>1, ShownOthersStep, ShownListsStep, FindsStep, EnsuresSteps, AddsStep, PushesStep,
     ShownEndsStep
  DEF Shown!Next

\* Who answers has been round, and what it met is what is there.
LEMMA AnsweredShows == ASSUME Shown!IInv PROVE Shown!AnsweredIsShown
<1> SUFFICES ASSUME NEW s \in Requests, Shown!Answers(s), ~v4[s].failed, v4[s].calm
             PROVE  /\ { "Cost", "Complexity" } \subseteq v2.fields
                    /\ \A t \in Shown!ActiveTasks : Shown!Shows(t)
  BY DEF Shown!AnsweredIsShown
<1>1. v4[s].at = "walk" /\ v4[s].left = {}
  BY DEF Shown!Answers
<1>2. Shown!SyncOK(v4[s]) /\ Shown!IsCurrent(v4[s])
  BY DEF Shown!IInv, Shown!SyncOK
<1> QED
  BY <1>1, <1>2 DEF Shown!SyncOK, Shown!IsCurrent

LEMMA ShownSteps ==
  ASSUME focus = "shown", [Next]_v
  PROVE  focus' = "shown" /\ [Shown!Next]_Shown!vars
  BY DEF Next, v, Shown!vars, Kept6

LEMMA ShownInvariant == Spec => [](focus = "shown" => Shown!IInv)
<1> DEFINE Inv == focus = "shown" => Shown!IInv
<1>1. Init => Inv
  BY ShownAssumption, ShownInvInit DEF Init
<1>2. Inv /\ [Next]_v => Inv'
  BY ShownAssumption, ShownInvNext, ShownSteps, FocusIsKept
<1> QED
  BY <1>1, <1>2, PTL DEF Spec

\* src/dashboard/github_router.py: whatever others do and however calls fail, a
\* synchronisation that answers without errors and met nobody has left every active task
\* on the board with its tier.
THEOREM BoardShows == Spec => BoardIsSynced
<1>1. (focus = "shown" => Shown!IInv) /\ [Next]_v => [focus = "shown" => Shown!AnsweredIsShown]_v
  BY AnsweredShows
<1> QED
  BY <1>1, ShownInvariant, PTL DEF Spec, BoardIsSynced

(***************************************************************************)
(* Portfolio: Reviews of the board.  In a calm run the one attempt has     *)
(* stored what it judged before it looks for the open report, which it     *)
(* finds. The variables: v1 board, v2 reviews, v3 attempt, v4 result, v5   *)
(* stored, v6 reports, v7 calm, v8 troubles.                               *)
(***************************************************************************)

\* The instance has its own finite sets and cardinalities, defined as those
\* that the library's theorems are about.
LEMMA ReviewedFinite ==
  /\ \A S : Reviewed!IsFiniteSet(S) = IsFiniteSet(S)
  /\ \A S : Reviewed!Cardinality(S) = Cardinality(S)
<1>1. \A S : Reviewed!IsFiniteSet(S) = IsFiniteSet(S)
  BY DEF Reviewed!IsFiniteSet, IsFiniteSet
<1>2. \A S : Reviewed!Cardinality(S) = Cardinality(S)
  BY DEF Reviewed!Cardinality, Cardinality
<1> QED
  BY <1>1, <1>2

Smaller == { p \in Nat \X Nat : p[1] < p[2] }

\* The numbers up to a bound, if there are any, have a greatest.
LEMMA MaxOf ==
  ASSUME NEW n \in Nat, NEW S, S \subseteq 1..n, S # {}
  PROVE  Reviewed!Max(S) \in S
<1> DEFINE U == { n - t : t \in S }
<1>1. IsWellFoundedOn(Smaller, Nat)
  BY NatLessThanWellFounded DEF Smaller, OpToRel
<1>2. U \subseteq Nat /\ U # {}
  <2>1. \A t \in S : t \in 1..n /\ n - t \in Nat
    OBVIOUS
  <2> QED
    BY <2>1
<1>3. PICK x \in U : \A y \in U : ~(<< y, x >> \in Smaller)
  BY <1>1, <1>2, WFMin
<1>4. PICK t \in S : x = n - t
  OBVIOUS
<1>5. ASSUME NEW s \in S PROVE t >= s
  <2>1. n - s \in U /\ n - s \in Nat /\ x \in Nat
    BY <1>2
  <2>2. ~(n - s < x)
    BY <1>3, <2>1 DEF Smaller
  <2> QED
    BY <1>4, <2>1, <2>2
<1>6. \E u \in S : \A s \in S : u >= s
  BY <1>5
<1> QED
  BY <1>6 DEF Reviewed!Max

Items == UNION Boards
Attempts(n, m) ==
  [ run : 1..n, try : 1..ReviewTries,
    at : { "collect", "review", "persist", "search", "write" },
    seen : SUBSET Items, health : Reviewed!Healths \cup {"none"},
    persisted : BOOLEAN, found : 0..m, current : BOOLEAN ]
Stored(n) == [ run : 1..n, try : 1..ReviewTries, health : Reviewed!Healths ]
Reports(n) == [ run : 1..n, try : 1..ReviewTries, health : Reviewed!Healths, open : BOOLEAN ]

LEMMA ReviewedTypeIs ==
  Reviewed!TypeOK <=>
    /\ v1 \in Boards
    /\ v2 \in 0..MaxReviews
    /\ v3 \subseteq Attempts(v2, Len(v6))
    /\ v4 \in [ persisted : BOOLEAN, posted : BOOLEAN, error : BOOLEAN ]
    /\ v5 \subseteq Stored(v2)
    /\ v6 \in Seq(Reports(v2))
    /\ v7 \in BOOLEAN /\ v8 \in 0..MaxReviewTroubles
  BY DEF Reviewed!TypeOK, Attempts, Items, Stored, Reports

LEMMA ReviewedTypeIsThen ==
  Reviewed!TypeOK' <=>
    /\ v1' \in Boards
    /\ v2' \in 0..MaxReviews
    /\ v3' \subseteq Attempts(v2', Len(v6'))
    /\ v4' \in [ persisted : BOOLEAN, posted : BOOLEAN, error : BOOLEAN ]
    /\ v5' \subseteq Stored(v2')
    /\ v6' \in Seq(Reports(v2'))
    /\ v7' \in BOOLEAN /\ v8' \in 0..MaxReviewTroubles
  BY DEF Reviewed!TypeOK, Attempts, Items, Stored, Reports

LEMMA Grows ==
  ASSUME NEW n \in Nat, NEW m \in Nat, NEW p \in Nat, NEW q \in Nat, n <= p, m <= q
  PROVE  /\ Attempts(n, m) \subseteq Attempts(p, q)
         /\ Stored(n) \subseteq Stored(p)
         /\ Reports(n) \subseteq Reports(p)
<1>1. 1..n \subseteq 1..p /\ 0..m \subseteq 0..q
  OBVIOUS
<1> QED
  BY <1>1 DEF Attempts, Stored, Reports

LEMMA AttemptIs ==
  ASSUME Reviewed!TypeOK, NEW a \in v3
  PROVE  /\ a \in Attempts(v2, Len(v6))
         /\ v2 \in Nat /\ Len(v6) \in Nat
         /\ a.run \in 1..v2 /\ a.try \in 1..ReviewTries
         /\ a.persisted \in BOOLEAN /\ a.current \in BOOLEAN
         /\ a.health \in Reviewed!Healths \cup {"none"} /\ a.found \in 0..Len(v6)
<1>1. a \in Attempts(v2, Len(v6)) /\ v2 \in Nat /\ Len(v6) \in Nat
  BY ReviewedTypeIs DEF Reports
<1> QED
  BY <1>1 DEF Attempts

LEMMA FreshIs ==
  ASSUME NEW n \in Nat, NEW m \in Nat, NEW r \in 1..n, NEW t \in 1..ReviewTries
  PROVE  /\ Reviewed!Attempt(r, t) \in Attempts(n, m)
         /\ Reviewed!Attempt(r, t).at = "collect" /\ Reviewed!Attempt(r, t).current
         /\ Reviewed!Attempt(r, t).run = r
<1>1. 0 \in 0..m /\ "none" \in Reviewed!Healths \cup {"none"} /\ {} \in SUBSET Items
  OBVIOUS
<1> QED
  BY <1>1 DEF Attempts, Reviewed!Attempt

\* The newest open report is found, if there is one.
LEMMA FoundIs ==
  ASSUME Reviewed!TypeOK
  PROVE  /\ Reviewed!Found \in 0..Len(v6)
         /\ IF Reviewed!Found = 0 THEN Reviewed!OpenReports
              = {} ELSE Reviewed!Found \in Reviewed!OpenReports
<1>1. Len(v6) \in Nat /\ Reviewed!OpenReports \subseteq 1..Len(v6)
  BY ReviewedTypeIs DEF Reviewed!OpenReports
<1>2. Reviewed!Found = IF Reviewed!OpenReports = {} THEN 0 ELSE Reviewed!Max(Reviewed!OpenReports)
  BY DEF Reviewed!Found, Reviewed!OpenReports
<1> HIDE DEF Reviewed!OpenReports
<1>3. Reviewed!OpenReports # {} => Reviewed!Max(Reviewed!OpenReports) \in Reviewed!OpenReports
  BY <1>1, MaxOf
<1> QED
  BY <1>1, <1>2, <1>3

LEMMA ReviewedInvInit == ASSUME Reviewed!PortfolioAssumption, Reviewed!Init PROVE Reviewed!IInv
<1>1. Reviewed!OpenReports = {} /\ Reviewed!Awaited = {}
  BY DEF Reviewed!Init, Reviewed!OpenReports, Reviewed!Awaited
<1>2. Reviewed!TypeOK
  <2>1. MaxReviews \in Nat /\ MaxReviewTroubles \in Nat
    BY DEF Reviewed!PortfolioAssumption
  <2>2. 0 \in 0..MaxReviews /\ 0 \in 0..MaxReviewTroubles
    BY <2>1
  <2>3. << >> \in Seq(Reports(0))
    OBVIOUS
  <2>4. Reviewed!NoResult \in [ persisted : BOOLEAN, posted : BOOLEAN, error : BOOLEAN ]
    BY DEF Reviewed!NoResult
  <2> QED
    BY <2>2, <2>3, <2>4, ReviewedTypeIs DEF Reviewed!Init
<1> QED
  BY <1>1, <1>2
  DEF Reviewed!Init, Reviewed!IInv, Reviewed!CalmOK, Reviewed!JudgedOK, Reviewed!NeverTroubled,
      Reviewed!ReviewIsShown

-----------------------------------------------------------------------------
(* Steps that go wrong: all the more is to be shown only of the types *)

LEMMA ReviewedTroubledStep ==
  ASSUME Reviewed!PortfolioAssumption, Reviewed!IInv, Reviewed!Trouble, Reviewed!TypeOK',
         Reviewed!JudgedOK'
  PROVE  Reviewed!IInv'
<1>1. v7' = FALSE /\ v8' # 0
  BY ReviewedTypeIs DEF Reviewed!Trouble, Reviewed!IInv
<1> QED
  BY <1>1 DEF Reviewed!IInv, Reviewed!CalmOK, Reviewed!NeverTroubled, Reviewed!ReviewIsShown

LEMMA TroubleTypes ==
  ASSUME Reviewed!PortfolioAssumption, Reviewed!TypeOK, Reviewed!Trouble
  PROVE  v7' \in BOOLEAN /\ v8' \in 0..MaxReviewTroubles
<1>1. MaxReviewTroubles \in Nat
  BY DEF Reviewed!PortfolioAssumption
<1>2. v8 \in 0..MaxReviewTroubles /\ v8 < MaxReviewTroubles /\ v8' = v8 + 1
  BY ReviewedTypeIs DEF Reviewed!Trouble
<1>3. v8' \in 0..MaxReviewTroubles
  BY <1>1, <1>2
<1>4. v7' \in BOOLEAN
  BY DEF Reviewed!Trouble
<1> QED
  BY <1>3, <1>4

LEMMA PersonClosesStep ==
  ASSUME Reviewed!PortfolioAssumption, Reviewed!IInv, NEW n \in DOMAIN v6,
         Reviewed!PersonCloses(n)
  PROVE  Reviewed!IInv'
<1> DEFINE R == Reports(v2)
<1>1. v6 \in Seq(R) /\ Reviewed!TypeOK /\ n \in 1..Len(v6)
  BY ReviewedTypeIs DEF Reviewed!IInv
<1>2. [ v6[n] EXCEPT !.open = FALSE ] \in R
  <2>1. v6[n] \in Reports(v2)
    BY <1>1
  <2> QED
    BY <2>1 DEF Reports
<1>3. v6' = [ v6 EXCEPT ![n] = [ v6[n] EXCEPT !.open = FALSE ] ]
  BY DEF Reviewed!PersonCloses
<1> HIDE DEF R
<1>4. v6' \in Seq(R) /\ Len(v6') = Len(v6)
  BY <1>1, <1>2, <1>3
<1>5. Reviewed!TypeOK'
  BY <1>1, <1>4, ReviewedTypeIs, ReviewedTypeIsThen, TroubleTypes DEF Reviewed!PersonCloses, R
<1>6. Reviewed!JudgedOK'
  BY DEF Reviewed!JudgedOK, Reviewed!IInv, Reviewed!PersonCloses
<1> QED
  BY <1>5, <1>6, ReviewedTroubledStep DEF Reviewed!PersonCloses

LEMMA PersistFailsStep ==
  ASSUME Reviewed!PortfolioAssumption, Reviewed!IInv, NEW a \in v3, Reviewed!PersistFails(a)
  PROVE  Reviewed!IInv'
<1> DEFINE b == [ a EXCEPT !.at = "search" ]
<1>1. Reviewed!TypeOK
  BY DEF Reviewed!IInv
<1>2. b \in Attempts(v2, Len(v6)) /\ b.health = a.health
  BY <1>1, AttemptIs DEF Attempts
<1>3. a.health \in Reviewed!Healths
  BY DEF Reviewed!IInv, Reviewed!JudgedOK, Reviewed!PersistFails
<1>4. v3' = (v3 \ {a}) \cup {b} /\ Reviewed!Trouble
      /\ UNCHANGED << v1, v2, v4, v5, v6 >>
  BY DEF Reviewed!PersistFails, Reviewed!Becomes
<1> HIDE DEF b
<1>5. Reviewed!TypeOK'
  BY <1>1, <1>2, <1>4, ReviewedTypeIs, ReviewedTypeIsThen, TroubleTypes
<1>6. Reviewed!JudgedOK'
  BY <1>2, <1>3, <1>4 DEF Reviewed!JudgedOK, Reviewed!IInv
<1> QED
  BY <1>4, <1>5, <1>6, ReviewedTroubledStep

LEMMA RefusedStep ==
  ASSUME Reviewed!PortfolioAssumption, Reviewed!IInv, NEW a \in v3,
         Reviewed!ChangeRefused(a) \/ Reviewed!PostFails(a) \/ Reviewed!ReviewFails(a)
  PROVE  Reviewed!IInv'
<1>1. Reviewed!TypeOK
  BY DEF Reviewed!IInv
<1>2. v4 \in [ persisted : BOOLEAN, posted : BOOLEAN, error : BOOLEAN ] /\ a.persisted \in BOOLEAN
  BY <1>1, ReviewedTypeIs, AttemptIs
<1>3. /\ v3' = v3 \ {a} /\ Reviewed!Trouble
      /\ UNCHANGED << v1, v2, v5, v6 >>
  BY DEF Reviewed!ChangeRefused, Reviewed!PostFails, Reviewed!ReviewFails, Reviewed!Answer
<1>4. v4' \in [ persisted : BOOLEAN, posted : BOOLEAN, error : BOOLEAN ]
  <2>1. ASSUME NEW posted \in BOOLEAN, Reviewed!Answer(a, posted)
        PROVE  v4' \in [ persisted : BOOLEAN, posted : BOOLEAN, error : BOOLEAN ]
    BY <1>2, <2>1 DEF Reviewed!Answer
  <2>2. [ Reviewed!NoResult EXCEPT !.error = TRUE ]
          \in [ persisted : BOOLEAN, posted : BOOLEAN, error : BOOLEAN ]
    BY DEF Reviewed!NoResult
  <2>3. CASE Reviewed!ReviewFails(a)
    BY <1>2, <2>2, <2>3 DEF Reviewed!ReviewFails
  <2>4. CASE Reviewed!ChangeRefused(a)
    BY <2>1, <2>4 DEF Reviewed!ChangeRefused
  <2>5. CASE Reviewed!PostFails(a)
    BY <2>1, <2>5 DEF Reviewed!PostFails
  <2> QED
    BY <2>3, <2>4, <2>5
<1>5. Reviewed!TypeOK'
  BY <1>1, <1>3, <1>4, ReviewedTypeIs, ReviewedTypeIsThen, TroubleTypes
<1>6. Reviewed!JudgedOK'
  BY <1>3 DEF Reviewed!JudgedOK, Reviewed!IInv
<1> QED
  BY <1>3, <1>5, <1>6, ReviewedTroubledStep

LEMMA ReviewedTimesOutStep ==
  ASSUME Reviewed!PortfolioAssumption, Reviewed!IInv, NEW a \in v3, Reviewed!TimesOut(a)
  PROVE  Reviewed!IInv'
<1> DEFINE b == [ a EXCEPT !.current = FALSE ]
           New == { Reviewed!Attempt(a.run, t) : t \in { a.try + 1 } \cap (1..ReviewTries) }
<1>1. Reviewed!TypeOK
  BY DEF Reviewed!IInv
<1>2. b \in Attempts(v2, Len(v6)) /\ b.health = a.health /\ b.at = a.at
  BY <1>1, AttemptIs DEF Attempts
<1>3. \A c \in New : c \in Attempts(v2, Len(v6)) /\ c.at = "collect"
  <2>1. a.run \in 1..v2 /\ v2 \in Nat /\ Len(v6) \in Nat
    BY <1>1, AttemptIs
  <2> QED
    BY <2>1, FreshIs
<1>4. v3' = (v3 \ {a}) \cup {b} \cup New /\ Reviewed!Trouble
      /\ UNCHANGED << v1, v2, v4, v5, v6 >>
  BY DEF Reviewed!TimesOut
<1> HIDE DEF b, New
<1>5. Reviewed!TypeOK'
  BY <1>1, <1>2, <1>3, <1>4, ReviewedTypeIs, ReviewedTypeIsThen, TroubleTypes
<1>6. Reviewed!JudgedOK'
  <2>1. a.at \in { "persist", "search", "write" } => a.health \in Reviewed!Healths
    BY DEF Reviewed!IInv, Reviewed!JudgedOK
  <2> QED
    BY <1>2, <1>3, <1>4, <2>1 DEF Reviewed!JudgedOK, Reviewed!IInv
<1> QED
  BY <1>4, <1>5, <1>6, ReviewedTroubledStep

-----------------------------------------------------------------------------
(* Steps that do not *)

LEMMA BoardChangesStep ==
  ASSUME Reviewed!PortfolioAssumption, Reviewed!IInv, Reviewed!BoardChanges
  PROVE  Reviewed!IInv'
<1>1. UNCHANGED << v2, v3, v4, v5, v6, v7, v8 >> /\ v1' \in Boards
  BY DEF Reviewed!BoardChanges
<1>2. Reviewed!Awaited' = Reviewed!Awaited /\ Reviewed!OpenReports' = Reviewed!OpenReports
  BY <1>1 DEF Reviewed!Awaited, Reviewed!OpenReports
<1>3. Reviewed!TypeOK'
  BY <1>1, ReviewedTypeIs, ReviewedTypeIsThen DEF Reviewed!IInv
<1> QED
  BY <1>1, <1>2, <1>3
  DEF Reviewed!IInv, Reviewed!CalmOK, Reviewed!JudgedOK, Reviewed!NeverTroubled,
      Reviewed!ReviewIsShown

LEMMA ReviewedStartsStep ==
  ASSUME Reviewed!PortfolioAssumption, Reviewed!IInv, Reviewed!Starts
  PROVE  Reviewed!IInv'
<1> DEFINE b == Reviewed!Attempt(v2 + 1, 1)
<1>1. /\ Reviewed!TypeOK /\ v2 \in Nat /\ v2 < MaxReviews
      /\ Len(v6) \in Nat /\ Len(v6') = Len(v6) /\ v2' = v2 + 1
      /\ v3' = v3 \cup {b} /\ v4' = Reviewed!NoResult /\ v7' = (v3 = {})
      /\ UNCHANGED << v1, v5, v6, v8 >>
  BY ReviewedTypeIs DEF Reviewed!Starts, Reviewed!IInv
<1>2. b \in Attempts(v2 + 1, Len(v6)) /\ b.at = "collect" /\ b.current /\ b.run = v2 + 1
  <2>1. ReviewTries \in Nat \ {0}
    BY DEF Reviewed!PortfolioAssumption
  <2>2. 1 \in 1..ReviewTries /\ v2 + 1 \in 1..(v2 + 1)
    BY <1>1, <2>1
  <2> QED
    BY <1>1, <2>2, FreshIs
<1> HIDE DEF b
<1>3. /\ Attempts(v2, Len(v6)) \subseteq Attempts(v2 + 1, Len(v6))
      /\ Stored(v2) \subseteq Stored(v2 + 1)
      /\ Reports(v2) \subseteq Reports(v2 + 1)
  BY <1>1, Grows
<1>4. v6 \in Seq(Reports(v2 + 1))
  BY <1>1, <1>3, ReviewedTypeIs
<1>5. Reviewed!NoResult \in [ persisted : BOOLEAN, posted : BOOLEAN, error : BOOLEAN ]
  BY DEF Reviewed!NoResult
<1>6. v7' \in BOOLEAN /\ v2 + 1 \in 0..MaxReviews
  <2>1. MaxReviews \in Nat
    BY DEF Reviewed!PortfolioAssumption
  <2>2. v7' \in BOOLEAN
    BY <1>1
  <2> QED
    BY <1>1, <2>1, <2>2
<1>7. Reviewed!TypeOK'
  BY <1>1, <1>2, <1>3, <1>4, <1>5, <1>6, ReviewedTypeIs, ReviewedTypeIsThen
<1>8. Reviewed!JudgedOK'
  BY <1>1, <1>2 DEF Reviewed!JudgedOK, Reviewed!IInv
<1>9. Reviewed!CalmOK'
  BY <1>1, <1>2 DEF Reviewed!CalmOK
<1>10. Reviewed!ReviewIsShown'
  BY <1>1, <1>2 DEF Reviewed!ReviewIsShown, Reviewed!Awaited
<1>11. Reviewed!OpenReports' = Reviewed!OpenReports
  BY <1>1 DEF Reviewed!OpenReports
<1>12. Reviewed!NeverTroubled'
  <2>1. v8 = 0 => v3 = {}
    BY DEF Reviewed!Starts, Reviewed!IInv, Reviewed!NeverTroubled, Reviewed!CalmOK,
           Reviewed!Awaited
  <2> QED
    BY <1>1, <1>11, <2>1 DEF Reviewed!NeverTroubled, Reviewed!IInv
<1> QED
  BY <1>7, <1>8, <1>9, <1>10, <1>12 DEF Reviewed!IInv

\* An attempt goes on: it stays what is awaited.
LEMMA ReviewedGoesOn ==
  ASSUME Reviewed!PortfolioAssumption, Reviewed!IInv, NEW a \in v3, NEW b,
         v3' = (v3 \ {a}) \cup {b},
         UNCHANGED << v1, v2, v4, v6, v7, v8 >>,
         v5 \subseteq v5', v5' \subseteq Stored(v2),
         b \in Attempts(v2, Len(v6)),
         b.run = a.run, b.current <=> a.current,
         b.at \in { "persist", "search", "write" } => b.health \in Reviewed!Healths,
         v7 /\ b.at \in { "search", "write" } =>
           b.persisted /\ \E r \in v5' : r.run = v2 /\ r.health = b.health,
         b.at = "write"
           => IF b.found = 0 THEN Reviewed!OpenReports = {} ELSE b.found \in Reviewed!OpenReports
  PROVE  Reviewed!IInv'
<1>1. Reviewed!TypeOK'
  BY ReviewedTypeIs, ReviewedTypeIsThen DEF Reviewed!IInv
<1>2. Reviewed!JudgedOK'
  BY DEF Reviewed!JudgedOK, Reviewed!IInv
<1>3. Reviewed!OpenReports' = Reviewed!OpenReports
  BY DEF Reviewed!OpenReports
<1>4. v7 => v3' = {b} /\ b.current /\ b.run = v2
  BY DEF Reviewed!IInv, Reviewed!CalmOK
<1>5. Reviewed!CalmOK'
  BY <1>3, <1>4 DEF Reviewed!CalmOK
<1>6. Reviewed!NeverTroubled'
  BY <1>3 DEF Reviewed!NeverTroubled, Reviewed!IInv
<1>7. Reviewed!ReviewIsShown'
  BY <1>4 DEF Reviewed!ReviewIsShown, Reviewed!Awaited
<1> QED
  BY <1>1, <1>2, <1>5, <1>6, <1>7 DEF Reviewed!IInv

LEMMA CollectsStep ==
  ASSUME Reviewed!PortfolioAssumption, Reviewed!IInv, NEW a \in v3, Reviewed!Collects(a)
  PROVE  Reviewed!IInv'
<1>1. PICK page \in Reviewed!FirstPages :
        Reviewed!Becomes(a, [ a EXCEPT !.at = "review", !.seen = page ])
  BY DEF Reviewed!Collects
<1> DEFINE b == [ a EXCEPT !.at = "review", !.seen = page ]
<1>2. page \subseteq Items
  BY ReviewedTypeIs DEF Reviewed!FirstPages, Reviewed!IInv, Items
<1>3. /\ b \in Attempts(v2, Len(v6)) /\ b.run = a.run /\ (b.current <=> a.current)
      /\ b.at = "review"
  BY <1>2, AttemptIs DEF Attempts, Reviewed!IInv
<1>4. v3' = (v3 \ {a}) \cup {b}
      /\ UNCHANGED << v1, v2, v4, v5, v6, v7, v8 >>
  BY <1>1 DEF Reviewed!Collects, Reviewed!Becomes
<1>5. v5 \subseteq Stored(v2)
  BY ReviewedTypeIs DEF Reviewed!IInv
<1> HIDE DEF b
<1> QED
  BY <1>3, <1>4, <1>5, ReviewedGoesOn

LEMMA JudgesStep ==
  ASSUME Reviewed!PortfolioAssumption, Reviewed!IInv, NEW a \in v3,
         NEW health \in Reviewed!Healths, Reviewed!Judges(a, health)
  PROVE  Reviewed!IInv'
<1> DEFINE b == [ a EXCEPT !.at = "persist", !.seen = {}, !.health = health ]
<1>1. /\ b \in Attempts(v2, Len(v6)) /\ b.run = a.run /\ (b.current <=> a.current)
      /\ b.at = "persist" /\ b.health \in Reviewed!Healths
  BY AttemptIs DEF Attempts, Reviewed!IInv
<1>2. v3' = (v3 \ {a}) \cup {b}
      /\ UNCHANGED << v1, v2, v4, v5, v6, v7, v8 >>
  BY DEF Reviewed!Judges, Reviewed!Becomes
<1>3. v5 \subseteq Stored(v2)
  BY ReviewedTypeIs DEF Reviewed!IInv
<1> HIDE DEF b
<1> QED
  BY <1>1, <1>2, <1>3, ReviewedGoesOn

LEMMA PersistsStep ==
  ASSUME Reviewed!PortfolioAssumption, Reviewed!IInv, NEW a \in v3, Reviewed!Persists(a)
  PROVE  Reviewed!IInv'
<1> DEFINE b == [ a EXCEPT !.at = "search", !.persisted = TRUE ]
           r == [ run |-> a.run, try |-> a.try, health |-> a.health ]
<1>1. a.health \in Reviewed!Healths
  BY DEF Reviewed!IInv, Reviewed!JudgedOK, Reviewed!Persists
<1>2. /\ b \in Attempts(v2, Len(v6)) /\ b.run = a.run /\ (b.current <=> a.current)
      /\ b.at = "search" /\ b.health = a.health /\ b.persisted
  BY AttemptIs DEF Attempts, Reviewed!IInv
<1>3. v3' = (v3 \ {a}) \cup {b} /\ v5' = v5 \cup {r}
      /\ UNCHANGED << v1, v2, v4, v6, v7, v8 >>
  BY DEF Reviewed!Persists, Reviewed!Becomes
<1>4. r \in Stored(v2) /\ r.run = a.run /\ r.health = a.health
  BY <1>1, AttemptIs DEF Stored, Reviewed!IInv
<1>5. v7 => a.run = v2
  BY DEF Reviewed!IInv, Reviewed!CalmOK
<1> HIDE DEF b, r
<1>6. v5 \subseteq v5' /\ v5' \subseteq Stored(v2)
  BY <1>3, <1>4, ReviewedTypeIs DEF Reviewed!IInv
<1>7. v7 => \E s \in v5' : s.run = v2 /\ s.health = b.health
  BY <1>2, <1>3, <1>4, <1>5
<1> QED
  BY <1>1, <1>2, <1>3, <1>6, <1>7, ReviewedGoesOn

LEMMA SearchesStep ==
  ASSUME Reviewed!PortfolioAssumption, Reviewed!IInv, NEW a \in v3, Reviewed!Searches(a)
  PROVE  Reviewed!IInv'
<1> DEFINE b == [ a EXCEPT !.at = "write", !.found = Reviewed!Found ]
<1>1. Reviewed!Found \in 0..Len(v6)
  BY FoundIs DEF Reviewed!IInv
<1>2. /\ b \in Attempts(v2, Len(v6)) /\ b.run = a.run /\ (b.current <=> a.current)
      /\ b.at = "write" /\ b.health = a.health /\ (b.persisted <=> a.persisted)
      /\ b.found = Reviewed!Found
  BY <1>1, AttemptIs DEF Attempts, Reviewed!IInv
<1>3. v3' = (v3 \ {a}) \cup {b}
      /\ UNCHANGED << v1, v2, v4, v5, v6, v7, v8 >>
  BY DEF Reviewed!Searches, Reviewed!Becomes
<1>4. a.health \in Reviewed!Healths
  BY DEF Reviewed!IInv, Reviewed!JudgedOK, Reviewed!Searches
<1>5. v7 => a.persisted /\ \E s \in v5 : s.run = v2 /\ s.health = a.health
  BY DEF Reviewed!IInv, Reviewed!CalmOK, Reviewed!Searches
<1>6. v5 \subseteq Stored(v2)
        /\ IF Reviewed!Found = 0 THEN Reviewed!OpenReports
             = {} ELSE Reviewed!Found \in Reviewed!OpenReports
  BY ReviewedTypeIs, FoundIs DEF Reviewed!IInv
<1> HIDE DEF b
<1> QED
  BY <1>2, <1>3, <1>4, <1>5, <1>6, ReviewedGoesOn

\* The report that is opened or changed shows what was judged.
LEMMA ReviewedWrittenIs ==
  ASSUME Reviewed!PortfolioAssumption, Reviewed!IInv, NEW a \in v3, Reviewed!Writes(a)
  PROVE  /\ v6' \in Seq(Reports(v2)) /\ Len(v6') \in Nat
         /\ Len(v6) <= Len(v6')
         /\ \E n \in DOMAIN v6' :
              /\ v6'[n].run = a.run /\ v6'[n].health = a.health
              /\ n = IF a.found = 0 THEN Len(v6) + 1 ELSE a.found
              /\ v6'[n].open <=> a.found = 0 \/ a.found \in Reviewed!OpenReports
              /\ DOMAIN v6' = DOMAIN v6 \cup {n}
              /\ \A m \in DOMAIN v6 : m # n => v6'[m] = v6[m]
<1> DEFINE R == Reports(v2)
           s == [ Reviewed!Shown(a) EXCEPT !.open = v6[a.found].open ]
<1>1. /\ v6 \in Seq(R) /\ Len(v6) \in Nat /\ a.found \in 0..Len(v6)
      /\ a.health \in Reviewed!Healths /\ a.run \in 1..v2 /\ a.try \in 1..ReviewTries
  BY ReviewedTypeIs, AttemptIs DEF Reviewed!IInv, Reviewed!JudgedOK, Reviewed!Writes
<1>2. Reviewed!Shown(a) \in R /\ Reviewed!Shown(a).run = a.run
        /\ Reviewed!Shown(a).health = a.health /\ Reviewed!Shown(a).open
  BY <1>1 DEF Reviewed!Shown, Reports
<1>3. CASE a.found = 0
  <2>1. v6' = Append(v6, Reviewed!Shown(a))
    BY <1>3 DEF Reviewed!Writes
  <2> HIDE DEF R
  <2>2. /\ v6' \in Seq(R) /\ Len(v6') = Len(v6) + 1
        /\ v6'[Len(v6) + 1] = Reviewed!Shown(a)
        /\ \A m \in 1..Len(v6) : v6'[m] = v6[m]
    BY <1>1, <1>2, <2>1
  <2>3. DOMAIN v6' = DOMAIN v6 \cup { Len(v6) + 1 }
    BY <1>1, <2>2
  <2> QED
    BY <1>1, <1>2, <1>3, <2>2, <2>3 DEF R
<1>4. CASE a.found # 0
  <2>1. v6' = [ v6 EXCEPT ![a.found] = s ] /\ a.found \in 1..Len(v6)
    BY <1>1, <1>4 DEF Reviewed!Writes
  <2>2. v6[a.found] \in R
    BY <1>1, <2>1
  <2>3. s \in R /\ s.run = a.run /\ s.health = a.health /\ s.open = v6[a.found].open
    BY <1>2, <2>2 DEF Reports
  <2> HIDE DEF s, R
  <2>4. v6' \in Seq(R) /\ Len(v6') = Len(v6) /\ DOMAIN v6' = DOMAIN v6
    BY <1>1, <2>1, <2>3
  <2>5. v6'[a.found] = s /\ \A m \in DOMAIN v6 : m # a.found => v6'[m] = v6[m]
    BY <1>1, <2>1
  <2>6. v6[a.found].open <=> a.found \in Reviewed!OpenReports
    BY <1>1, <2>1 DEF Reviewed!OpenReports
  <2>7. a.found \in DOMAIN v6' /\ DOMAIN v6' = DOMAIN v6 \cup {a.found}
    BY <1>1, <2>1, <2>4
  <2>8. Len(v6') \in Nat /\ Len(v6) <= Len(v6')
    BY <1>1, <2>4
  <2> QED
    BY <1>4, <2>3, <2>4, <2>5, <2>6, <2>7, <2>8 DEF R
<1> QED
  BY <1>3, <1>4

LEMMA ReviewedWritesStep ==
  ASSUME Reviewed!PortfolioAssumption, Reviewed!IInv, NEW a \in v3, Reviewed!Writes(a)
  PROVE  Reviewed!IInv'
<1>1. PICK n \in DOMAIN v6' :
        /\ v6'[n].run = a.run /\ v6'[n].health = a.health
        /\ n = IF a.found = 0 THEN Len(v6) + 1 ELSE a.found
        /\ v6'[n].open <=> a.found = 0 \/ a.found \in Reviewed!OpenReports
        /\ DOMAIN v6' = DOMAIN v6 \cup {n}
        /\ \A m \in DOMAIN v6 : m # n => v6'[m] = v6[m]
  BY ReviewedWrittenIs
<1>2. /\ v3' = v3 \ {a} /\ a.at = "write"
      /\ v4' = IF ~a.current THEN v4
                   ELSE [ persisted |-> a.persisted, posted |-> TRUE, error |-> FALSE ]
      /\ UNCHANGED << v1, v2, v5, v7, v8 >>
  BY DEF Reviewed!Writes, Reviewed!Answer
<1>3. /\ Reviewed!TypeOK /\ a.persisted \in BOOLEAN /\ v2 \in Nat /\ Len(v6) \in Nat
      /\ v4 \in [ persisted : BOOLEAN, posted : BOOLEAN, error : BOOLEAN ]
  BY ReviewedTypeIs, AttemptIs DEF Reviewed!IInv
<1>4. Reviewed!TypeOK'
  <2>1. Attempts(v2, Len(v6)) \subseteq Attempts(v2, Len(v6'))
    BY <1>3, ReviewedWrittenIs, Grows
  <2>2. v4' \in [ persisted : BOOLEAN, posted : BOOLEAN, error : BOOLEAN ]
    BY <1>2, <1>3
  <2> QED
    BY <1>2, <1>3, <2>1, <2>2, ReviewedWrittenIs, ReviewedTypeIs, ReviewedTypeIsThen
<1>5. Reviewed!JudgedOK'
  BY <1>2 DEF Reviewed!JudgedOK, Reviewed!IInv
<1>6. v7 => /\ v3' = {} /\ a.current /\ a.run = v2 /\ a.persisted
            /\ \E r \in v5 : r.run = v2 /\ r.health = a.health
            /\ IF a.found = 0 THEN Reviewed!OpenReports = {} ELSE a.found \in Reviewed!OpenReports
  BY <1>2 DEF Reviewed!IInv, Reviewed!CalmOK
<1>7. Reviewed!CalmOK'
  BY <1>2, <1>6 DEF Reviewed!CalmOK
<1>8. Reviewed!OpenReports' \subseteq Reviewed!OpenReports \cup {n}
        /\ (v6'[n].open => n \in Reviewed!OpenReports')
  BY <1>1 DEF Reviewed!OpenReports
<1>9. v7 => Reviewed!OpenReports' \subseteq Reviewed!OpenReports \cup {n}
              /\ (IF a.found = 0 THEN Reviewed!OpenReports = {} ELSE n \in Reviewed!OpenReports)
  BY <1>1, <1>6, <1>8
<1>10. Reviewed!NeverTroubled'
  BY <1>2, <1>9 DEF Reviewed!NeverTroubled, Reviewed!IInv
<1>11. v7 => n \in Reviewed!OpenReports'
  BY <1>1, <1>6, <1>8
<1>12. Reviewed!ReviewIsShown'
  BY <1>1, <1>2, <1>6, <1>11 DEF Reviewed!ReviewIsShown
<1> QED
  BY <1>4, <1>5, <1>7, <1>10, <1>12 DEF Reviewed!IInv

LEMMA InvStep ==
  ASSUME Reviewed!PortfolioAssumption, Reviewed!IInv, Reviewed!Next
  PROVE  Reviewed!IInv'
<1>1. CASE Reviewed!BoardChanges \/ Reviewed!Starts
             \/ \E n \in DOMAIN v6 : Reviewed!PersonCloses(n)
  BY <1>1, BoardChangesStep, ReviewedStartsStep, PersonClosesStep
<1>2. ASSUME NEW a \in v3,
             \/ Reviewed!Collects(a) \/ Reviewed!Persists(a) \/ Reviewed!PersistFails(a)
                  \/ Reviewed!Searches(a) \/ Reviewed!Writes(a)
             \/ Reviewed!ChangeRefused(a) \/ Reviewed!PostFails(a) \/ Reviewed!ReviewFails(a)
                  \/ Reviewed!TimesOut(a)
      PROVE  Reviewed!IInv'
  BY <1>2, CollectsStep, PersistsStep, PersistFailsStep, SearchesStep, ReviewedWritesStep,
     RefusedStep, ReviewedTimesOutStep
<1>3. ASSUME NEW a \in v3, Reviewed!ModelJudges(a) \/ Reviewed!RulesJudge(a) PROVE Reviewed!IInv'
  <2>1. Reviewed!Health(a.seen) \in Reviewed!Healths
    BY DEF Reviewed!Health, Reviewed!Healths
  <2> QED
    BY <1>3, <2>1, JudgesStep DEF Reviewed!ModelJudges, Reviewed!RulesJudge
<1> QED
  BY <1>1, <1>2, <1>3 DEF Reviewed!Next

LEMMA ReviewedInvUnchanged == ASSUME Reviewed!IInv, UNCHANGED Reviewed!vars PROVE Reviewed!IInv'
<1>1. Reviewed!OpenReports' = Reviewed!OpenReports /\ Reviewed!Awaited' = Reviewed!Awaited
  BY DEF Reviewed!vars, Reviewed!OpenReports, Reviewed!Awaited
<1>2. Reviewed!TypeOK'
  BY ReviewedTypeIs, ReviewedTypeIsThen DEF Reviewed!IInv, Reviewed!vars
<1> QED
  BY <1>1, <1>2
  DEF Reviewed!IInv, Reviewed!vars, Reviewed!CalmOK, Reviewed!JudgedOK, Reviewed!NeverTroubled,
      Reviewed!ReviewIsShown

LEMMA OneIsOpen == ASSUME Reviewed!IInv PROVE Reviewed!OneReport
<1>1. SUFFICES ASSUME v8 = 0 PROVE ~(Reviewed!Cardinality(Reviewed!OpenReports) > 1)
  BY ReviewedTypeIs DEF Reviewed!OneReport, Reviewed!IInv
<1>2. \A m, n \in Reviewed!OpenReports : m = n
  BY <1>1 DEF Reviewed!IInv, Reviewed!NeverTroubled
<1>3. CASE Reviewed!OpenReports = {}
  BY ReviewedFinite, <1>3, FS_EmptySet
<1>4. CASE Reviewed!OpenReports # {}
  <2>1. PICK n \in Reviewed!OpenReports : TRUE
    BY <1>4
  <2>2. Reviewed!OpenReports = {n}
    BY <1>2
  <2>3. Reviewed!Cardinality({n}) = 1
    BY ReviewedFinite, FS_Singleton
  <2> QED
    BY <2>2, <2>3
<1> QED
  BY <1>3, <1>4
LEMMA ReviewedInvNext ==
  ASSUME Reviewed!PortfolioAssumption, Reviewed!IInv, [Reviewed!Next]_Reviewed!vars
  PROVE  Reviewed!IInv'
  BY InvStep, ReviewedInvUnchanged

LEMMA ReviewedSteps ==
  ASSUME focus = "reviewed", [Next]_v
  PROVE  focus' = "reviewed" /\ [Reviewed!Next]_Reviewed!vars
  BY DEF Next, v, Reviewed!vars, Kept8

LEMMA ReviewedInvariant == Spec => [](focus = "reviewed" => Reviewed!IInv)
<1> DEFINE Inv == focus = "reviewed" => Reviewed!IInv
<1>1. Init => Inv
  BY ReviewedAssumption, ReviewedInvInit DEF Init
<1>2. Inv /\ [Next]_v => Inv'
  BY ReviewedAssumption, ReviewedInvNext, ReviewedSteps, FocusIsKept
<1> QED
  BY <1>1, <1>2, PTL DEF Spec

\* src/meridian: whatever boards, judgements, time-outs and refusals there were before, a
\* run that met none of them has stored its review and shows it in an open issue, and
\* until something goes wrong no two of them are open.
THEOREM ReviewShows == Spec => []ReviewIsShown
<1>1. (focus = "reviewed" => Reviewed!IInv) => ReviewIsShown
  BY OneIsOpen DEF ReviewIsShown, Reviewed!IInv
<1> QED
  BY <1>1, ReviewedInvariant, PTL

(***************************************************************************)
(* Intents: Versions of the intent, the requests that add one and the      *)
(* publication.  Beside a request that shares with nobody only the         *)
(* workflow stores anything. The variables: v1 specs, v2 pointer, v3       *)
(* status, v4 workflow, v5 request, v6 publisher, v7 pushed, v8 shared, v9 *)
(* newest.                                                                 *)
(***************************************************************************)

IntentRow == [ version : Intent!Versions, author : Intent!Authors ]
IntentRequest == [ kind : { "edit", "refine" },
         at : { "new", "admitted", "read", "created", "done", "refused" },
         version : Intent!Versions \cup {0} ]
Publishing == [ tries : 0..MaxTries, noted : Intent!Versions \cup {0},
         head : Intent!Versions \cup {0}, pull : Intent!Versions \cup {0} ]

\* What is constant, so that the steps need not look into it.
LEMMA Constants ==
  ASSUME Intent!IntentsAssumption
  PROVE  /\ Intent!Versions \subseteq Nat \ {0} /\ 1 \in Intent!Versions /\ 2 \in Intent!Versions
         /\ Intent!Automatic \in Intent!Authors /\ Intent!Automatic \notin Requests
         /\ Intent!None \notin Requests
         /\ Requests \subseteq Intent!Authors
  BY DEF Intent!IntentsAssumption, Intent!Versions, Intent!Authors, Intent!Automatic, Intent!None

\* Everything beside the requests.
OtherSides ==
  /\ v1 \in Seq(IntentRow) /\ v2 \in Intent!Versions \cup {0}
  /\ v3 \in { "before", "intent_built", "after" }
  /\ v4 \in [ stage : { "intent", "implement", "publish", "over" }, runs : 0..MaxRuns ]
  /\ v6 \in Publishing /\ v7 \subseteq Intent!Versions

RequestsSide ==
  v5 \in [ Requests -> IntentRequest ] /\ v8 \subseteq Requests
    /\ v9 \in Requests \cup {Intent!None}

LEMMA IntentTypeIs == Intent!TypeOK <=> OtherSides /\ RequestsSide
  BY DEF Intent!TypeOK, OtherSides, RequestsSide, IntentRow, IntentRequest, Publishing

LEMMA IntentTypeIsThen == Intent!TypeOK' <=> OtherSides' /\ RequestsSide'
  BY DEF Intent!TypeOK, OtherSides, RequestsSide, IntentRow, IntentRequest, Publishing

\* What a row more changes.
LEMMA AppendIs ==
  ASSUME NEW s \in Seq(IntentRow), NEW x \in IntentRow
  PROVE  /\ Append(s, x) \in Seq(IntentRow) /\ Len(s) + 1 \in DOMAIN Append(s, x)
         /\ Append(s, x)[Len(s) + 1] = x
         /\ \A i \in DOMAIN s : i \in DOMAIN Append(s, x) /\ Append(s, x)[i] = s[i]
         /\ \A i \in DOMAIN Append(s, x) : i \in DOMAIN s \/ i = Len(s) + 1
  OBVIOUS

LEMMA SpecIs ==
  ASSUME Intent!TypeOK, NEW i \in DOMAIN v1
  PROVE  v1[i].version \in Intent!Versions /\ v1[i].author \in Intent!Authors
<1>1. v1 \in Seq(IntentRow)
  BY IntentTypeIs DEF OtherSides
<1>2. v1[i] \in IntentRow
  BY <1>1
<1> QED
  BY <1>2 DEF IntentRow

LEMMA RequestIs ==
  ASSUME Intent!TypeOK, NEW r \in Requests
  PROVE  /\ v5[r] \in IntentRequest /\ v5[r].version \in Intent!Versions \cup {0}
         /\ v5 \in [ Requests -> IntentRequest ]
<1>1. v5 \in [ Requests -> IntentRequest ]
  BY IntentTypeIs DEF RequestsSide
<1> QED
  BY <1>1 DEF IntentRequest

LEMMA LatestIs ==
  ASSUME Intent!IntentsAssumption, Intent!TypeOK, NEW i \in Intent!Latest
  PROVE  i \in DOMAIN v1 /\ v1[i].version \in Intent!Versions
         /\ \A j \in DOMAIN v1 : v1[j].version <= v1[i].version
  BY SpecIs DEF Intent!Latest

LEMMA IntentInvInit == ASSUME Intent!IntentsAssumption, Intent!Init PROVE Intent!IInv
<1>1. OtherSides
  <2>1. MaxTries \in Nat /\ MaxRuns \in Nat
    BY DEF Intent!IntentsAssumption
  <2>2. v6 \in Publishing
          /\ v4 \in [ stage : { "intent", "implement", "publish", "over" }, runs : 0..MaxRuns ]
    BY <2>1 DEF Intent!Init, Publishing
  <2>3. v1 \in Seq(IntentRow)
    BY DEF Intent!Init
  <2> QED
    BY <2>2, <2>3 DEF Intent!Init, OtherSides
<1>2. RequestsSide
  BY DEF Intent!Init, RequestsSide, IntentRequest
<1>3. \A r \in Requests : v5[r].at = "new"
  BY DEF Intent!Init
<1>4. MaxTries \in Nat \ {0}
  BY DEF Intent!IntentsAssumption
<1>5. Intent!PublisherOK
  BY <1>4 DEF Intent!Init, Intent!PublisherOK
<1>6. DOMAIN v1 = {}
  BY DEF Intent!Init
<1> QED
  BY <1>1, <1>2, <1>3, <1>5, <1>6, IntentTypeIs
  DEF Intent!Init, Intent!IInv, Intent!RowsOK, Intent!VersionsOK, Intent!AloneOK,
      Intent!InProgress, Intent!NewestOK

-----------------------------------------------------------------------------
(* Steps of the workflow *)

LEMMA IntentRunsStep ==
  ASSUME Intent!IntentsAssumption, Intent!IInv, Intent!IntentRuns
  PROVE  Intent!IInv'
<1> DEFINE x == [ version |-> 1, author |-> Intent!Automatic ]
<1>1. x \in IntentRow /\ x.version = 1 /\ x.author = Intent!Automatic
  BY Constants DEF IntentRow
<1>2. v1' = v1 \/ v1' = Append(v1, x)
  BY DEF Intent!IntentRuns, Intent!Stored
<1>3. v1 \in Seq(IntentRow)
  BY IntentTypeIs DEF Intent!IInv, OtherSides
<1> HIDE DEF x
<1>4. /\ v1' \in Seq(IntentRow)
      /\ \A i \in DOMAIN v1 : i \in DOMAIN v1' /\ v1'[i] = v1[i]
      /\ \A i \in DOMAIN v1' : i \in DOMAIN v1 \/ v1'[i] = x
  <2>1. CASE v1' = v1
    BY <1>3, <2>1
  <2>2. CASE v1' = Append(v1, x)
    BY <1>1, <1>3, <2>2, AppendIs
  <2> QED
    BY <1>2, <2>1, <2>2
<1>5. /\ v4.stage = "intent" /\ UNCHANGED << v2, v3, v5, v6, v7, v8, v9 >>
      /\ v4'.stage \in { "intent", "implement" }
      /\ v4' \in [ stage : { "intent", "implement", "publish", "over" }, runs : 0..MaxRuns ]
  <2>1. MaxRuns \in Nat /\ v4.runs \in 0..MaxRuns /\ v4.runs < MaxRuns
    BY IntentTypeIs DEF Intent!IntentsAssumption, Intent!IInv, OtherSides, Intent!IntentRuns
  <2>2. v4.runs + 1 \in 0..MaxRuns
    BY <2>1
  <2> QED
    BY <2>2 DEF Intent!IntentRuns
<1>6. Intent!TypeOK'
  <2>1. OtherSides /\ RequestsSide
    BY IntentTypeIs DEF Intent!IInv
  <2>2. OtherSides'
    BY <1>4, <1>5, <2>1 DEF OtherSides
  <2>3. RequestsSide'
    BY <1>5, <2>1 DEF RequestsSide
  <2> QED
    BY <2>2, <2>3, IntentTypeIsThen
<1>7. Intent!RowsOK'
  BY <1>1, <1>4, <1>5 DEF Intent!IInv, Intent!RowsOK
<1>8. Intent!VersionsOK'
  BY <1>5 DEF Intent!IInv, Intent!VersionsOK
<1>9. Intent!AloneOK'
  <2>1. \A r \in Requests : /\ v5[r].at = "read" => 1 <= v5[r].version
                            /\ v5[r].at = "created" => 1 < v5[r].version
    <3>1. ASSUME NEW r \in Requests
          PROVE  /\ v5[r].at = "read" => 1 <= v5[r].version
                 /\ v5[r].at = "created" => 1 < v5[r].version
      <4>1. v5[r].version \in Intent!Versions \cup {0}
        BY RequestIs DEF Intent!IInv
      <4>2. v5[r].version \in Nat
        BY <4>1, Constants
      <4>3. /\ v5[r].at = "read" => v5[r].version >= 1
            /\ v5[r].at = "created" => v5[r].version >= 2
        BY DEF Intent!IInv, Intent!VersionsOK
      <4> QED
        BY <4>2, <4>3
    <3> QED
      BY <3>1
  <2> QED
    BY <1>1, <1>4, <1>5, <2>1 DEF Intent!IInv, Intent!AloneOK, Intent!InProgress
<1>10. Intent!NewestOK'
  <2>1. v9 # Intent!None => v9 \in Requests
    BY IntentTypeIs DEF Intent!IInv, RequestsSide
  <2>2. v9 # Intent!None => 1 < v5[v9].version
    BY <2>1, RequestIs, Constants DEF Intent!IInv, Intent!VersionsOK, Intent!NewestOK
  <2> QED
    BY <1>1, <1>4, <1>5, <2>2 DEF Intent!IInv, Intent!NewestOK
<1>11. Intent!PublisherOK'
  BY <1>4, <1>5 DEF Intent!IInv, Intent!PublisherOK
<1> QED
  BY <1>6, <1>7, <1>8, <1>9, <1>10, <1>11 DEF Intent!IInv

\* Steps that leave the versions and the requests as they are.
LEMMA BesideStep ==
  ASSUME Intent!IntentsAssumption, Intent!IInv, UNCHANGED << v1, v2, v5, v8, v9 >>,
         OtherSides', Intent!PublisherOK'
  PROVE  Intent!IInv'
<1>1. Intent!TypeOK'
  BY IntentTypeIs, IntentTypeIsThen DEF Intent!IInv, RequestsSide
<1> QED
  BY <1>1
  DEF Intent!IInv, Intent!RowsOK, Intent!VersionsOK, Intent!AloneOK, Intent!InProgress,
      Intent!NewestOK

LEMMA IntentImplementsStep ==
  ASSUME Intent!IntentsAssumption, Intent!IInv, Intent!Implements
  PROVE  Intent!IInv'
<1>1. OtherSides
  BY IntentTypeIs DEF Intent!IInv
<1>2. /\ UNCHANGED << v1, v2, v5, v8, v9, v6, v3 >>
      /\ v7' = v7 \cup {1} /\ v4.stage = "implement"
      /\ v4' \in [ stage : { "intent", "implement", "publish", "over" }, runs : 0..MaxRuns ]
      /\ v4'.stage \in { "intent", "publish" }
  BY <1>1 DEF Intent!Implements, OtherSides
<1>3. OtherSides'
  BY <1>1, <1>2, Constants DEF OtherSides
<1>4. Intent!PublisherOK'
  BY <1>2 DEF Intent!IInv, Intent!PublisherOK
<1> QED
  BY <1>2, <1>3, <1>4, BesideStep

LEMMA StatusAdvancesStep ==
  ASSUME Intent!IntentsAssumption, Intent!IInv, Intent!StatusAdvances
  PROVE  Intent!IInv'
<1>1. OtherSides
  BY IntentTypeIs DEF Intent!IInv
<1>2. UNCHANGED << v1, v2, v4, v5, v6, v7, v8, v9 >>
  BY DEF Intent!StatusAdvances
<1>3. OtherSides'
  BY <1>1, <1>2 DEF OtherSides, Intent!StatusAdvances
<1>4. Intent!PublisherOK'
  BY <1>2 DEF Intent!IInv, Intent!PublisherOK
<1> QED
  BY <1>2, <1>3, <1>4, BesideStep

LEMMA PublishesStep ==
  ASSUME Intent!IntentsAssumption, Intent!IInv,
         Intent!NotesVersion \/ Intent!NamesHead PROVE Intent!IInv'
<1>1. OtherSides
  BY IntentTypeIs DEF Intent!IInv
<1>2. /\ UNCHANGED << v1, v2, v3, v4, v5, v7, v8, v9 >>
      /\ \E i \in Intent!Latest :
           \/ v6' = [ v6 EXCEPT !.noted = v1[i].version ] /\ Intent!NotesVersion
           \/ v6' = [ v6 EXCEPT !.head = v1[i].version ] /\ Intent!NamesHead
  BY DEF Intent!NotesVersion, Intent!NamesHead
<1>3. PICK i \in Intent!Latest :
           \/ v6' = [ v6 EXCEPT !.noted = v1[i].version ] /\ Intent!NotesVersion
           \/ v6' = [ v6 EXCEPT !.head = v1[i].version ] /\ Intent!NamesHead
  BY <1>2
<1>4. i \in DOMAIN v1 /\ v1[i].version \in Intent!Versions /\ v1[i].version # 0
  BY LatestIs, Constants DEF Intent!IInv
<1>5. v6' \in Publishing
  BY <1>1, <1>3, <1>4 DEF OtherSides, Publishing
<1>6. OtherSides'
  BY <1>1, <1>2, <1>5 DEF OtherSides
<1>7. v6 \in Publishing
  BY <1>1 DEF OtherSides
<1>8. CASE v6' = [ v6 EXCEPT !.noted = v1[i].version ] /\ Intent!NotesVersion
  <2>1. v6'.noted = v1[i].version /\ v6'.head = v6.head
        /\ v6'.tries = v6.tries /\ v4.stage = "publish"
    BY <1>7, <1>8 DEF Publishing, Intent!NotesVersion
  <2>2. Intent!PublisherOK'
    BY <1>2, <1>4, <2>1 DEF Intent!IInv, Intent!PublisherOK
  <2> QED
    BY <1>2, <1>6, <2>2, BesideStep
<1>9. CASE v6' = [ v6 EXCEPT !.head = v1[i].version ] /\ Intent!NamesHead
  <2>1. v6'.head = v1[i].version /\ v6'.noted = v6.noted
        /\ v6'.tries = v6.tries /\ v6.noted # 0
    BY <1>7, <1>9 DEF Publishing, Intent!NamesHead
  <2>2. Intent!PublisherOK'
    BY <1>2, <1>4, <2>1 DEF Intent!IInv, Intent!PublisherOK
  <2> QED
    BY <1>2, <1>6, <2>2, BesideStep
<1> QED
  BY <1>3, <1>8, <1>9

LEMMA IntentOpensStep ==
  ASSUME Intent!IntentsAssumption, Intent!IInv, Intent!OpensPullRequest
  PROVE  Intent!IInv'
<1>1. OtherSides
  BY IntentTypeIs DEF Intent!IInv
<1>2. /\ UNCHANGED << v1, v2, v3, v5, v7, v8, v9 >>
      /\ v6.head \in v7 /\ v6' = [ v6 EXCEPT !.pull = v6.head ]
      /\ v4' = [ v4 EXCEPT !.stage = "over" ]
  BY DEF Intent!OpensPullRequest
<1>3. v6 \in Publishing /\ v7 \subseteq Intent!Versions
  BY <1>1 DEF OtherSides
<1>4. /\ v6' \in Publishing /\ v6'.noted = v6.noted
      /\ v6'.head = v6.head /\ v6'.tries = v6.tries
  BY <1>2, <1>3 DEF Publishing
<1>5. v4'.stage = "over"
      /\ v4' \in [ stage : { "intent", "implement", "publish", "over" }, runs : 0..MaxRuns ]
  BY <1>1, <1>2 DEF OtherSides
<1>6. OtherSides'
  BY <1>1, <1>2, <1>4, <1>5 DEF OtherSides
<1>7. v6.head # 0
  BY <1>2, <1>3, Constants
<1>8. 1 \in v7
  BY <1>7 DEF Intent!IInv, Intent!PublisherOK
<1>9. Intent!PublisherOK'
  BY <1>2, <1>4, <1>5, <1>8 DEF Intent!IInv, Intent!PublisherOK
<1> QED
  BY <1>2, <1>6, <1>9, BesideStep

LEMMA AttemptFailsStep ==
  ASSUME Intent!IntentsAssumption, Intent!IInv, Intent!AttemptFails
  PROVE  Intent!IInv'
<1>1. OtherSides
  BY IntentTypeIs DEF Intent!IInv
<1>2. /\ UNCHANGED << v1, v2, v3, v5, v7, v8, v9 >>
      /\ v4.stage = "publish"
      /\ v6' = [ v6 EXCEPT !.tries = v6.tries + 1, !.noted = 0, !.head = 0 ]
      /\ v4' = IF v6.tries + 1 = MaxTries THEN [ v4 EXCEPT !.stage = "over" ]
                                                       ELSE v4
  BY DEF Intent!AttemptFails
<1>3. v6 \in Publishing /\ v6.tries < MaxTries /\ v6.tries \in 0..MaxTries /\ MaxTries \in Nat
  BY <1>1, <1>2
  DEF OtherSides, Publishing, Intent!IInv, Intent!PublisherOK, Intent!IntentsAssumption
<1>4. v6.tries + 1 \in 0..MaxTries
      /\ (v6.tries + 1 # MaxTries => v6.tries + 1 < MaxTries)
  BY <1>3
<1>5. /\ v6' \in Publishing /\ v6'.noted = 0 /\ v6'.head = 0
      /\ v6'.tries = v6.tries + 1
  BY <1>2, <1>3, <1>4 DEF Publishing
<1>6. /\ v4' \in [ stage : { "intent", "implement", "publish", "over" }, runs : 0..MaxRuns ]
      /\ v4'.stage \in { "publish", "over" }
      /\ v4'.stage # "over" => v6.tries + 1 # MaxTries
  BY <1>1, <1>2 DEF OtherSides
<1>7. OtherSides'
  BY <1>1, <1>2, <1>5, <1>6 DEF OtherSides
<1>8. Intent!PublisherOK'
  BY <1>2, <1>4, <1>5, <1>6 DEF Intent!IInv, Intent!PublisherOK
<1> QED
  BY <1>2, <1>7, <1>8, BesideStep

-----------------------------------------------------------------------------
(* Steps of the dashboard *)

\* A request goes on, or dies, and nothing is stored.
LEMMA IntentMovesStep ==
  ASSUME Intent!IntentsAssumption, Intent!IInv, NEW r \in Requests, NEW c \in IntentRequest,
         v5' = [ v5 EXCEPT ![r] = c ],
         UNCHANGED << v1, v2, v3, v4, v6, v7, v9 >>,
         v8 \subseteq v8', v8' \subseteq Requests,
         c.at \in { "admitted", "read", "refused" },
         v5[r].at \in { "new", "admitted", "read", "created" },
         c.at = "read" => c.version >= 1 /\ \A i \in DOMAIN v1 : v1[i].version <= c.version,
         v5[r].at = "created" => c.at = "refused",
         \/ Intent!InProgress(r) /\ c.at \in { "admitted", "read", "refused" }
         \/ c.at = "refused"
         \/ c.at = "admitted" /\ \A q \in Requests \ {r} : Intent!InProgress(q)
              => {q, r} \subseteq v8'
  PROVE  Intent!IInv'
<1>1. v5 \in [ Requests -> IntentRequest ] /\ OtherSides /\ RequestsSide
  BY IntentTypeIs DEF Intent!IInv, RequestsSide
<1>2. v5'[r] = c /\ \A q \in Requests : q # r => v5'[q] = v5[q]
  BY <1>1
<1>3. Intent!TypeOK'
  <2>1. OtherSides'
    BY <1>1 DEF OtherSides
  <2>2. RequestsSide'
    BY <1>1 DEF RequestsSide
  <2> QED
    BY <2>1, <2>2, IntentTypeIsThen
<1>4. \A i \in DOMAIN v1 : v1[i].author # Intent!Automatic => v1[i].author \in Requests
  BY SpecIs DEF Intent!IInv, Intent!Authors
<1>5. Intent!RowsOK'
  <2>1. ASSUME NEW i \in DOMAIN v1, v1[i].author # Intent!Automatic
        PROVE  v5'[v1[i].author].at \in { "created", "done", "refused" }
    <3>1. v5[v1[i].author].at \in { "created", "done", "refused" }
      BY <2>1 DEF Intent!IInv, Intent!RowsOK
    <3>2. CASE v1[i].author = r
      BY <1>2, <3>1, <3>2
    <3>3. CASE v1[i].author # r
      BY <1>2, <1>4, <2>1, <3>1, <3>3
    <3> QED
      BY <3>2, <3>3
  <2> QED
    BY <1>2, <2>1 DEF Intent!IInv, Intent!RowsOK
<1>6. Intent!VersionsOK'
  BY <1>2 DEF Intent!IInv, Intent!VersionsOK
<1>7. Intent!AloneOK'
  <2>1. SUFFICES ASSUME NEW q \in Requests, q \notin v8', Intent!InProgress(q)'
        PROVE  /\ \A p \in Requests : Intent!InProgress(p)' => p = q
               /\ v5'[q].at = "read" => \A i \in DOMAIN v1 : v1[i].version <= v5'[q].version
               /\ v5'[q].at = "created" => \A i \in DOMAIN v1 :
                    v1[i].version < v5'[q].version \/ v1[i].author = q
    BY DEF Intent!AloneOK
  <2>2. \A p \in Requests : p # r => (Intent!InProgress(p)' <=> Intent!InProgress(p))
    BY <1>2 DEF Intent!InProgress
  <2>3. Intent!InProgress(r)' => c.at \in { "admitted", "read" }
    BY <1>2 DEF Intent!InProgress
  <2>4. q # r => Intent!InProgress(q) /\ q \notin v8
    BY <2>1, <2>2
  <2>5. CASE q # r
    <3>1. ~Intent!InProgress(r)'
      BY <1>2, <2>1, <2>3, <2>4, <2>5 DEF Intent!IInv, Intent!AloneOK
    <3> QED
      BY <1>2, <2>2, <2>4, <2>5, <3>1 DEF Intent!IInv, Intent!AloneOK
  <2>6. CASE q = r
    <3>1. \A p \in Requests : p # r => ~Intent!InProgress(p)
      BY <2>1, <2>3, <2>6 DEF Intent!IInv, Intent!AloneOK
    <3> QED
      BY <1>2, <2>1, <2>2, <2>3, <2>6, <3>1
  <2> QED
    BY <2>5, <2>6
<1>8. Intent!NewestOK'
  <2>1. v9 # Intent!None => v9 \in Requests /\ v9 # r
    BY <1>1 DEF Intent!IInv, RequestsSide, Intent!NewestOK
  <2>2. \A i \in DOMAIN v1 :
          v1[i].author # Intent!Automatic /\ v5[v1[i].author].at \in { "created", "refused" }
            => v5'[v1[i].author].at \in { "created", "refused" }
    BY <1>2, <1>4
  <2> QED
    BY <1>2, <2>1, <2>2 DEF Intent!IInv, Intent!NewestOK
<1>9. Intent!PublisherOK'
  BY DEF Intent!IInv, Intent!PublisherOK
<1> QED
  BY <1>3, <1>5, <1>6, <1>7, <1>8, <1>9 DEF Intent!IInv

LEMMA AdmitsStep ==
  ASSUME Intent!IntentsAssumption, Intent!IInv, NEW r \in Requests, Intent!Admits(r)
  PROVE  Intent!IInv'
<1> DEFINE step == IF v3 = "intent_built" THEN "admitted" ELSE "refused"
           c == [ v5[r] EXCEPT !.at = step ]
           beside == { q \in Requests \ {r} : Intent!InProgress(q) }
<1>1. v5' = [ v5 EXCEPT ![r] = c ]
  BY DEF Intent!Admits
<1>2. c \in IntentRequest /\ c.at = step /\ step \in { "admitted", "refused" } /\ v5[r].at = "new"
  BY RequestIs DEF Intent!IInv, IntentRequest, Intent!Admits
<1>3. v8 \subseteq Requests /\ beside \subseteq Requests
  BY IntentTypeIs DEF Intent!IInv, RequestsSide
<1>4. v8 \subseteq v8' /\ v8' \subseteq Requests
      /\ (step = "admitted" => \A q \in Requests \ {r} : Intent!InProgress(q) => {q, r} \subseteq v8')
  BY <1>3 DEF Intent!Admits
<1>5. UNCHANGED << v1, v2, v3, v4, v6, v7, v9 >>
  BY DEF Intent!Admits
<1> HIDE DEF c, step
<1> QED
  BY <1>1, <1>2, <1>4, <1>5, IntentMovesStep

LEMMA ReadsLatestStep ==
  ASSUME Intent!IntentsAssumption, Intent!IInv, NEW r \in Requests, Intent!ReadsLatest(r)
  PROVE  Intent!IInv'
<1>1. /\ UNCHANGED << v1, v2, v3, v4, v6, v7, v8, v9 >>
      /\ v5[r].at = "admitted" /\ Intent!InProgress(r) /\ v8 \subseteq Requests
  BY IntentTypeIs DEF Intent!ReadsLatest, Intent!IInv, RequestsSide, Intent!InProgress
<1>2. CASE v1 = << >>
  <2> DEFINE c == [ v5[r] EXCEPT !.at = "refused" ]
  <2>1. v5' = [ v5 EXCEPT ![r] = c ]
    BY <1>2 DEF Intent!ReadsLatest
  <2>2. c \in IntentRequest /\ c.at = "refused"
    BY RequestIs DEF Intent!IInv, IntentRequest
  <2> HIDE DEF c
  <2> QED
    BY <1>1, <2>1, <2>2, IntentMovesStep
<1>3. CASE v1 # << >>
  <2>1. PICK i \in Intent!Latest :
          v5' = [ v5 EXCEPT ![r].version = v1[i].version,
            ![r].at = IF v5[r].kind = "refine" /\ v1[i].version >= MaxVersions
                        THEN "refused" ELSE "read" ]
    BY <1>3 DEF Intent!ReadsLatest
  <2> DEFINE step == IF v5[r].kind = "refine" /\ v1[i].version >= MaxVersions
                     THEN "refused" ELSE "read"
             c == [ v5[r] EXCEPT !.version = v1[i].version, !.at = step ]
  <2>2. v5' = [ v5 EXCEPT ![r] = c ]
    BY <2>1, RequestIs DEF Intent!IInv
  <2>3. /\ v1[i].version \in Intent!Versions /\ v1[i].version >= 1
        /\ \A j \in DOMAIN v1 : v1[j].version <= v1[i].version
    BY LatestIs, Constants DEF Intent!IInv
  <2>4. c \in IntentRequest /\ c.at = step /\ step \in { "refused", "read" }
          /\ c.version = v1[i].version
    BY <2>3, RequestIs DEF Intent!IInv, IntentRequest
  <2> HIDE DEF c, step
  <2> QED
    BY <1>1, <2>2, <2>3, <2>4, IntentMovesStep
<1> QED
  BY <1>2, <1>3

LEMMA IntentDiesStep ==
  ASSUME Intent!IntentsAssumption, Intent!IInv, NEW r \in Requests, Intent!Dies(r)
  PROVE  Intent!IInv'
<1> DEFINE c == [ v5[r] EXCEPT !.at = "refused" ]
<1>1. /\ v5' = [ v5 EXCEPT ![r] = c ] /\ Intent!InProgress(r)
      /\ UNCHANGED << v1, v2, v3, v4, v6, v7, v8, v9 >>
  BY DEF Intent!Dies
<1>2. c \in IntentRequest /\ c.at = "refused" /\ v8 \subseteq Requests
  BY RequestIs, IntentTypeIs DEF Intent!IInv, IntentRequest, RequestsSide
<1>3. v5[r].at \in { "admitted", "read", "created" }
  BY <1>1 DEF Intent!InProgress
<1> HIDE DEF c
<1> QED
  BY <1>1, <1>2, <1>3, IntentMovesStep

LEMMA IntentCreatesStep ==
  ASSUME Intent!IntentsAssumption, Intent!IInv, NEW r \in Requests, Intent!Creates(r)
  PROVE  Intent!IInv'
<1> DEFINE n == v5[r].version + 1
           x == [ version |-> n, author |-> r ]
           c == [ v5[r] EXCEPT !.at = "created", !.version = n ]
<1>1. /\ v5[r].at = "read" /\ n \in Intent!Versions /\ v1' = Append(v1, x)
      /\ UNCHANGED << v2, v3, v4, v6, v7, v8, v9 >>
  BY DEF Intent!Creates
<1>2. v5' = [ v5 EXCEPT ![r] = c ]
  BY RequestIs DEF Intent!Creates, Intent!IInv
<1>3. x \in IntentRow /\ x.version = n /\ x.author = r
  BY <1>1, Constants DEF IntentRow
<1>4. c \in IntentRequest /\ c.at = "created" /\ c.version = n
  BY <1>1, RequestIs DEF Intent!IInv, IntentRequest
<1>5. v5[r].version \in Nat /\ v5[r].version >= 1 /\ n = v5[r].version + 1
  BY <1>1, RequestIs, Constants DEF Intent!IInv, Intent!VersionsOK
<1>6. n \in Nat /\ n >= 2 /\ v5[r].version < n
  BY <1>5
<1> HIDE DEF n, x, c
<1>7. v1 \in Seq(IntentRow) /\ v5 \in [ Requests -> IntentRequest ] /\ OtherSides /\ RequestsSide
  BY IntentTypeIs DEF Intent!IInv, OtherSides, RequestsSide
<1>8. /\ v1' \in Seq(IntentRow) /\ Len(v1) + 1 \in DOMAIN v1' /\ v1'[Len(v1) + 1] = x
      /\ \A i \in DOMAIN v1 : i \in DOMAIN v1' /\ v1'[i] = v1[i]
      /\ \A i \in DOMAIN v1' : i \in DOMAIN v1 \/ i = Len(v1) + 1
  BY <1>1, <1>3, <1>7, AppendIs
<1>9. v5'[r] = c /\ \A q \in Requests : q # r => v5'[q] = v5[q]
  BY <1>2, <1>7
<1>10. Intent!TypeOK'
  <2>1. OtherSides'
    BY <1>1, <1>7, <1>8 DEF OtherSides
  <2>2. v5' \in [ Requests -> IntentRequest ]
    BY <1>2, <1>4, <1>7
  <2>3. RequestsSide'
    BY <1>1, <1>7, <2>2 DEF RequestsSide
  <2> QED
    BY <2>1, <2>3, IntentTypeIsThen
<1>11. \A i \in DOMAIN v1 :
         v1[i].author \in Requests \cup {Intent!Automatic} /\ v1[i].version \in Nat
  BY SpecIs, Constants DEF Intent!IInv, Intent!Authors
<1>12. r # Intent!Automatic
  BY Constants
<1>13. Intent!RowsOK'
  <2>1. ASSUME NEW i \in DOMAIN v1'
        PROVE  IF v1'[i].author = Intent!Automatic THEN v1'[i].version = 1
               ELSE v5'[v1'[i].author].at \in { "created", "done", "refused" }
    <3>1. CASE i \in DOMAIN v1
      BY <1>4, <1>8, <1>9, <1>11, <3>1 DEF Intent!IInv, Intent!RowsOK
    <3>2. CASE i = Len(v1) + 1
      BY <1>3, <1>4, <1>8, <1>9, <1>12, <3>2
    <3> QED
      BY <1>8, <2>1, <3>1, <3>2
  <2>2. ASSUME NEW q \in Requests, v5'[q].at \in { "created", "done" }
        PROVE  \E i \in DOMAIN v1' :
                 v1'[i].author = q /\ v1'[i].version = v5'[q].version
    <3>1. CASE q = r
      BY <1>3, <1>4, <1>8, <1>9, <3>1
    <3>2. CASE q # r
      <4>1. PICK i \in DOMAIN v1 : v1[i].author = q /\ v1[i].version = v5[q].version
        BY <1>9, <2>2, <3>2 DEF Intent!IInv, Intent!RowsOK
      <4> QED
        BY <1>8, <1>9, <3>2, <4>1
    <3> QED
      BY <3>1, <3>2
  <2> QED
    BY <2>1, <2>2 DEF Intent!RowsOK
<1>14. Intent!VersionsOK'
  BY <1>4, <1>6, <1>9 DEF Intent!IInv, Intent!VersionsOK
<1>15. Intent!AloneOK'
  <2>1. \A p \in Requests : Intent!InProgress(p)' <=> Intent!InProgress(p)
    BY <1>1, <1>4, <1>9 DEF Intent!InProgress
  <2>2. Intent!InProgress(r)
    BY <1>1 DEF Intent!InProgress
  <2>3. SUFFICES ASSUME NEW q \in Requests, q \notin v8, Intent!InProgress(q)
        PROVE  /\ \A p \in Requests : Intent!InProgress(p) => p = q
               /\ v5'[q].at = "read" => \A i \in DOMAIN v1' : v1'[i].version <= v5'[q].version
               /\ v5'[q].at = "created" => \A i \in DOMAIN v1' :
                    v1'[i].version < v5'[q].version \/ v1'[i].author = q
    BY <1>1, <2>1 DEF Intent!AloneOK
  <2>4. q = r /\ \A p \in Requests : Intent!InProgress(p) => p = q
    BY <2>2, <2>3 DEF Intent!IInv, Intent!AloneOK
  <2>5. \A i \in DOMAIN v1 : v1[i].version <= v5[r].version
    BY <1>1, <2>3, <2>4 DEF Intent!IInv, Intent!AloneOK
  <2>6. \A i \in DOMAIN v1 : v1[i].version < n
    BY <1>5, <1>6, <1>11, <2>5
  <2> QED
    BY <1>3, <1>4, <1>8, <1>9, <2>4, <2>6
<1>16. Intent!NewestOK'
  <2>1. v9 # Intent!None => v9 \in Requests /\ v9 # r
    BY <1>1, <1>7 DEF Intent!IInv, RequestsSide, Intent!NewestOK
  <2>2. \A i \in DOMAIN v1 :
          v1[i].author # Intent!Automatic /\ v5[v1[i].author].at \in { "created", "refused" }
            => v5'[v1[i].author].at \in { "created", "refused" }
    BY <1>4, <1>9, <1>11
  <2>3. SUFFICES ASSUME v9 # Intent!None, v9 \notin v8, NEW i \in DOMAIN v1'
        PROVE  \/ v1'[i].version < v5[v9].version \/ v1'[i].author = v9
               \/ v1'[i].author # Intent!Automatic
                    /\ v5'[v1'[i].author].at \in { "created", "refused" }
    BY <1>1, <1>9, <2>1 DEF Intent!IInv, Intent!NewestOK
  <2>4. CASE i \in DOMAIN v1
    BY <1>8, <2>2, <2>3, <2>4 DEF Intent!IInv, Intent!NewestOK
  <2>5. CASE i = Len(v1) + 1
    BY <1>3, <1>4, <1>8, <1>9, <1>12, <2>5
  <2> QED
    BY <1>8, <2>3, <2>4, <2>5
<1>17. Intent!PublisherOK'
  <2>1. \A k :
          (\E i \in DOMAIN v1 : v1[i].version = k) => \E i \in DOMAIN v1' : v1'[i].version = k
    BY <1>8
  <2> QED
    BY <1>1, <2>1 DEF Intent!IInv, Intent!PublisherOK
<1> QED
  BY <1>10, <1>13, <1>14, <1>15, <1>16, <1>17 DEF Intent!IInv

LEMMA IntentAnswersStep ==
  ASSUME Intent!IntentsAssumption, Intent!IInv, NEW r \in Requests, Intent!Answers(r)
  PROVE  Intent!IInv'
<1> DEFINE c == [ v5[r] EXCEPT !.at = "done" ]
<1>1. /\ v5[r].at = "created" /\ v2' = v5[r].version /\ v9' = r
      /\ v5' = [ v5 EXCEPT ![r] = c ]
      /\ UNCHANGED << v1, v3, v4, v6, v7, v8 >>
  BY DEF Intent!Answers
<1>2. c \in IntentRequest /\ c.at = "done" /\ c.version = v5[r].version
  BY RequestIs DEF Intent!IInv, IntentRequest
<1> HIDE DEF c
<1>3. v5 \in [ Requests -> IntentRequest ] /\ OtherSides /\ RequestsSide
  BY IntentTypeIs DEF Intent!IInv, RequestsSide
<1>4. v5'[r] = c /\ \A q \in Requests : q # r => v5'[q] = v5[q]
  BY <1>1, <1>3
<1>5. v5[r].version \in Intent!Versions
  BY <1>1, RequestIs DEF Intent!IInv, Intent!VersionsOK
<1>6. Intent!TypeOK'
  <2>1. OtherSides'
    BY <1>1, <1>3, <1>5 DEF OtherSides
  <2>2. v5' \in [ Requests -> IntentRequest ]
    BY <1>1, <1>2, <1>3
  <2>3. RequestsSide'
    BY <1>1, <1>3, <2>2 DEF RequestsSide
  <2> QED
    BY <2>1, <2>3, IntentTypeIsThen
<1>7. \A i \in DOMAIN v1 : v1[i].author \in Requests \cup {Intent!Automatic}
  BY SpecIs DEF Intent!IInv, Intent!Authors
<1>8. Intent!RowsOK'
  <2>1. \A i \in DOMAIN v1 : v1[i].author # Intent!Automatic =>
          v5'[v1[i].author].at \in { "created", "done", "refused" }
    BY <1>2, <1>4, <1>7 DEF Intent!IInv, Intent!RowsOK
  <2>2. \A q \in Requests : v5'[q].version = v5[q].version
    BY <1>2, <1>4
  <2>3. \A q \in Requests :
          v5'[q].at \in { "created", "done" } => v5[q].at \in { "created", "done" }
    BY <1>1, <1>2, <1>4
  <2> QED
    BY <1>1, <2>1, <2>2, <2>3 DEF Intent!IInv, Intent!RowsOK
<1>9. Intent!VersionsOK'
  BY <1>1, <1>2, <1>4 DEF Intent!IInv, Intent!VersionsOK
<1>10. Intent!AloneOK'
  <2>1. ~Intent!InProgress(r)' /\ \A p \in Requests : p # r
          => (Intent!InProgress(p)' <=> Intent!InProgress(p))
    BY <1>2, <1>4 DEF Intent!InProgress
  <2> QED
    BY <1>1, <1>4, <2>1 DEF Intent!IInv, Intent!AloneOK
<1>11. Intent!NewestOK'
  <2>1. v5'[r].at = "done" /\ v2' = v5'[r].version
    BY <1>1, <1>2, <1>4
  <2>2. ASSUME r \notin v8, NEW i \in DOMAIN v1
        PROVE  v1[i].version < v5'[r].version \/ v1[i].author = r
    BY <1>1, <1>2, <1>4, <2>2 DEF Intent!IInv, Intent!AloneOK, Intent!InProgress
  <2> QED
    BY <1>1, <2>1, <2>2 DEF Intent!NewestOK
<1>12. Intent!PublisherOK'
  BY <1>1 DEF Intent!IInv, Intent!PublisherOK
<1> QED
  BY <1>6, <1>8, <1>9, <1>10, <1>11, <1>12 DEF Intent!IInv

LEMMA IntentInvNext ==
  ASSUME Intent!IntentsAssumption, Intent!IInv, [Intent!Next]_Intent!vars
  PROVE  Intent!IInv'
<1>1. CASE UNCHANGED Intent!vars
  <2>1. OtherSides' /\ Intent!PublisherOK'
    BY <1>1, IntentTypeIs DEF Intent!IInv, Intent!vars, OtherSides, Intent!PublisherOK
  <2> QED
    BY <1>1, <2>1, BesideStep DEF Intent!vars
<1>2. ASSUME NEW r \in Requests,
             Intent!Admits(r) \/ Intent!ReadsLatest(r) \/ Intent!Creates(r) \/ Intent!Answers(r)
               \/ Intent!Dies(r)
      PROVE  Intent!IInv'
  BY <1>2, AdmitsStep, ReadsLatestStep, IntentCreatesStep, IntentAnswersStep, IntentDiesStep
<1> QED
  BY <1>1, <1>2, IntentRunsStep, IntentImplementsStep, StatusAdvancesStep, PublishesStep,
     IntentOpensStep,
     AttemptFailsStep DEF Intent!Next

\* The row of the change that was acknowledged last is there: what is in force has no
\* lower version.
LEMMA Prevails == ASSUME Intent!IntentsAssumption, Intent!IInv PROVE Intent!ChangePrevails
<1> SUFFICES ASSUME v9 # Intent!None, v9 \notin v8
             PROVE  /\ \A i \in Intent!Latest :
                         \/ v1[i].author = v9
                         \/ \E r \in Requests : /\ v1[i].author = r
                                                /\ v5[r].at \in { "created", "refused" }
                    /\ v2 = v5[v9].version
  BY DEF Intent!ChangePrevails
<1>1. v9 \in Requests /\ v5[v9].at = "done" /\ v2 = v5[v9].version
  BY IntentTypeIs DEF Intent!IInv, Intent!NewestOK, RequestsSide
<1>2. PICK k \in DOMAIN v1 : v1[k].author = v9 /\ v1[k].version = v5[v9].version
  BY <1>1 DEF Intent!IInv, Intent!RowsOK
<1>3. ASSUME NEW i \in Intent!Latest
      PROVE  \/ v1[i].author = v9
             \/ \E r \in Requests : v1[i].author = r /\ v5[r].at \in { "created", "refused" }
  <2>1. /\ i \in DOMAIN v1 /\ v1[i].version \in Nat /\ v1[k].version \in Nat
        /\ v1[k].version <= v1[i].version /\ v1[i].author \in Requests \cup {Intent!Automatic}
    BY LatestIs, SpecIs, Constants DEF Intent!IInv, Intent!Authors
  <2>2. ~(v1[i].version < v5[v9].version)
    BY <1>2, <2>1
  <2>3. \/ v1[i].author = v9
        \/ v1[i].author # Intent!Automatic /\ v5[v1[i].author].at \in { "created", "refused" }
    BY <2>1, <2>2 DEF Intent!IInv, Intent!NewestOK
  <2> QED
    BY <2>1, <2>3
<1> QED
  BY <1>1, <1>3

LEMMA HasCode == ASSUME Intent!IInv PROVE Intent!HeadHasCode
<1> SUFFICES ASSUME v6.head # 0, \A i \in DOMAIN v1 : v1[i].author = Intent!Automatic
             PROVE  v6.head \in v7
  BY DEF Intent!HeadHasCode
<1>1. 1 \in v7 /\ \E i \in DOMAIN v1 : v1[i].version = v6.head
  BY DEF Intent!IInv, Intent!PublisherOK
<1>2. \A i \in DOMAIN v1 : v1[i].version = 1
  BY DEF Intent!IInv, Intent!RowsOK
<1> QED
  BY <1>1, <1>2

LEMMA IntentSteps ==
  ASSUME focus = "intent", [Next]_v
  PROVE  focus' = "intent" /\ [Intent!Next]_Intent!vars
  BY DEF Next, v, Intent!vars, Kept9

LEMMA IntentInvariant == Spec => [](focus = "intent" => Intent!IInv)
<1> DEFINE Inv == focus = "intent" => Intent!IInv
<1>1. Init => Inv
  BY IntentAssumption, IntentInvInit DEF Init
<1>2. Inv /\ [Next]_v => Inv'
  BY IntentAssumption, IntentInvNext, IntentSteps, FocusIsKept
<1> QED
  BY <1>1, <1>2, PTL DEF Spec

\* src/intent, src/dashboard/planning.py, src/publisher: however requests, the workflow
\* and the publication interleave, the change acknowledged last is the one in force when it
\* ran alone, and without one stored meanwhile the head of the pull request has the code.
THEOREM IntentPrevails == Spec => []IntentIsServed
<1>1. (focus = "intent" => Intent!IInv) => IntentIsServed
  BY Prevails, HasCode, IntentAssumption DEF IntentIsServed
<1> QED
  BY <1>1, IntentInvariant, PTL

(***************************************************************************)
(* SideActivities: What a run does beside its stages, in attempts that may *)
(* outlive their time.  Each status comment has an attempt of its own that *)
(* added it, and of two that kept their time the later has found that of   *)
(* the earlier. The variables: v1 jobs, v2 job, v3 attempt, v4 thread, v5  *)
(* rows, v6 events, v7 messages, v8 botched, v9 over, v10 troubles.        *)
(***************************************************************************)

\* The instance has its own finite sets and cardinalities, defined as those
\* that the library's theorems are about.
LEMMA AsideFinite ==
  /\ \A S : Aside!IsFiniteSet(S) = IsFiniteSet(S)
  /\ \A S : Aside!Cardinality(S) = Cardinality(S)
<1>1. \A S : Aside!IsFiniteSet(S) = IsFiniteSet(S)
  BY DEF Aside!IsFiniteSet, IsFiniteSet
<1>2. \A S : Aside!Cardinality(S) = Cardinality(S)
  BY DEF Aside!Cardinality, Cardinality
<1> QED
  BY <1>1, <1>2

\* What an attempt is: how far it has come and what it has found.
Cell == [ at : Aside!Steps \cup { "done", "lost" }, found : Nat ]

\* A job is its kind and its number.
LEMMA JobsAre ==
  ASSUME Aside!SideActivitiesAssumption
  PROVE  /\ \A j \in Aside!Jobs :
              /\ Aside!Kind(j) \in Aside!Kinds /\ Aside!Number(j) \in Nat \ {0}
                                  /\ j = << Aside!Kind(j), Aside!Number(j) >>
                                  /\ Aside!Number(j) \in Aside!Numbers
                                  /\ JobTries[Aside!Kind(j)] \in Nat \ {0}
         /\ \A i, j \in Aside!Jobs :
              Aside!Kind(i) = Aside!Kind(j) /\ Aside!Number(i) = Aside!Number(j) => i = j
         /\ \A p \in Plans : p \subseteq Aside!Jobs /\ Aside!IsFiniteSet(p)
         /\ Aside!Numbers \subseteq Nat \ {0}
<1>1. \A p \in Plans : p \subseteq Aside!Kinds \X (Nat \ {0})
  BY DEF Aside!SideActivitiesAssumption
<1>2. Aside!Jobs \subseteq Aside!Kinds \X (Nat \ {0})
  BY <1>1 DEF Aside!Jobs
<1>3. \A j \in Aside!Jobs :
        Aside!Kind(j) \in Aside!Kinds /\ Aside!Number(j) \in Nat \ {0}
          /\ j = << Aside!Kind(j), Aside!Number(j) >>
  BY <1>2 DEF Aside!Kind, Aside!Number
<1>4. JobTries \in [ Aside!Kinds -> Nat \ {0} ]
  BY DEF Aside!SideActivitiesAssumption
<1>5. \A i, j \in Aside!Jobs :
        Aside!Kind(i) = Aside!Kind(j) /\ Aside!Number(i) = Aside!Number(j) => i = j
  BY <1>3
<1>6. \A p \in Plans : p \subseteq Aside!Jobs /\ Aside!IsFiniteSet(p)
  BY DEF Aside!SideActivitiesAssumption, Aside!Jobs
<1>7. Aside!Numbers \subseteq Nat \ {0} /\ \A j \in Aside!Jobs : Aside!Number(j) \in Aside!Numbers
  BY <1>3 DEF Aside!Numbers
<1> QED
  BY <1>3, <1>4, <1>5, <1>6, <1>7

\* What is known of the state of a job.
LEMMA JobIs ==
  ASSUME Aside!SideActivitiesAssumption, Aside!TypeOK, NEW j \in Aside!Jobs
  PROVE  /\ v3[j] \in Seq(Cell) /\ Len(v3[j]) \in Nat
         /\ DOMAIN v3[j] = 1..Len(v3[j]) /\ Len(v3[j]) <= JobTries[Aside!Kind(j)]
         /\ v2[j] \in { "unasked", "running", "answered", "given_up" }
         /\ \A k \in DOMAIN v3[j] : v3[j][k] \in Cell /\ v3[j][k].found \in Nat
<1>1. v3 \in [ Aside!Jobs -> Seq(Cell) ]
  BY DEF Aside!TypeOK, Cell
<1>2. v3[j] \in Seq(Cell)
  BY <1>1
<1>3. Len(v3[j]) \in Nat /\ DOMAIN v3[j] = 1..Len(v3[j])
  BY <1>2
<1>4. \A k \in DOMAIN v3[j] : v3[j][k] \in Cell
  BY <1>2
<1>5. \A k \in DOMAIN v3[j] : v3[j][k].found \in Nat
  BY <1>4 DEF Cell
<1>6. v2[j] \in { "unasked", "running", "answered", "given_up" }
        /\ Len(v3[j]) <= JobTries[Aside!Kind(j)]
  BY DEF Aside!TypeOK
<1> QED
  BY <1>2, <1>3, <1>4, <1>5, <1>6

LEMMA PlanIs ==
  ASSUME Aside!SideActivitiesAssumption, Aside!TypeOK
  PROVE  v1 \in Plans /\ v1 \subseteq Aside!Jobs
  BY JobsAre DEF Aside!TypeOK

\* Late attempts and those at the comment, without the unions.
LEMMA LateIs ==
  ASSUME NEW kind
  PROVE  \A a : a \in Aside!Late(kind) <=>
           \E j \in Aside!Jobs : \E k \in DOMAIN v3[j] :
             /\ a = << j, k >> /\ Aside!Kind(j) = kind
             /\ k # Len(v3[j]) \/ v2[j] = "given_up"
  BY DEF Aside!Late

LEMMA LateIsThen ==
  ASSUME NEW CONSTANT kind
  PROVE  \A a : a \in Aside!Late(kind)' <=>
           \E j \in Aside!Jobs : \E k \in DOMAIN v3'[j] :
             /\ a = << j, k >> /\ Aside!Kind(j) = kind
             /\ k # Len(v3'[j]) \/ v2'[j] = "given_up"
  BY DEF Aside!Late

LEMMA LateOf ==
  ASSUME NEW kind, NEW j \in Aside!Jobs, NEW k \in DOMAIN v3[j]
  PROVE  << j, k >> \in Aside!Late(kind)
           <=> Aside!Kind(j) = kind /\ (k # Len(v3[j]) \/ v2[j] = "given_up")
<1>1. << j, k >> \in Aside!Late(kind) <=>
        \E i \in Aside!Jobs : \E h \in DOMAIN v3[i] :
          << j, k >> = << i, h >> /\ Aside!Kind(i) = kind
            /\ (h # Len(v3[i]) \/ v2[i] = "given_up")
  BY LateIs
<1>2. \A i, h : << j, k >> = << i, h >> <=> j = i /\ k = h
  OBVIOUS
<1> QED
  BY <1>1, <1>2

LEMMA TriedIs ==
  \A a :
    a \in Aside!Tried
      <=> \E j \in Aside!Jobs : \E k \in DOMAIN v3[j] : a = << j, k >>
        /\ Aside!Kind(j) = "comment"
  BY DEF Aside!Tried

LEMMA TriedIsThen ==
  \A a :
    a \in Aside!Tried'
      <=> \E j \in Aside!Jobs : \E k \in DOMAIN v3'[j] : a = << j, k >>
        /\ Aside!Kind(j) = "comment"
  BY DEF Aside!Tried

\* Where the attempts are the same in number and nobody gives up, none becomes late.
LEMMA LateStays ==
  ASSUME NEW CONSTANT kind,
         \A i \in Aside!Jobs : DOMAIN v3'[i] = DOMAIN v3[i] /\ Len(v3'[i]) = Len(v3[i]),
         \A i \in Aside!Jobs : v2'[i] = "given_up" <=> v2[i] = "given_up"
  PROVE  Aside!Late(kind)' = Aside!Late(kind) /\ Aside!Tried' = Aside!Tried
<1>1. ASSUME NEW a PROVE a \in Aside!Late(kind)' <=> a \in Aside!Late(kind)
  BY LateIs, LateIsThen
<1>2. ASSUME NEW a PROVE a \in Aside!Tried' <=> a \in Aside!Tried
  BY TriedIs, TriedIsThen
<1> QED
  BY <1>1, <1>2

-----------------------------------------------------------------------------
\* One attempt goes on; the others stay as they are.
LEMMA GoesIs ==
  ASSUME Aside!SideActivitiesAssumption, Aside!TypeOK, NEW j \in Aside!Jobs,
         NEW k \in DOMAIN v3[j],
         NEW to \in Aside!Steps \cup { "done", "lost" }, NEW f \in Nat, Aside!Goes(j, k, to, f)
  PROVE  /\ v3' \in [ Aside!Jobs -> Seq(Cell) ]
         /\ \A i \in Aside!Jobs : /\ DOMAIN v3'[i] = DOMAIN v3[i]
                                  /\ Len(v3'[i]) = Len(v3[i])
                                  /\ i # j => v3'[i] = v3[i]
         /\ v3'[j][k].at = to /\ v3'[j][k].found = f
         /\ \A h \in DOMAIN v3[j] : h # k => v3'[j][h] = v3[j][h]
<1> DEFINE c == [ at |-> to, found |-> f ]
           s == [ v3[j] EXCEPT ![k] = c ]
<1>1. v3 \in [ Aside!Jobs -> Seq(Cell) ]
  BY DEF Aside!TypeOK, Cell
<1>2. c \in Cell /\ c.at = to /\ c.found = f
  BY DEF Cell
<1>3. v3' = [ v3 EXCEPT ![j] = s ]
  BY DEF Aside!Goes
<1> HIDE DEF c
<1>4. v3[j] \in Seq(Cell)
  BY <1>1
<1>5. s \in Seq(Cell) /\ Len(s) = Len(v3[j]) /\ DOMAIN s = DOMAIN v3[j]
  BY <1>2, <1>4
<1>6. s[k] = c /\ \A h \in DOMAIN v3[j] : h # k => s[h] = v3[j][h]
  BY <1>2, <1>4
<1> HIDE DEF s
<1>7. v3'[j] = s /\ \A i \in Aside!Jobs : i # j => v3'[i] = v3[i]
  BY <1>1, <1>3
<1>8. v3' \in [ Aside!Jobs -> Seq(Cell) ]
  BY <1>1, <1>3, <1>5
<1> QED
  BY <1>2, <1>5, <1>6, <1>7, <1>8

\* Another attempt of a job is the last one, and has found nothing.
LEMMA StartsIs ==
  ASSUME Aside!SideActivitiesAssumption, Aside!TypeOK, NEW j \in Aside!Jobs, Aside!Starts(j)
  PROVE  /\ v3' \in [ Aside!Jobs -> Seq(Cell) ]
         /\ \A i \in Aside!Jobs : i # j => v3'[i] = v3[i]
         /\ Len(v3'[j]) = Len(v3[j]) + 1
         /\ DOMAIN v3'[j] = 1..(Len(v3[j]) + 1)
         /\ \A h \in DOMAIN v3[j] : h \in DOMAIN v3'[j] /\ v3'[j][h] = v3[j][h]
         /\ \A h \in DOMAIN v3'[j] \ DOMAIN v3[j] :
              /\ h = Len(v3'[j]) /\ v3'[j][h].at = Aside!First(Aside!Kind(j))
              /\ v3'[j][h].found = 0
<1> DEFINE c == [ at |-> Aside!First(Aside!Kind(j)), found |-> 0 ]
           s == Append(v3[j], c)
<1>1. v3 \in [ Aside!Jobs -> Seq(Cell) ]
  BY DEF Aside!TypeOK, Cell
<1>2. c \in Cell /\ c.at = Aside!First(Aside!Kind(j)) /\ c.found = 0
  <2>1. Aside!First(Aside!Kind(j)) \in Aside!Steps
    BY DEF Aside!First, Aside!Steps
  <2> QED
    BY <2>1 DEF Cell
<1>3. v3' = [ v3 EXCEPT ![j] = s ]
  BY DEF Aside!Starts
<1> HIDE DEF c
<1>4. v3[j] \in Seq(Cell)
  BY <1>1
<1>5. s \in Seq(Cell) /\ Len(s) = Len(v3[j]) + 1 /\ DOMAIN s = 1..(Len(v3[j]) + 1)
  BY <1>2, <1>4
<1>6. s[Len(v3[j]) + 1] = c /\ \A h \in DOMAIN v3[j] : h \in DOMAIN s /\ s[h] = v3[j][h]
  BY <1>2, <1>4
<1>7. \A h \in DOMAIN s \ DOMAIN v3[j] : h = Len(v3[j]) + 1
  BY <1>4, <1>5
<1> HIDE DEF s
<1>8. v3'[j] = s /\ \A i \in Aside!Jobs : i # j => v3'[i] = v3[i]
  BY <1>1, <1>3
<1>9. v3' \in [ Aside!Jobs -> Seq(Cell) ]
  BY <1>1, <1>3, <1>5
<1> QED
  BY <1>2, <1>5, <1>6, <1>7, <1>8, <1>9

\* A worker that dies takes with it what it was at; what is done is done.
LEMMA WorkerDiesIs ==
  ASSUME Aside!SideActivitiesAssumption, Aside!TypeOK, Aside!WorkerDies
  PROVE  /\ v3' \in [ Aside!Jobs -> Seq(Cell) ]
         /\ \A i \in Aside!Jobs :
              /\ DOMAIN v3'[i] = DOMAIN v3[i] /\ Len(v3'[i]) = Len(v3[i])
              /\ \A h \in DOMAIN v3[i] :
                   /\ v3'[i][h].found = v3[i][h].found
                   /\ IF v3[i][h].at = "done" THEN v3'[i][h] = v3[i][h]
                                                   ELSE v3'[i][h].at = "lost"
<1> DEFINE c(i, h) == IF v3[i][h].at = "done" THEN v3[i][h]
                                                   ELSE [ v3[i][h] EXCEPT !.at = "lost" ]
           s(i) == [ h \in DOMAIN v3[i] |-> c(i, h) ]
<1>1. v3' = [ i \in Aside!Jobs |-> s(i) ]
  BY DEF Aside!WorkerDies
<1>2. ASSUME NEW i \in Aside!Jobs
      PROVE  /\ s(i) \in Seq(Cell) /\ DOMAIN s(i) = DOMAIN v3[i] /\ Len(s(i)) = Len(v3[i])
             /\ \A h \in DOMAIN v3[i] :
                  /\ s(i)[h].found = v3[i][h].found
                  /\ IF v3[i][h].at = "done" THEN s(i)[h] = v3[i][h] ELSE s(i)[h].at = "lost"
  <2>1. v3[i] \in Seq(Cell) /\ DOMAIN v3[i] = 1..Len(v3[i]) /\ Len(v3[i]) \in Nat
    BY <1>2, JobIs
  <2>2. ASSUME NEW h \in DOMAIN v3[i]
        PROVE  /\ c(i, h) \in Cell /\ c(i, h).found = v3[i][h].found
               /\ IF v3[i][h].at = "done" THEN c(i, h) = v3[i][h] ELSE c(i, h).at = "lost"
    <3>1. v3[i][h] \in Cell
      BY <2>1, <2>2
    <3> QED
      BY <3>1 DEF Cell
  <2> HIDE DEF c
  <2>3. \A h \in DOMAIN v3[i] : s(i)[h] = c(i, h)
    OBVIOUS
  <2>4. s(i) \in [ 1..Len(v3[i]) -> Cell ]
    BY <2>1, <2>2
  <2>5. s(i) \in Seq(Cell) /\ Len(s(i)) = Len(v3[i])
    BY <2>1, <2>4
  <2> QED
    BY <2>2, <2>3, <2>5
<1> HIDE DEF s
<1>3. \A i \in Aside!Jobs : v3'[i] = s(i)
  BY <1>1
<1>4. v3' \in [ Aside!Jobs -> Seq(Cell) ]
  BY <1>1, <1>2
<1> QED
  BY <1>2, <1>3, <1>4

\* The attempt that returns keeps what it has found; the job is answered at most.
LEMMA ReturnsIs ==
  ASSUME Aside!SideActivitiesAssumption, Aside!TypeOK, NEW j \in Aside!Jobs,
         NEW k \in DOMAIN v3[j], Aside!Returns(j, k)
  PROVE  /\ v3' \in [ Aside!Jobs -> Seq(Cell) ]
         /\ \A i \in Aside!Jobs : DOMAIN v3'[i] = DOMAIN v3[i] /\ Len(v3'[i]) = Len(v3[i])
         /\ \A i \in Aside!Jobs : i # j => v3'[i] = v3[i]
         /\ v3'[j][k].at = "done" /\ v3'[j][k].found = v3[j][k].found
         /\ \A h \in DOMAIN v3[j] : h # k => v3'[j][h] = v3[j][h]
         /\ v2' \in [ Aside!Jobs -> { "unasked", "running", "answered", "given_up" } ]
         /\ \A i \in Aside!Jobs : i # j => v2'[i] = v2[i]
         /\ v2'[j] = IF v2[j] = "running" /\ k = Len(v3[j]) THEN "answered" ELSE v2[j]
<1>1. v3[j][k].found \in Nat
  BY JobIs
<1> DEFINE f == v3[j][k].found
<1>2. Aside!Goes(j, k, "done", f) /\ "done" \in Aside!Steps \cup { "done", "lost" }
  BY DEF Aside!Returns
<1> HIDE DEF f
<1>3. f \in Nat
  BY <1>1 DEF f
<1>4. /\ v3' \in [ Aside!Jobs -> Seq(Cell) ]
      /\ \A i \in Aside!Jobs : /\ DOMAIN v3'[i] = DOMAIN v3[i]
                               /\ Len(v3'[i]) = Len(v3[i])
                               /\ i # j => v3'[i] = v3[i]
      /\ v3'[j][k].at = "done" /\ v3'[j][k].found = f
      /\ \A h \in DOMAIN v3[j] : h # k => v3'[j][h] = v3[j][h]
  BY <1>2, <1>3, GoesIs, Zenon
<1>5. v2 \in [ Aside!Jobs -> { "unasked", "running", "answered", "given_up" } ]
  BY DEF Aside!TypeOK
<1>6. /\ v2' \in [ Aside!Jobs -> { "unasked", "running", "answered", "given_up" } ]
      /\ \A i \in Aside!Jobs : i # j => v2'[i] = v2[i]
      /\ v2'[j] = IF v2[j] = "running" /\ k = Len(v3[j]) THEN "answered" ELSE v2[j]
  BY <1>5 DEF Aside!Returns
<1> QED
  BY <1>4, <1>6 DEF f

-----------------------------------------------------------------------------
\* What leaves the comments of the issue and what is at work on them as they are, except
\* that attempts start, are lost or outlive their time.
CalmComments ==
  /\ v4' = v4 /\ v8 \subseteq v8'
  /\ \A j \in Aside!Jobs : Aside!Kind(j) = "comment" =>
       /\ \A h \in DOMAIN v3[j] :
            /\ h \in DOMAIN v3'[j]
            /\ v3[j][h].at = "done" => v3'[j][h] = v3[j][h]
       /\ \A h \in DOMAIN v3'[j] :
            v3'[j][h].at = "write" => h \in DOMAIN v3[j] /\ v3'[j][h] = v3[j][h]
  /\ Aside!Late("comment") \subseteq Aside!Late("comment")'
  /\ Aside!Late("comment")' = {} =>
       \A j \in Aside!Jobs :
         Aside!Kind(j) = "comment" /\ v2'[j] = "answered" => v2[j] = "answered"

LEMMA CalmStep ==
  ASSUME Aside!AddersOK, Aside!CommentsOK, CalmComments
  PROVE  Aside!AddersOK' /\ Aside!CommentsOK'
<1> DEFINE L == Aside!Late("comment")
           M == Aside!Late("comment")'
<1>1. Aside!Statuses' = Aside!Statuses /\ v4' = v4 /\ L \subseteq M
  BY DEF CalmComments, Aside!Statuses
<1>2. \A a \in Aside!Tried : /\ a \in Aside!Tried'
                             /\ v3[a[1]][a[2]].at = "done" => v3'[a[1]][a[2]] = v3[a[1]][a[2]]
  BY TriedIs, TriedIsThen DEF CalmComments
<1>3. \A a \in Aside!Tried' : v3'[a[1]][a[2]].at = "write" =>
                          a \in Aside!Tried /\ v3'[a[1]][a[2]] = v3[a[1]][a[2]]
  BY TriedIs, TriedIsThen DEF CalmComments
<1>4. PICK adders \in SUBSET Aside!Tried :
        /\ Aside!IsFiniteSet(adders)
        /\ Aside!Cardinality(adders) = Aside!Cardinality(Aside!Statuses)
        /\ \A a \in adders : v3[a[1]][a[2]].at = "done"
        /\ \/ \E i \in Aside!Statuses : i > CommentsPerPage
           \/ /\ \A a, b \in adders \ L : a = b
              /\ \A a \in Aside!Tried \ L :
                   v3[a[1]][a[2]].at = "write" /\ v3[a[1]][a[2]].found = 0 => adders \subseteq L
  BY DEF Aside!AddersOK
<1>5. Aside!AddersOK'
  <2>1. adders \in SUBSET Aside!Tried' /\ \A a \in adders : v3'[a[1]][a[2]].at = "done"
    BY <1>2, <1>4
  <2>2. Aside!IsFiniteSet(adders)
          /\ Aside!Cardinality(adders) = Aside!Cardinality(Aside!Statuses')
    BY <1>1, <1>4
  <2>3. CASE \E i \in Aside!Statuses : i > CommentsPerPage
    BY <1>1, <2>1, <2>2, <2>3 DEF Aside!AddersOK
  <2>4. CASE ~\E i \in Aside!Statuses : i > CommentsPerPage
    <3>1. \A a, b \in adders \ M : a = b
      BY <1>1, <1>4, <2>4
    <3>2. \A a \in Aside!Tried' \ M :
            v3'[a[1]][a[2]].at = "write" /\ v3'[a[1]][a[2]].found = 0 => adders \subseteq M
      BY <1>1, <1>3, <1>4, <2>4
    <3> QED
      BY <2>1, <2>2, <3>1, <3>2 DEF Aside!AddersOK
  <2> QED
    BY <2>3, <2>4
<1>6. Aside!CommentsOK'
  <2>1. \A a \in Aside!Tried' : v3'[a[1]][a[2]].at = "write" =>
          v3'[a[1]][a[2]].found \in {0} \cup Aside!Statuses'
    BY <1>1, <1>3 DEF Aside!CommentsOK
  <2>2. M = {}
          => \A j \in Aside!Jobs : Aside!Kind(j) = "comment" /\ v2'[j] = "answered"
            /\ << j, 1 >> \notin v8'
                    => \E i \in Aside!Statuses' : v4'[i] >= Aside!Number(j)
    BY <1>1 DEF Aside!CommentsOK, CalmComments
  <2> QED
    BY <2>1, <2>2 DEF Aside!CommentsOK
<1> QED
  BY <1>5, <1>6

AsideSmallerOf == { p \in Nat \X Nat : p[1] < p[2] }

\* Every set of numbers that is not empty has a least.
LEMMA AsideLeastOf == ASSUME NEW S, S \subseteq Nat, S # {} PROVE \E s \in S : \A t \in S : s <= t
<1>1. IsWellFoundedOn(AsideSmallerOf, Nat)
  BY NatLessThanWellFounded DEF AsideSmallerOf, OpToRel
<1>2. PICK s \in S : \A t \in S : ~(<< t, s >> \in AsideSmallerOf)
  BY <1>1, WFMin
<1>3. ASSUME NEW t \in S PROVE s <= t
  <2>1. t \in Nat /\ s \in Nat /\ ~(t < s)
    BY <1>2 DEF AsideSmallerOf
  <2> QED
    BY <2>1
<1> QED
  BY <1>3

\* The first of the comments with the marker, if there is one on the page.
LEMMA FirstIs ==
  ASSUME Aside!SideActivitiesAssumption, v4 \in Seq({0} \cup Aside!Numbers)
  PROVE  /\ Aside!FirstMarked \in {0} \cup Aside!Statuses
         /\ Aside!FirstMarked = 0 => \A i \in Aside!Statuses : i > CommentsPerPage
<1>1. CommentsPerPage \in Nat /\ DOMAIN v4 = 1..Len(v4) /\ Len(v4) \in Nat
  BY DEF Aside!SideActivitiesAssumption
<1>2. Aside!Marked \subseteq Nat \ {0} /\ Aside!Marked \subseteq Aside!Statuses
  BY <1>1 DEF Aside!Marked, Aside!Statuses
<1>3. CASE Aside!Marked = {}
  <2>1. \A i \in Aside!Statuses : i \in DOMAIN v4 /\ ~(i <= CommentsPerPage) /\ i \in Nat
    BY <1>1, <1>3 DEF Aside!Marked, Aside!Statuses
  <2> QED
    BY <1>1, <1>3, <2>1 DEF Aside!FirstMarked
<1>4. CASE Aside!Marked # {}
  <2>3. \E x \in Aside!Marked : \A y \in Aside!Marked : x <= y
    BY <1>2, <1>4, AsideLeastOf
  <2>4. Aside!FirstMarked \in Aside!Marked
    BY <1>4, <2>3 DEF Aside!FirstMarked
  <2> QED
    BY <1>2, <2>4
<1> QED
  BY <1>3, <1>4

\* What an attempt that has come to write does to the comments.
LEMMA AsideWrittenIs ==
  ASSUME Aside!SideActivitiesAssumption, Aside!TypeOK, NEW j \in Aside!Jobs,
         NEW k \in DOMAIN v3[j],
         v3[j][k].found \in {0} \cup Aside!Statuses, v4' = Aside!Written(j, k)
  PROVE  /\ v4' \in Seq({0} \cup Aside!Numbers)
         /\ \E w \in Aside!Statuses' : v4'[w] = Aside!Number(j)
         /\ \A i \in Aside!Statuses :
              i \in Aside!Statuses' /\ (v4'[i] = v4[i] \/ v4'[i] = Aside!Number(j))
         /\ IF v3[j][k].found = 0
              THEN \E w : w \notin Aside!Statuses /\ Aside!Statuses' = Aside!Statuses \cup {w}
              ELSE Aside!Statuses' = Aside!Statuses
<1> DEFINE f == v3[j][k].found
           n == Aside!Number(j)
<1>1. v4 \in Seq({0} \cup Aside!Numbers)
  BY DEF Aside!TypeOK
<1>2. n \in Aside!Numbers /\ n # 0 /\ n \in Nat
  BY JobsAre
<1>3. DOMAIN v4 = 1..Len(v4) /\ Len(v4) \in Nat
  BY <1>1
<1>4. CASE f = 0
  <2> DEFINE w == Len(v4) + 1
  <2>1. v4' = Append(v4, n)
    BY <1>4 DEF Aside!Written
  <2> HIDE DEF n
  <2>2. v4' \in Seq({0} \cup Aside!Numbers) /\ DOMAIN v4' = 1..w /\ v4'[w] = n
        /\ \A i \in DOMAIN v4 : v4'[i] = v4[i]
    BY <1>1, <1>2, <2>1
  <2>3. 1..w = 1..Len(v4) \cup {w} /\ w \notin 1..Len(v4)
    BY <1>3
  <2>4. Aside!Statuses' = Aside!Statuses \cup {w} /\ w \notin Aside!Statuses
    BY <1>2, <1>3, <2>2, <2>3 DEF Aside!Statuses
  <2> QED
    BY <1>4, <2>2, <2>4 DEF n, Aside!Statuses
<1>5. CASE f # 0
  <2>1. f \in Aside!Statuses /\ f \in DOMAIN v4
    BY <1>5 DEF Aside!Statuses
  <2>2. v4' = [ v4 EXCEPT ![f] = n ]
    BY <1>5 DEF Aside!Written
  <2> HIDE DEF n, f
  <2>3. v4' \in Seq({0} \cup Aside!Numbers) /\ DOMAIN v4' = DOMAIN v4 /\ v4'[f] = n
        /\ \A i \in DOMAIN v4 : i # f => v4'[i] = v4[i]
    BY <1>1, <1>2, <2>1, <2>2
  <2>4. Aside!Statuses' = Aside!Statuses
    BY <1>2, <2>1, <2>3 DEF Aside!Statuses
  <2> QED
    BY <1>5, <2>1, <2>3, <2>4 DEF n, f, Aside!Statuses
<1> QED
  BY <1>4, <1>5

\* Of the attempts at the comment one at most that has not outlived its time is at work.
LEMMA OneAtWork ==
  ASSUME Aside!SideActivitiesAssumption, Aside!TypeOK, Aside!AttemptsOK, Aside!OrderOK,
         NEW i \in Aside!Jobs, NEW j \in Aside!Jobs, Aside!Kind(i) = "comment",
         Aside!Kind(j) = "comment",
         NEW h \in DOMAIN v3[i], NEW k \in DOMAIN v3[j],
         << i, h >> \notin Aside!Late("comment"), << j, k >> \notin Aside!Late("comment"),
         v3[i][h].at # "done", v3[j][k].at # "done"
  PROVE  i = j /\ h = k
<1>1. h = Len(v3[i]) /\ k = Len(v3[j]) /\ v2[i] # "given_up" /\ v2[j] # "given_up"
  BY LateIs
<1>2. v3[i] # << >> /\ v3[j] # << >>
  BY JobIs
<1>3. v2[i] \notin { "unasked", "answered" } /\ v2[j] \notin { "unasked", "answered" }
      /\ i \in v1 /\ j \in v1
  BY <1>1, <1>2 DEF Aside!AttemptsOK
<1>4. ~(Aside!Number(i) < Aside!Number(j)) /\ ~(Aside!Number(j) < Aside!Number(i))
  BY <1>1, <1>3 DEF Aside!OrderOK
<1>5. Aside!Number(i) \in Nat /\ Aside!Number(j) \in Nat
  BY JobsAre
<1>6. i = j
  BY <1>4, <1>5, JobsAre
<1> QED
  BY <1>1, <1>6

\* While none has outlived its time, the update at work is none older than one answered.
LEMMA NoneIsNewer ==
  ASSUME Aside!SideActivitiesAssumption, Aside!TypeOK, Aside!AttemptsOK, Aside!OrderOK,
         Aside!Late("comment") = {},
         NEW i \in Aside!Jobs, NEW j \in Aside!Jobs, Aside!Kind(i) = "comment",
         Aside!Kind(j) = "comment",
         NEW k \in DOMAIN v3[j], v3[j][k].at # "done", v2[i] = "answered"
  PROVE  k = 1 /\ Aside!Number(i) <= Aside!Number(j)
<1>1. k = Len(v3[j]) /\ v2[j] # "given_up"
  BY LateIs
<1>2. v3[j] # << >> /\ 1 \in DOMAIN v3[j]
  BY JobIs
<1>3. 1 = Len(v3[j])
  <2>1. << j, 1 >> \notin Aside!Late("comment")
    OBVIOUS
  <2> QED
    BY <1>2, <2>1, LateOf
<1>4. v2[j] # "answered" /\ j \in v1 /\ i \in v1 /\ v2[i] # "unasked"
  BY <1>1, <1>2 DEF Aside!AttemptsOK
<1>5. ~(Aside!Number(j) < Aside!Number(i))
  BY <1>1, <1>4 DEF Aside!OrderOK
<1>6. Aside!Number(i) \in Nat /\ Aside!Number(j) \in Nat
  BY JobsAre
<1> QED
  BY <1>1, <1>3, <1>5, <1>6

LEMMA StatusesFinite ==
  ASSUME Aside!SideActivitiesAssumption, Aside!TypeOK
  PROVE  Aside!IsFiniteSet(Aside!Statuses)
<1>1. DOMAIN v4 = 1..Len(v4) /\ Len(v4) \in Nat
  BY DEF Aside!TypeOK
<1>2. Aside!Statuses \subseteq 1..Len(v4) /\ Aside!IsFiniteSet(1..Len(v4))
  BY AsideFinite, <1>1, FS_Interval DEF Aside!Statuses
<1> QED
  BY AsideFinite, <1>2, FS_Subset

\* An attempt at the comment comes back with its status written, or with a mishap noted.
LEMMA AsideReturnsStep ==
  ASSUME Aside!SideActivitiesAssumption, Aside!TypeOK, Aside!AttemptsOK, Aside!OrderOK,
         Aside!AddersOK, Aside!CommentsOK,
         NEW j \in Aside!Jobs, NEW k \in DOMAIN v3[j], Aside!Kind(j) = "comment",
         v3[j][k].at \in { "list", "write" }, Aside!Returns(j, k), v8 \subseteq v8',
         \/ v3[j][k].at = "write" /\ v4' = Aside!Written(j, k)
         \/ v4' = v4 /\ << j, k >> \in v8'
  PROVE  Aside!AddersOK' /\ Aside!CommentsOK'
<1> DEFINE L == Aside!Late("comment")
           a0 == << j, k >>
<1>1. /\ \A i \in Aside!Jobs : DOMAIN v3'[i] = DOMAIN v3[i] /\ Len(v3'[i]) = Len(v3[i])
      /\ \A i \in Aside!Jobs : i # j => v3'[i] = v3[i]
      /\ v3'[j][k].at = "done" /\ v3'[j][k].found = v3[j][k].found
      /\ \A h \in DOMAIN v3[j] : h # k => v3'[j][h] = v3[j][h]
  BY ReturnsIs
<1>2. /\ \A i \in Aside!Jobs : v2'[i] = "given_up" <=> v2[i] = "given_up"
      /\ \A i \in Aside!Jobs : i # j => v2'[i] = v2[i]
  BY DEF Aside!Returns, Aside!TypeOK
<1>3. L' = L
  BY <1>1, <1>2, LateStays
<1>4. Aside!Tried' = Aside!Tried /\ a0 \in Aside!Tried
  BY <1>1, <1>2, LateStays, TriedIs
<1>5. \A a \in Aside!Tried : a # a0 => v3'[a[1]][a[2]] = v3[a[1]][a[2]]
  BY <1>1, TriedIs
<1>6. v3[j][k].at = "write" => v3[j][k].found \in {0} \cup Aside!Statuses
  BY <1>4 DEF Aside!CommentsOK
<1>7. /\ \A i \in Aside!Statuses :
           i \in Aside!Statuses' /\ (v4'[i] = v4[i] \/ v4'[i] = Aside!Number(j))
      /\ v4' # v4 => \E w \in Aside!Statuses' : v4'[w] = Aside!Number(j)
      /\ \/ Aside!Statuses' = Aside!Statuses
         \/ /\ v3[j][k].at = "write" /\ v3[j][k].found = 0
            /\ \E w : w \notin Aside!Statuses /\ Aside!Statuses' = Aside!Statuses \cup {w}
  <2>1. CASE v3[j][k].at = "write" /\ v4' = Aside!Written(j, k)
    BY <1>6, <2>1, AsideWrittenIs
  <2>2. CASE v4' = v4
    BY <2>2 DEF Aside!Statuses
  <2> QED
    BY <2>1, <2>2
<1>8. PICK adders \in SUBSET Aside!Tried :
        /\ Aside!IsFiniteSet(adders)
        /\ Aside!Cardinality(adders) = Aside!Cardinality(Aside!Statuses)
        /\ \A a \in adders : v3[a[1]][a[2]].at = "done"
        /\ \/ \E i \in Aside!Statuses : i > CommentsPerPage
           \/ /\ \A a, b \in adders \ L : a = b
              /\ \A a \in Aside!Tried \ L :
                   v3[a[1]][a[2]].at = "write" /\ v3[a[1]][a[2]].found = 0 => adders \subseteq L
  BY DEF Aside!AddersOK
<1>9. Aside!AddersOK'
  <2>1. a0 \notin adders
    BY <1>8
  <2>2. CASE Aside!Statuses' = Aside!Statuses
    <3>1. \A a \in adders : v3'[a[1]][a[2]].at = "done"
      BY <1>5, <1>8, <2>1
    <3>2. \A a \in Aside!Tried \ L :
            v3'[a[1]][a[2]].at = "write" => a # a0 /\ v3'[a[1]][a[2]] = v3[a[1]][a[2]]
      BY <1>1, <1>5
    <3> QED
      BY <1>3, <1>4, <1>8, <2>2, <3>1, <3>2 DEF Aside!AddersOK
  <2>3. CASE /\ v3[j][k].at = "write" /\ v3[j][k].found = 0
             /\ \E w : w \notin Aside!Statuses /\ Aside!Statuses' = Aside!Statuses \cup {w}
    <3> DEFINE more == adders \cup {a0}
    <3>1. PICK w : w \notin Aside!Statuses /\ Aside!Statuses' = Aside!Statuses \cup {w}
      BY <2>3
    <3>2. Aside!IsFiniteSet(Aside!Statuses)
      BY StatusesFinite
    <3>3. Aside!IsFiniteSet(more) /\ Aside!Cardinality(more) = Aside!Cardinality(Aside!Statuses')
      <4>1. Aside!IsFiniteSet(more) /\ Aside!Cardinality(more) = Aside!Cardinality(adders) + 1
        BY AsideFinite, <1>8, <2>1, FS_AddElement
      <4>2. Aside!Cardinality(Aside!Statuses \cup {w}) = Aside!Cardinality(Aside!Statuses) + 1
        BY AsideFinite, <3>1, <3>2, FS_AddElement
      <4> QED
        BY <1>8, <3>1, <4>1, <4>2
    <3>4. more \in SUBSET Aside!Tried' /\ \A a \in more : v3'[a[1]][a[2]].at = "done"
      BY <1>1, <1>4, <1>5, <1>8, <2>1
    <3>5. CASE \E i \in Aside!Statuses : i > CommentsPerPage
      BY <1>7, <3>3, <3>4, <3>5 DEF Aside!AddersOK
    <3>6. CASE ~\E i \in Aside!Statuses : i > CommentsPerPage
      <4>1. a0 \notin L => adders \subseteq L
        BY <1>4, <1>8, <2>3, <3>6
      <4>2. \A a, b \in more \ L' : a = b
        BY <1>3, <1>8, <3>6, <4>1
      <4>3. ASSUME NEW a \in Aside!Tried' \ L',
                   v3'[a[1]][a[2]].at = "write" /\ v3'[a[1]][a[2]].found = 0
            PROVE  more \subseteq L'
        <5>1. a # a0 /\ a \in Aside!Tried \ L
          BY <1>1, <1>3, <1>4, <4>3
        <5>2. v3[a[1]][a[2]].at = "write" /\ v3[a[1]][a[2]].found = 0
          BY <1>5, <4>3, <5>1
        <5>3. adders \subseteq L
          BY <1>8, <3>6, <5>1, <5>2
        <5>4. a0 \in L
          <6>1. SUFFICES ASSUME a0 \notin L PROVE FALSE
            OBVIOUS
          <6>2. PICK i \in Aside!Jobs :
                  \E h \in DOMAIN v3[i] : a = << i, h >> /\ Aside!Kind(i) = "comment"
            BY <5>1, TriedIs
          <6>3. PICK h \in DOMAIN v3[i] : a = << i, h >> /\ Aside!Kind(i) = "comment"
            BY <6>2
          <6>4. << i, h >> \notin L /\ v3[i][h].at # "done"
            BY <5>1, <5>2, <6>3
          <6>5. i = j /\ h = k
            BY <2>3, <6>1, <6>3, <6>4, OneAtWork
          <6> QED
            BY <5>1, <6>3, <6>5
        <5> QED
          BY <1>3, <5>3, <5>4
      <4> QED
        BY <3>3, <3>4, <4>2, <4>3 DEF Aside!AddersOK
    <3> QED
      BY <3>5, <3>6
  <2> QED
    BY <1>7, <2>2, <2>3
<1>10. \A a \in Aside!Tried' : v3'[a[1]][a[2]].at = "write" =>
         v3'[a[1]][a[2]].found \in {0} \cup Aside!Statuses'
  BY <1>1, <1>4, <1>5, <1>7 DEF Aside!CommentsOK
<1>11. ASSUME L' = {}, NEW i \in Aside!Jobs, Aside!Kind(i) = "comment", v2'[i] = "answered",
       << i, 1 >> \notin v8'
       PROVE  \E w \in Aside!Statuses' : v4'[w] >= Aside!Number(i)
  <2>1. L = {} /\ Aside!Number(i) \in Nat /\ Aside!Number(j) \in Nat
    BY <1>3, <1>11, JobsAre
  <2>2. CASE i = j
    <3>1. k = 1
      <4>1. k \in DOMAIN v3[j] /\ 1 \in DOMAIN v3[j] /\ k \in Nat
        BY JobIs
      <4>2. k = Len(v3[j]) /\ 1 = Len(v3[j])
        BY <2>1, <4>1, LateOf
      <4> QED
        BY <4>2
    <3>2. v3[j][k].at = "write" /\ v4' = Aside!Written(j, k)
      BY <1>11, <2>2, <3>1
    <3> QED
      BY <1>6, <2>1, <2>2, <3>2, AsideWrittenIs
  <2>3. CASE i # j
    <3>1. v2[i] = "answered" /\ << i, 1 >> \notin v8
      BY <1>2, <1>11, <2>3
    <3>2. Aside!Number(i) <= Aside!Number(j)
      BY <2>1, <3>1, <1>11, NoneIsNewer
    <3>3. PICK w \in Aside!Statuses : v4[w] >= Aside!Number(i)
      BY <2>1, <3>1, <1>11 DEF Aside!CommentsOK
    <3>4. w \in Aside!Statuses' /\ (v4'[w] = v4[w] \/ v4'[w] = Aside!Number(j))
      BY <1>7
    <3> QED
      BY <2>1, <3>2, <3>3, <3>4
  <2> QED
    BY <2>2, <2>3
<1>12. Aside!CommentsOK'
  BY <1>10, <1>11 DEF Aside!CommentsOK
<1> QED
  BY <1>9, <1>12

-----------------------------------------------------------------------------
\* The jobs and their attempts.
Ground ==
  /\ v1 \in Plans
  /\ v2 \in [ Aside!Jobs -> { "unasked", "running", "answered", "given_up" } ]
  /\ v3 \in [ Aside!Jobs -> Seq(Cell) ]
  /\ \A j \in Aside!Jobs : Len(v3[j]) <= JobTries[Aside!Kind(j)]
  /\ Aside!AttemptsOK /\ Aside!OrderOK

\* What AttemptsOK says of one job.
JobOK(j, how, sofar) ==
  /\ how = "unasked" <=> sofar = << >>
  /\ how # "unasked" => j \in v1
  /\ how = "answered" => sofar[Len(sofar)].at = "done"
  /\ \A k \in DOMAIN sofar :
       /\ sofar[k].at \in Aside!StepsOf(Aside!Kind(j)) \cup { "done", "lost" }
       /\ sofar[k].at \in { "list", "persist", "post", "answer" } => sofar[k].found = 0

LEMMA AttemptsAre == Aside!AttemptsOK <=> \A j \in Aside!Jobs : JobOK(j, v2[j], v3[j])
  BY DEF Aside!AttemptsOK, JobOK

LEMMA AttemptsAreThen ==
  ASSUME v1' = v1
  PROVE  Aside!AttemptsOK' <=> \A j \in Aside!Jobs : JobOK(j, v2'[j], v3'[j])
  BY DEF Aside!AttemptsOK, JobOK, Aside!StepsOf

LEMMA EmptyIs == ASSUME NEW s \in Seq(Cell) PROVE s = << >> <=> Len(s) = 0
  OBVIOUS

\* A job that is no longer asked for stays as it is in this.
LEMMA OrderStays ==
  ASSUME Aside!SideActivitiesAssumption, Aside!TypeOK, Aside!OrderOK, v1' = v1,
         \A i \in Aside!Jobs : /\ v2'[i] = "unasked" <=> v2[i] = "unasked"
                               /\ v2[i] \in { "answered", "given_up" }
                                    => v2'[i] \in { "answered", "given_up" }
  PROVE  Aside!OrderOK'
  BY PlanIs DEF Aside!OrderOK

\* An attempt comes to its second step.
LEMMA AsideGoesOn ==
  ASSUME Aside!SideActivitiesAssumption, Aside!TypeOK, Aside!AttemptsOK, Aside!OrderOK,
         NEW j \in Aside!Jobs, NEW k \in DOMAIN v3[j], NEW f \in Nat,
         NEW to \in { "write", "emit" },
         to \in Aside!StepsOf(Aside!Kind(j)), v3[j][k].at # "done", Aside!Goes(j, k, to, f),
         UNCHANGED << v1, v2 >>
  PROVE  /\ Ground'
         /\ \A i \in Aside!Jobs : DOMAIN v3'[i] = DOMAIN v3[i] /\ Len(v3'[i]) = Len(v3[i])
         /\ \A i \in Aside!Jobs : i # j => v3'[i] = v3[i]
         /\ v3'[j][k].at = to /\ v3'[j][k].found = f
         /\ \A h \in DOMAIN v3[j] : h # k => v3'[j][h] = v3[j][h]
<1>1. to \in Aside!Steps \cup { "done", "lost" }
  BY DEF Aside!Steps
<1>2. /\ v3' \in [ Aside!Jobs -> Seq(Cell) ]
      /\ \A i \in Aside!Jobs : /\ DOMAIN v3'[i] = DOMAIN v3[i]
                               /\ Len(v3'[i]) = Len(v3[i])
                               /\ i # j => v3'[i] = v3[i]
      /\ v3'[j][k].at = to /\ v3'[j][k].found = f
      /\ \A h \in DOMAIN v3[j] : h # k => v3'[j][h] = v3[j][h]
  BY <1>1, GoesIs, Zenon
<1>3. JobOK(j, v2[j], v3[j]) /\ \A i \in Aside!Jobs : i # j => JobOK(i, v2[i], v3[i])
  BY AttemptsAre
<1>4. v3[j] \in Seq(Cell) /\ v3'[j] \in Seq(Cell)
  BY <1>2, JobIs
<1>5. JobOK(j, v2'[j], v3'[j])
  <2>1. v2[j] = "answered" => k # Len(v3[j]) /\ Len(v3[j]) \in DOMAIN v3[j]
    <3>1. v2[j] = "answered" => Len(v3[j]) # 0
      BY <1>3, <1>4, EmptyIs DEF JobOK
    <3> QED
      BY <1>3, <3>1, JobIs DEF JobOK
  <2>2. v3'[j] = << >> <=> v3[j] = << >>
    BY <1>2, <1>4, EmptyIs
  <2>3. v2'[j] = "answered" => v3'[j][Len(v3'[j])].at = "done"
    BY <1>2, <1>3, <2>1 DEF JobOK
  <2>4. ASSUME NEW h \in DOMAIN v3'[j]
        PROVE  /\ v3'[j][h].at \in Aside!StepsOf(Aside!Kind(j)) \cup { "done", "lost" }
               /\ v3'[j][h].at \in { "list", "persist", "post", "answer" } => v3'[j][h].found = 0
    <3>1. CASE h = k
      BY <1>2, <3>1
    <3>2. CASE h # k
      BY <1>2, <1>3, <2>4, <3>2 DEF JobOK
    <3> QED
      BY <3>1, <3>2
  <2> QED
    BY <1>3, <2>2, <2>3, <2>4 DEF JobOK
<1>6. Aside!AttemptsOK'
  BY <1>2, <1>3, <1>5, AttemptsAreThen
<1>7. Aside!OrderOK'
  BY OrderStays
<1>8. v1 \in Plans /\ v2 \in [ Aside!Jobs -> { "unasked", "running", "answered", "given_up" } ]
      /\ \A i \in Aside!Jobs : Len(v3[i]) <= JobTries[Aside!Kind(i)]
  BY DEF Aside!TypeOK
<1>9. Ground'
  BY <1>2, <1>6, <1>7, <1>8 DEF Ground
<1> QED
  BY <1>2, <1>9

\* An attempt returns.
LEMMA GoesBack ==
  ASSUME Aside!SideActivitiesAssumption, Aside!TypeOK, Aside!AttemptsOK, Aside!OrderOK,
         NEW j \in Aside!Jobs,
         NEW k \in DOMAIN v3[j], Aside!Returns(j, k), UNCHANGED v1
  PROVE  Ground'
<1>1. /\ v3' \in [ Aside!Jobs -> Seq(Cell) ]
      /\ \A i \in Aside!Jobs : DOMAIN v3'[i] = DOMAIN v3[i] /\ Len(v3'[i]) = Len(v3[i])
      /\ \A i \in Aside!Jobs : i # j => v3'[i] = v3[i]
      /\ v3'[j][k].at = "done" /\ v3'[j][k].found = v3[j][k].found
      /\ \A h \in DOMAIN v3[j] : h # k => v3'[j][h] = v3[j][h]
      /\ v2' \in [ Aside!Jobs -> { "unasked", "running", "answered", "given_up" } ]
      /\ \A i \in Aside!Jobs : i # j => v2'[i] = v2[i]
      /\ v2'[j] = IF v2[j] = "running" /\ k = Len(v3[j]) THEN "answered" ELSE v2[j]
  BY ReturnsIs
<1>2. JobOK(j, v2[j], v3[j]) /\ \A i \in Aside!Jobs : i # j => JobOK(i, v2[i], v3[i])
  BY AttemptsAre
<1>3. v3[j] \in Seq(Cell) /\ v3'[j] \in Seq(Cell)
  BY <1>1, JobIs
<1>4. JobOK(j, v2'[j], v3'[j])
  <2>1. v3'[j] = << >> <=> v3[j] = << >>
    BY <1>1, <1>3, EmptyIs
  <2>2. v2[j] = "answered" => Len(v3[j]) \in DOMAIN v3[j]
    <3>1. v2[j] = "answered" => Len(v3[j]) # 0
      BY <1>2, <1>3, EmptyIs DEF JobOK
    <3> QED
      BY <3>1, JobIs
  <2>3. v2'[j] = "answered" => v3'[j][Len(v3'[j])].at = "done"
    BY <1>1, <1>2, <2>2 DEF JobOK
  <2>4. ASSUME NEW h \in DOMAIN v3'[j]
        PROVE  /\ v3'[j][h].at \in Aside!StepsOf(Aside!Kind(j)) \cup { "done", "lost" }
               /\ v3'[j][h].at \in { "list", "persist", "post", "answer" } => v3'[j][h].found = 0
    <3>1. CASE h = k
      BY <1>1, <3>1
    <3>2. CASE h # k
      BY <1>1, <1>2, <2>4, <3>2 DEF JobOK
    <3> QED
      BY <3>1, <3>2
  <2>5. v2'[j] = "unasked" <=> v2[j] = "unasked"
    BY <1>1
  <2> QED
    BY <1>2, <2>1, <2>3, <2>4, <2>5 DEF JobOK
<1>5. Aside!AttemptsOK'
  BY <1>1, <1>2, <1>4, AttemptsAreThen
<1>6. Aside!OrderOK'
  BY <1>1, OrderStays
<1>7. v1 \in Plans /\ \A i \in Aside!Jobs : Len(v3[i]) <= JobTries[Aside!Kind(i)]
  BY DEF Aside!TypeOK
<1> QED
  BY <1>1, <1>5, <1>6, <1>7 DEF Ground

-----------------------------------------------------------------------------
\* What leaves the audit as it is, except that attempts start or are lost.
CalmAudit ==
  /\ v5' = v5 /\ v8 \subseteq v8'
  /\ \A j \in Aside!Jobs : Aside!Kind(j) = "audit" =>
       /\ \A h \in DOMAIN v3[j] :
            h \in DOMAIN v3'[j] /\ v3'[j][h].found = v3[j][h].found
       /\ \A h \in DOMAIN v3'[j] : v3'[j][h].at \in { "emit", "done" } =>
            h \in DOMAIN v3[j] /\ v3[j][h].at \in { "emit", "done" }

LEMMA RowsStay == ASSUME Aside!RowsOK, CalmAudit PROVE Aside!RowsOK'
<1>1. ASSUME NEW j \in Aside!Jobs, NEW k \in DOMAIN v3'[j], Aside!Kind(j) = "audit",
             v3'[j][k].at \in { "emit", "done" }
      PROVE  IF v3'[j][k].found = 0 THEN << j, k >> \in v8'
             ELSE v3'[j][k].found \in DOMAIN v5' /\ v5'[v3'[j][k].found] = Aside!Number(j)
  <2>1. /\ k \in DOMAIN v3[j] /\ v3[j][k].at \in { "emit", "done" }
        /\ v3'[j][k].found = v3[j][k].found
    BY <1>1 DEF CalmAudit
  <2>2. IF v3[j][k].found = 0 THEN << j, k >> \in v8
        ELSE v3[j][k].found \in DOMAIN v5 /\ v5[v3[j][k].found] = Aside!Number(j)
    BY <1>1, <2>1 DEF Aside!RowsOK
  <2> QED
    BY <2>1, <2>2 DEF CalmAudit
<1>2. ASSUME NEW i \in DOMAIN v5'
      PROVE  \E j \in Aside!Jobs : \E k \in DOMAIN v3'[j] :
               Aside!Kind(j) = "audit" /\ Aside!Number(j) = v5'[i] /\ v3'[j][k].found = i
  <2>1. PICK j \in Aside!Jobs : \E k \in DOMAIN v3[j] :
          Aside!Kind(j) = "audit" /\ Aside!Number(j) = v5[i] /\ v3[j][k].found = i
    BY <1>2 DEF Aside!RowsOK, CalmAudit
  <2>2. PICK k \in DOMAIN v3[j] :
          Aside!Kind(j) = "audit" /\ Aside!Number(j) = v5[i] /\ v3[j][k].found = i
    BY <2>1
  <2>3. k \in DOMAIN v3'[j] /\ v3'[j][k].found = i /\ v5' = v5
    BY <2>2 DEF CalmAudit
  <2> QED
    BY <2>2, <2>3
<1> QED
  BY <1>1, <1>2 DEF Aside!RowsOK

LEMMA EventsStay ==
  ASSUME Aside!EventsOK, v5' = v5, v6' = v6, v8 \subseteq v8'
  PROVE  Aside!EventsOK'
  BY DEF Aside!EventsOK

\* What has been done stays done, so what was posted stays accounted for.
Done(s) == { k \in DOMAIN s : s[k].at = "done" }

LEMMA CountIs == ASSUME NEW n \in Nat PROVE Aside!IsFiniteSet(1..n) /\ Aside!Cardinality(1..n) = n
<1>1. Aside!IsFiniteSet(1..n) /\ Aside!Cardinality(1..n) = IF 1 > n THEN 0 ELSE n - 1 + 1
  BY AsideFinite, FS_Interval
<1> QED
  BY <1>1

LEMMA AsideDoneIs ==
  ASSUME NEW s \in Seq(Cell)
  PROVE  /\ Aside!IsFiniteSet(Done(s)) /\ Aside!Cardinality(Done(s)) \in Nat
         /\ Aside!Cardinality(Done(s)) <= Len(s)
         /\ Len(s) \in Nat
<1>1. Done(s) \subseteq 1..Len(s) /\ Len(s) \in Nat
  BY DEF Done
<1>2. Aside!IsFiniteSet(1..Len(s)) /\ Aside!Cardinality(1..Len(s)) = Len(s)
  BY <1>1, CountIs
<1>3. Aside!IsFiniteSet(Done(s)) /\ Aside!Cardinality(Done(s)) <= Aside!Cardinality(1..Len(s))
  BY AsideFinite, <1>1, <1>2, FS_Subset
<1>4. Aside!Cardinality(Done(s)) \in Nat
  BY AsideFinite, <1>3, FS_CardinalityType
<1> QED
  BY <1>1, <1>2, <1>3, <1>4

LEMMA PostsAre ==
  Aside!PostsOK
    <=> (v7 > 0 => \E j \in v1 : Aside!Kind(j) = "request" /\ v7 <= Aside!Cardinality(Done(v3[j])))
  BY DEF Aside!PostsOK, Done

LEMMA PostsAreThen ==
  ASSUME v1' = v1
  PROVE  Aside!PostsOK' <=>
           (v7' > 0 => \E j \in v1 : Aside!Kind(j) = "request" /\ v7' <= Aside!Cardinality(Done(v3'[j])))
  BY DEF Aside!PostsOK, Done

LEMMA PostsStay ==
  ASSUME Aside!SideActivitiesAssumption, Aside!TypeOK, Aside!PostsOK,
         v3' \in [ Aside!Jobs -> Seq(Cell) ],
         v1' = v1, v7' = v7,
         \A j \in Aside!Jobs : Aside!Kind(j) = "request" => \A h \in DOMAIN v3[j] :
           v3[j][h].at = "done" => h \in DOMAIN v3'[j] /\ v3'[j][h].at = "done"
  PROVE  Aside!PostsOK'
<1>1. CASE ~(v7 > 0)
  BY <1>1, PostsAreThen
<1>2. CASE v7 > 0
  <2>1. PICK j \in v1 : Aside!Kind(j) = "request" /\ v7 <= Aside!Cardinality(Done(v3[j]))
    BY <1>2, PostsAre
  <2>2. j \in Aside!Jobs /\ v3[j] \in Seq(Cell) /\ v3'[j] \in Seq(Cell)
    BY PlanIs, JobIs
  <2>3. Done(v3[j]) \subseteq Done(v3'[j])
    BY <2>1, <2>2 DEF Done
  <2>4. Aside!Cardinality(Done(v3[j])) <= Aside!Cardinality(Done(v3'[j]))
    BY AsideFinite, <2>2, <2>3, AsideDoneIs, FS_Subset
  <2>5. v7 \in Nat
    BY DEF Aside!TypeOK
  <2>6. v7' <= Aside!Cardinality(Done(v3'[j]))
    BY <2>1, <2>2, <2>4, <2>5, AsideDoneIs
  <2> QED
    BY <2>1, <2>6, PostsAreThen
<1> QED
  BY <1>1, <1>2

-----------------------------------------------------------------------------
\* The rest of what the types say.
Rest ==
  /\ v4 \in Seq({0} \cup Aside!Numbers) /\ v5 \in Seq(Aside!Numbers)
  /\ v6 \subseteq [ signal : Aside!Numbers, try : Nat, row : 0..Len(v5) ]
  /\ v7 \in Nat /\ v8 \subseteq Aside!Jobs \X Nat
  /\ v9 \in BOOLEAN /\ v10 \in 0..MaxJobTroubles

LEMMA AsideInvIs ==
  Aside!IInv
    <=> Ground /\ Rest /\ Aside!AddersOK /\ Aside!CommentsOK /\ Aside!RowsOK /\ Aside!EventsOK
      /\ Aside!PostsOK
  BY DEF Aside!IInv, Aside!TypeOK, Ground, Rest, Cell

LEMMA AsideInvIsThen ==
  ASSUME Ground', Rest', Aside!AddersOK', Aside!CommentsOK', Aside!RowsOK', Aside!EventsOK',
         Aside!PostsOK'
  PROVE  Aside!IInv'
  BY DEF Aside!IInv, Aside!TypeOK, Ground, Rest, Cell, Aside!Steps

LEMMA TroubleIs ==
  ASSUME Aside!SideActivitiesAssumption, Aside!TypeOK, Aside!Trouble
  PROVE  v10' \in 0..MaxJobTroubles
<1>1. MaxJobTroubles \in Nat /\ v10 \in 0..MaxJobTroubles
  BY DEF Aside!SideActivitiesAssumption, Aside!TypeOK
<1> QED
  BY <1>1 DEF Aside!Trouble

\* Attempts start or are lost, and what outlives its time stays late.
Fresh ==
  /\ \A j \in Aside!Jobs :
       /\ \A h \in DOMAIN v3[j] :
            /\ h \in DOMAIN v3'[j] /\ v3'[j][h].found = v3[j][h].found
            /\ \/ v3'[j][h] = v3[j][h]
               \/ v3[j][h].at # "done" /\ v3'[j][h].at = "lost"
       /\ \A h \in DOMAIN v3'[j] :
            h \in DOMAIN v3[j] \/ v3'[j][h].at = Aside!First(Aside!Kind(j))
  /\ Aside!Late("comment") \subseteq Aside!Late("comment")'
  /\ Aside!Late("comment")' = {} =>
       \A j \in Aside!Jobs :
         Aside!Kind(j) = "comment" /\ v2'[j] = "answered" => v2[j] = "answered"
  /\ v10' \in 0..MaxJobTroubles /\ v9' \in BOOLEAN
  /\ UNCHANGED << v1, v4, v5, v6, v7, v8 >>

LEMMA FreshStep ==
  ASSUME Aside!SideActivitiesAssumption, Aside!IInv, Ground', Fresh
  PROVE  Aside!IInv'
<1>1. Aside!TypeOK /\ Rest /\ Aside!AddersOK /\ Aside!CommentsOK /\ Aside!RowsOK /\ Aside!EventsOK
        /\ Aside!PostsOK
  BY AsideInvIs DEF Aside!IInv
<1>2. Rest'
  BY <1>1 DEF Rest, Fresh
<1>3. CalmComments
  <2>1. ASSUME NEW j \in Aside!Jobs, Aside!Kind(j) = "comment", NEW h \in DOMAIN v3'[j],
               v3'[j][h].at = "write"
        PROVE  h \in DOMAIN v3[j] /\ v3'[j][h] = v3[j][h]
    BY <2>1 DEF Fresh, Aside!First
  <2> QED
    BY <2>1 DEF Fresh, CalmComments
<1>4. CalmAudit
  <2>1. ASSUME NEW j \in Aside!Jobs, Aside!Kind(j) = "audit", NEW h \in DOMAIN v3'[j],
               v3'[j][h].at \in { "emit", "done" }
        PROVE  h \in DOMAIN v3[j] /\ v3[j][h].at \in { "emit", "done" }
    BY <2>1 DEF Fresh, Aside!First
  <2> QED
    BY <2>1 DEF Fresh, CalmAudit
<1>5. Aside!AddersOK' /\ Aside!CommentsOK'
  BY <1>1, <1>3, CalmStep
<1>6. Aside!RowsOK' /\ Aside!EventsOK'
  BY <1>1, <1>4, RowsStay, EventsStay DEF Fresh
<1>7. Aside!PostsOK'
  BY <1>1, PostsStay DEF Fresh, Ground
<1> QED
  BY <1>2, <1>5, <1>6, <1>7, AsideInvIsThen

\* A job is asked for when those before it are answered or given up.
LEMMA AsideAsksStep ==
  ASSUME Aside!SideActivitiesAssumption, Aside!IInv, NEW j \in v1, Aside!Asks(j)
  PROVE  Aside!IInv'
<1>1. Aside!TypeOK /\ Ground /\ Rest /\ j \in Aside!Jobs
  BY AsideInvIs, PlanIs DEF Aside!IInv
<1>2. /\ v3' \in [ Aside!Jobs -> Seq(Cell) ]
      /\ \A i \in Aside!Jobs : i # j => v3'[i] = v3[i]
      /\ Len(v3'[j]) = Len(v3[j]) + 1
      /\ DOMAIN v3'[j] = 1..(Len(v3[j]) + 1)
      /\ \A h \in DOMAIN v3[j] : h \in DOMAIN v3'[j] /\ v3'[j][h] = v3[j][h]
      /\ \A h \in DOMAIN v3'[j] \ DOMAIN v3[j] :
           /\ h = Len(v3'[j]) /\ v3'[j][h].at = Aside!First(Aside!Kind(j))
           /\ v3'[j][h].found = 0
  BY <1>1, StartsIs DEF Aside!Asks
<1>3. /\ v2[j] = "unasked" /\ v2'[j] = "running" /\ \A i \in Aside!Jobs : i # j => v2'[i] = v2[i]
      /\ v2' \in [ Aside!Jobs -> { "unasked", "running", "answered", "given_up" } ] /\ v1' = v1
  BY <1>1 DEF Aside!Asks, Ground
<1>4. v3[j] = << >> /\ Len(v3[j]) = 0 /\ DOMAIN v3[j] = {} /\ Len(v3'[j]) = 1
      /\ DOMAIN v3'[j] = {1} /\ v3'[j][1].at = Aside!First(Aside!Kind(j)) /\ v3'[j][1].found = 0
  <2>1. v3[j] = << >>
    BY <1>1, <1>3 DEF Ground, Aside!AttemptsOK
  <2>2. Len(v3[j]) = 0 /\ DOMAIN v3[j] = {}
    BY <2>1
  <2> QED
    BY <1>2, <2>1, <2>2
<1>5. Aside!AttemptsOK'
  <2>1. JobOK(j, v2'[j], v3'[j])
    <3>1. Aside!First(Aside!Kind(j)) \in Aside!StepsOf(Aside!Kind(j))
      BY DEF Aside!First, Aside!StepsOf
    <3>2. v3'[j] # << >>
      BY <1>2, <1>4, EmptyIs, <1>1
    <3> QED
      BY <1>1, <1>3, <1>4, <3>1, <3>2 DEF JobOK
  <2>2. \A i \in Aside!Jobs : i # j => JobOK(i, v2'[i], v3'[i])
    BY <1>1, <1>2, <1>3, AttemptsAre DEF Ground
  <2> QED
    BY <1>3, <2>1, <2>2, AttemptsAreThen
<1>6. Aside!OrderOK'
  <2>1. ASSUME NEW i \in v1, NEW l \in v1, Aside!Kind(i) # "audit", Aside!Kind(l) # "audit",
               Aside!Number(i) < Aside!Number(l), v2'[l] # "unasked"
        PROVE  v2'[i] \in { "answered", "given_up" }
    <3>1. i \in Aside!Jobs /\ l \in Aside!Jobs /\ Aside!Number(i) \in Nat
            /\ Aside!Number(l) \in Nat
      BY <1>1, PlanIs, JobsAre
    <3>2. CASE l = j
      BY <1>3, <2>1, <3>1, <3>2 DEF Aside!Asks
    <3>3. CASE l # j
      <4>1. v2[i] \in { "answered", "given_up" }
        BY <1>1, <1>3, <2>1, <3>1, <3>3 DEF Ground, Aside!OrderOK
      <4> QED
        BY <1>3, <3>1, <4>1
    <3> QED
      BY <3>2, <3>3
  <2> QED
    BY <1>3, <2>1 DEF Aside!OrderOK
<1>7. Ground'
  <2>1. JobTries[Aside!Kind(j)] \in Nat \ {0}
    BY <1>1, JobsAre
  <2>2. \A i \in Aside!Jobs : Len(v3'[i]) <= JobTries[Aside!Kind(i)]
    <3>1. Len(v3'[j]) <= JobTries[Aside!Kind(j)]
      BY <1>4, <2>1
    <3> QED
      BY <1>1, <1>2, <3>1 DEF Ground
  <2> QED
    BY <1>1, <1>2, <1>3, <1>5, <1>6, <2>2 DEF Ground
<1>8. Aside!Late("comment") \subseteq Aside!Late("comment")'
  <2>1. ASSUME NEW a \in Aside!Late("comment") PROVE a \in Aside!Late("comment")'
    <3>1. PICK i \in Aside!Jobs : \E h \in DOMAIN v3[i] :
            a = << i, h >> /\ Aside!Kind(i) = "comment" /\ (h # Len(v3[i]) \/ v2[i] = "given_up")
      BY <2>1, LateIs
    <3>2. i # j
      BY <1>4, <3>1
    <3> QED
      BY <1>2, <1>3, <3>1, <3>2, LateIsThen
  <2> QED
    BY <2>1
<1>9. Fresh
  <2>1. ASSUME NEW i \in Aside!Jobs
        PROVE  /\ \A h \in DOMAIN v3[i] : h \in DOMAIN v3'[i] /\ v3'[i][h] = v3[i][h]
               /\ \A h \in DOMAIN v3'[i] : h \in DOMAIN v3[i]
                    \/ v3'[i][h].at = Aside!First(Aside!Kind(i))
    BY <1>2
  <2>2. v9' = v9 /\ v10' = v10 /\ v9 \in BOOLEAN /\ v10 \in 0..MaxJobTroubles
    BY <1>1 DEF Aside!Asks, Rest
  <2>3. \A i \in Aside!Jobs : v2'[i] = "answered" => v2[i] = "answered"
    BY <1>3
  <2>4. UNCHANGED << v1, v4, v5, v6, v7, v8 >>
    BY DEF Aside!Asks
  <2> QED
    BY <1>8, <2>1, <2>2, <2>3, <2>4 DEF Fresh
<1> QED
  BY <1>7, <1>9, FreshStep

\* The time of the attempt at work is over, and another is made if there is one left.
LEMMA AsideTimesOutStep ==
  ASSUME Aside!SideActivitiesAssumption, Aside!IInv, NEW j \in v1, Aside!TimesOut(j)
  PROVE  Aside!IInv'
<1>1. Aside!TypeOK /\ Ground /\ Rest /\ j \in Aside!Jobs
  BY AsideInvIs, PlanIs DEF Aside!IInv
<1>2. v2[j] = "running" /\ v1' = v1 /\ UNCHANGED << v4, v5, v6, v7, v8 >>
      /\ v10' \in 0..MaxJobTroubles /\ v9 \in BOOLEAN
  BY <1>1, TroubleIs DEF Aside!TimesOut, Rest
<1>3. /\ v3[j] \in Seq(Cell) /\ v3[j] # << >> /\ Len(v3[j]) \in DOMAIN v3[j]
      /\ DOMAIN v3[j] = 1..Len(v3[j]) /\ Len(v3[j]) \in Nat
  <2>1. v3[j] # << >> /\ v3[j] \in Seq(Cell)
    BY <1>1, <1>2, JobIs DEF Ground, Aside!AttemptsOK
  <2>2. Len(v3[j]) # 0
    BY <2>1, EmptyIs
  <2> QED
    BY <1>1, <2>1, <2>2, JobIs
<1>4. \A i \in Aside!Jobs : JobOK(i, v2[i], v3[i])
  BY <1>1, AttemptsAre DEF Ground
<1>5. CASE Len(v3[j]) < JobTries[Aside!Kind(j)]
  <2>1. Aside!Starts(j) /\ UNCHANGED << v2, v9 >>
    BY <1>5 DEF Aside!TimesOut
  <2>2. /\ v3' \in [ Aside!Jobs -> Seq(Cell) ]
        /\ \A i \in Aside!Jobs : i # j => v3'[i] = v3[i]
        /\ Len(v3'[j]) = Len(v3[j]) + 1
        /\ DOMAIN v3'[j] = 1..(Len(v3[j]) + 1)
        /\ \A h \in DOMAIN v3[j] : h \in DOMAIN v3'[j] /\ v3'[j][h] = v3[j][h]
        /\ \A h \in DOMAIN v3'[j] \ DOMAIN v3[j] :
             /\ h = Len(v3'[j]) /\ v3'[j][h].at = Aside!First(Aside!Kind(j))
             /\ v3'[j][h].found = 0
    BY <1>1, <2>1, StartsIs
  <2>3. Aside!AttemptsOK'
    <3>1. Aside!First(Aside!Kind(j)) \in Aside!StepsOf(Aside!Kind(j))
      BY DEF Aside!First, Aside!StepsOf
    <3>2. v3'[j] # << >>
      BY <1>1, <1>3, <2>2, EmptyIs
    <3>3. ASSUME NEW k \in DOMAIN v3'[j]
          PROVE  /\ v3'[j][k].at \in Aside!StepsOf(Aside!Kind(j)) \cup { "done", "lost" }
                 /\ v3'[j][k].at \in { "list", "persist", "post", "answer" }
                      => v3'[j][k].found = 0
      <4>1. CASE k \in DOMAIN v3[j]
        BY <1>1, <1>4, <2>2, <4>1 DEF JobOK
      <4>2. CASE k \notin DOMAIN v3[j]
        BY <2>2, <3>1, <3>3, <4>2
      <4> QED
        BY <4>1, <4>2
    <3>4. JobOK(j, v2'[j], v3'[j])
      BY <1>2, <2>1, <3>2, <3>3 DEF JobOK
    <3>5. \A i \in Aside!Jobs : i # j => JobOK(i, v2'[i], v3'[i])
      BY <1>4, <2>1, <2>2
    <3> QED
      BY <1>2, <3>4, <3>5, AttemptsAreThen
  <2>4. Ground'
    <3>1. Aside!OrderOK'
      BY <1>1, <1>2, <2>1, OrderStays DEF Ground
    <3>2. JobTries[Aside!Kind(j)] \in Nat
      BY <1>1, JobsAre
    <3>3. ASSUME NEW i \in Aside!Jobs PROVE Len(v3'[i]) <= JobTries[Aside!Kind(i)]
      <4>1. CASE i = j
        BY <1>3, <1>5, <2>2, <3>2, <4>1
      <4>2. CASE i # j
        BY <1>1, <2>2, <4>2 DEF Ground
      <4> QED
        BY <4>1, <4>2
    <3> QED
      BY <1>1, <1>2, <2>1, <2>2, <2>3, <3>1, <3>3 DEF Ground
  <2>5. Aside!Late("comment") \subseteq Aside!Late("comment")'
    <3>1. ASSUME NEW a \in Aside!Late("comment") PROVE a \in Aside!Late("comment")'
      <4>1. PICK i \in Aside!Jobs : \E h \in DOMAIN v3[i] :
              a = << i, h >> /\ Aside!Kind(i) = "comment"
                /\ (h # Len(v3[i]) \/ v2[i] = "given_up")
        BY <3>1, LateIs
      <4>2. PICK h \in DOMAIN v3[i] :
              a = << i, h >> /\ Aside!Kind(i) = "comment"
                /\ (h # Len(v3[i]) \/ v2[i] = "given_up")
        BY <4>1
      <4>3. h \in DOMAIN v3'[i] /\ (h # Len(v3'[i]) \/ v2'[i] = "given_up")
        <5>1. CASE i # j
          BY <2>1, <2>2, <4>2, <5>1
        <5>2. CASE i = j
          BY <1>3, <2>2, <4>2, <5>2
        <5> QED
          BY <5>1, <5>2
      <4> QED
        BY <4>2, <4>3, LateIsThen
    <3> QED
      BY <3>1
  <2>6. Fresh
    <3>1. ASSUME NEW i \in Aside!Jobs
          PROVE  /\ \A h \in DOMAIN v3[i] : h \in DOMAIN v3'[i] /\ v3'[i][h] = v3[i][h]
                 /\ \A h \in DOMAIN v3'[i] : h \in DOMAIN v3[i]
                      \/ v3'[i][h].at = Aside!First(Aside!Kind(i))
      BY <2>2
    <3> QED
      BY <1>2, <2>1, <2>5, <3>1 DEF Fresh
  <2> QED
    BY <2>4, <2>6, FreshStep
<1>6. CASE ~(Len(v3[j]) < JobTries[Aside!Kind(j)])
  <2>1. v3' = v3 /\ v2' = [ v2 EXCEPT ![j] = "given_up" ] /\ v9' \in BOOLEAN
    BY <1>6 DEF Aside!TimesOut
  <2>2. v2'[j] = "given_up" /\ (\A i \in Aside!Jobs : i # j => v2'[i] = v2[i])
        /\ v2' \in [ Aside!Jobs -> { "unasked", "running", "answered", "given_up" } ]
    BY <1>1, <2>1 DEF Ground
  <2>3. Aside!AttemptsOK'
    <3>1. JobOK(j, v2'[j], v3'[j])
      BY <1>1, <1>2, <1>3, <1>4, <2>1, <2>2 DEF JobOK
    <3>2. \A i \in Aside!Jobs : i # j => JobOK(i, v2'[i], v3'[i])
      BY <1>4, <2>1, <2>2
    <3> QED
      BY <1>2, <3>1, <3>2, AttemptsAreThen
  <2>4. Ground'
    <3>1. Aside!OrderOK'
      BY <1>1, <1>2, <2>2, OrderStays DEF Ground
    <3> QED
      BY <1>1, <1>2, <2>1, <2>2, <2>3, <3>1 DEF Ground
  <2>5. Aside!Late("comment") \subseteq Aside!Late("comment")'
    <3>1. ASSUME NEW a \in Aside!Late("comment") PROVE a \in Aside!Late("comment")'
      <4>1. PICK i \in Aside!Jobs : \E h \in DOMAIN v3[i] :
              a = << i, h >> /\ Aside!Kind(i) = "comment"
                /\ (h # Len(v3[i]) \/ v2[i] = "given_up")
        BY <3>1, LateIs
      <4> QED
        BY <2>1, <2>2, <4>1, LateIsThen
    <3> QED
      BY <3>1
  <2>6. Fresh
    <3>1. \A i \in Aside!Jobs : v2'[i] = "answered" => v2[i] = "answered"
      BY <2>2
    <3> QED
      BY <1>2, <2>1, <2>5, <3>1 DEF Fresh
  <2> QED
    BY <2>4, <2>6, FreshStep
<1> QED
  BY <1>5, <1>6

\* What is at work is lost; what it has found, and what is done, stays.
LEMMA AsideDiesStep ==
  ASSUME Aside!SideActivitiesAssumption, Aside!IInv, Aside!WorkerDies
  PROVE  Aside!IInv'
<1>1. Aside!TypeOK /\ Ground /\ Rest
  BY AsideInvIs DEF Aside!IInv
<1>2. /\ v3' \in [ Aside!Jobs -> Seq(Cell) ]
      /\ \A i \in Aside!Jobs :
           /\ DOMAIN v3'[i] = DOMAIN v3[i] /\ Len(v3'[i]) = Len(v3[i])
           /\ \A h \in DOMAIN v3[i] :
                /\ v3'[i][h].found = v3[i][h].found
                /\ IF v3[i][h].at = "done" THEN v3'[i][h] = v3[i][h]
                                                ELSE v3'[i][h].at = "lost"
  BY <1>1, WorkerDiesIs
<1>3. v10' \in 0..MaxJobTroubles /\ v9' \in BOOLEAN
      /\ UNCHANGED << v1, v2, v4, v5, v6, v7, v8 >>
  BY <1>1, TroubleIs DEF Aside!WorkerDies, Rest
<1>4. Aside!AttemptsOK'
  <2>1. ASSUME NEW j \in Aside!Jobs PROVE JobOK(j, v2'[j], v3'[j])
    <3>1. JobOK(j, v2[j], v3[j]) /\ v3[j] \in Seq(Cell) /\ v3'[j] \in Seq(Cell)
      BY <1>1, <1>2, AttemptsAre, JobIs DEF Ground
    <3>2. v3'[j] = << >> <=> v3[j] = << >>
      BY <1>2, <3>1, EmptyIs
    <3>3. v2[j] = "answered" => Len(v3[j]) \in DOMAIN v3[j]
      <4>1. v2[j] = "answered" => Len(v3[j]) # 0
        BY <3>1, EmptyIs DEF JobOK
      <4> QED
        BY <1>1, <4>1, JobIs
    <3>4. v2[j] = "answered" => v3'[j][Len(v3'[j])].at = "done"
      BY <1>2, <3>1, <3>3 DEF JobOK
    <3>5. ASSUME NEW h \in DOMAIN v3'[j]
          PROVE  /\ v3'[j][h].at \in Aside!StepsOf(Aside!Kind(j)) \cup { "done", "lost" }
                 /\ v3'[j][h].at \in { "list", "persist", "post", "answer" }
                      => v3'[j][h].found = 0
      <4>1. h \in DOMAIN v3[j]
        BY <1>2
      <4>2. CASE v3[j][h].at = "done"
        BY <1>2, <3>1, <4>1, <4>2 DEF JobOK
      <4>3. CASE v3[j][h].at # "done"
        BY <1>2, <4>1, <4>3
      <4> QED
        BY <4>2, <4>3
    <3> QED
      BY <1>3, <3>1, <3>2, <3>4, <3>5 DEF JobOK
  <2> QED
    BY <1>3, <2>1, AttemptsAreThen
<1>5. Ground'
  <2>1. Aside!OrderOK'
    BY <1>1, <1>3, OrderStays DEF Ground
  <2> QED
    BY <1>1, <1>2, <1>3, <1>4, <2>1 DEF Ground
<1>6. Aside!Late("comment")' = Aside!Late("comment")
  BY <1>2, <1>3, LateStays
<1>7. Fresh
  <2>1. ASSUME NEW j \in Aside!Jobs, NEW h \in DOMAIN v3[j]
        PROVE  /\ h \in DOMAIN v3'[j] /\ v3'[j][h].found = v3[j][h].found
               /\ \/ v3'[j][h] = v3[j][h]
                  \/ v3[j][h].at # "done" /\ v3'[j][h].at = "lost"
    BY <1>2
  <2> QED
    BY <1>2, <1>3, <1>6, <2>1 DEF Fresh
<1> QED
  BY <1>5, <1>7, FreshStep

\* The run ends, and what is at work goes on.
LEMMA AsideEndsStep ==
  ASSUME Aside!SideActivitiesAssumption, Aside!IInv, Aside!RunEnds
  PROVE  Aside!IInv'
<1>1. Aside!TypeOK /\ Ground /\ Rest
  BY AsideInvIs DEF Aside!IInv
<1>2. UNCHANGED << v1, v2, v3, v4, v5, v6, v7, v8, v10 >> /\ v9' = TRUE
  BY DEF Aside!RunEnds
<1>3. Ground'
  BY <1>1, <1>2 DEF Ground, Aside!AttemptsOK, Aside!OrderOK, Aside!StepsOf
<1>4. Aside!Late("comment")' = Aside!Late("comment")
  BY <1>2 DEF Aside!Late
<1>5. Fresh
  BY <1>1, <1>2, <1>4 DEF Fresh, Rest
<1> QED
  BY <1>3, <1>5, FreshStep

-----------------------------------------------------------------------------
\* What another kind of attempt does leaves those at the comment as they are.
LEMMA CommentsStay ==
  ASSUME Aside!SideActivitiesAssumption, NEW j \in Aside!Jobs, Aside!Kind(j) # "comment",
         v4' = v4, v8 \subseteq v8',
         \A i \in Aside!Jobs : i # j => v3'[i] = v3[i] /\ v2'[i] = v2[i],
         \A i \in Aside!Jobs : DOMAIN v3'[i] = DOMAIN v3[i] /\ Len(v3'[i]) = Len(v3[i]),
         \A i \in Aside!Jobs : v2'[i] = "given_up" <=> v2[i] = "given_up",
         Aside!AddersOK, Aside!CommentsOK
  PROVE  Aside!AddersOK' /\ Aside!CommentsOK'
<1>1. \A i \in Aside!Jobs : Aside!Kind(i) = "comment" => v3'[i] = v3[i] /\ v2'[i] = v2[i]
  OBVIOUS
<1>2. Aside!Late("comment")' = Aside!Late("comment")
  BY LateStays
<1>3. CalmComments
  BY <1>1, <1>2 DEF CalmComments
<1> QED
  BY <1>3, CalmStep

\* Likewise the attempts at an audit.
LEMMA AuditStays ==
  ASSUME Aside!SideActivitiesAssumption, NEW j \in Aside!Jobs, Aside!Kind(j) # "audit",
         UNCHANGED << v5, v6 >>, v8 \subseteq v8',
         \A i \in Aside!Jobs : i # j => v3'[i] = v3[i],
         Aside!RowsOK, Aside!EventsOK
  PROVE  Aside!RowsOK' /\ Aside!EventsOK'
<1>1. CalmAudit
  BY DEF CalmAudit
<1> QED
  BY <1>1, RowsStay, EventsStay

\* The comments are looked through.
LEMMA AsideListsStep ==
  ASSUME Aside!SideActivitiesAssumption, Aside!IInv, NEW j \in v1, NEW k \in DOMAIN v3[j],
         Aside!Lists(j, k)
  PROVE  Aside!IInv'
<1>1. Aside!TypeOK /\ Ground /\ Rest /\ j \in Aside!Jobs /\ Aside!AddersOK /\ Aside!CommentsOK
        /\ Aside!RowsOK /\ Aside!EventsOK /\ Aside!PostsOK
  BY AsideInvIs, PlanIs DEF Aside!IInv
<1>2. Aside!Kind(j) = "comment" /\ v3[j][k].at = "list"
  <2>1. v3[j][k].at \in Aside!StepsOf(Aside!Kind(j)) \cup { "done", "lost" }
          /\ v3[j][k].at = "list"
    BY <1>1 DEF Ground, Aside!AttemptsOK, Aside!Lists, Aside!At
  <2> QED
    BY <2>1 DEF Aside!StepsOf
<1>3. /\ Aside!FirstMarked \in {0} \cup Aside!Statuses
      /\ Aside!FirstMarked = 0 => \A i \in Aside!Statuses : i > CommentsPerPage
  BY <1>1, FirstIs DEF Rest
<1> DEFINE f == Aside!FirstMarked
<1>4. UNCHANGED << v1, v2, v4, v5, v6, v7, v8, v9, v10 >>
      /\ Aside!Goes(j, k, "write", f)
  BY DEF Aside!Lists
<1>5. f \in Nat /\ f \in {0} \cup Aside!Statuses
  <2>1. Aside!Statuses \subseteq Nat
    BY <1>1 DEF Aside!Statuses, Rest
  <2> QED
    BY <1>3, <2>1
<1> HIDE DEF f
<1>6. /\ Ground'
      /\ \A i \in Aside!Jobs : DOMAIN v3'[i] = DOMAIN v3[i] /\ Len(v3'[i]) = Len(v3[i])
      /\ \A i \in Aside!Jobs : i # j => v3'[i] = v3[i]
      /\ v3'[j][k].at = "write" /\ v3'[j][k].found = f
      /\ \A h \in DOMAIN v3[j] : h # k => v3'[j][h] = v3[j][h]
  <2>1. "write" \in Aside!StepsOf(Aside!Kind(j)) /\ v3[j][k].at # "done"
          /\ "write" \in { "write", "emit" }
    BY <1>2 DEF Aside!StepsOf
  <2> QED
    BY <1>1, <1>4, <1>5, <2>1, AsideGoesOn, Zenon DEF Ground
<1>7. Aside!Late("comment")' = Aside!Late("comment") /\ Aside!Tried' = Aside!Tried
  BY <1>4, <1>6, LateStays
<1>8. Aside!Statuses' = Aside!Statuses
  BY <1>4 DEF Aside!Statuses
<1>9. \A a \in Aside!Tried : a # << j, k >> => v3'[a[1]][a[2]] = v3[a[1]][a[2]]
  BY <1>6, TriedIs
<1>10. Aside!AddersOK'
  <2>1. PICK adders \in SUBSET Aside!Tried :
          /\ Aside!IsFiniteSet(adders)
          /\ Aside!Cardinality(adders) = Aside!Cardinality(Aside!Statuses)
          /\ \A a \in adders : v3[a[1]][a[2]].at = "done"
          /\ \/ \E i \in Aside!Statuses : i > CommentsPerPage
             \/ /\ \A a, b \in adders \ Aside!Late("comment") : a = b
                /\ \A a \in Aside!Tried \ Aside!Late("comment") :
                     v3[a[1]][a[2]].at = "write" /\ v3[a[1]][a[2]].found = 0
                       => adders \subseteq Aside!Late("comment")
    BY <1>1 DEF Aside!AddersOK
  <2>2. << j, k >> \notin adders
    BY <1>2, <2>1
  <2>3. \A a \in adders : v3'[a[1]][a[2]].at = "done"
    BY <1>9, <2>1, <2>2
  <2>4. CASE \E i \in Aside!Statuses : i > CommentsPerPage
    BY <1>7, <1>8, <2>1, <2>3, <2>4 DEF Aside!AddersOK
  <2>5. CASE ~\E i \in Aside!Statuses : i > CommentsPerPage
    <3>1. f = 0 => adders = {}
      <4>1. f = 0 => Aside!Statuses = {}
        BY <1>3, <2>5 DEF f
      <4>2. f = 0 => Aside!Cardinality(adders) = 0
        BY AsideFinite, <2>1, <4>1, FS_EmptySet
      <4> QED
        BY AsideFinite, <2>1, <4>2, FS_EmptySet
    <3>2. \A a \in Aside!Tried' \ Aside!Late("comment")' :
            v3'[a[1]][a[2]].at = "write" /\ v3'[a[1]][a[2]].found = 0
              => adders \subseteq Aside!Late("comment")'
      <4>1. ASSUME NEW a \in Aside!Tried \ Aside!Late("comment"), v3'[a[1]][a[2]].at = "write",
                   v3'[a[1]][a[2]].found = 0
            PROVE  adders \subseteq Aside!Late("comment")
        <5>1. CASE a = << j, k >>
          BY <1>6, <3>1, <4>1, <5>1
        <5>2. CASE a # << j, k >>
          BY <1>9, <2>1, <2>5, <4>1, <5>2
        <5> QED
          BY <5>1, <5>2
      <4> QED
        BY <1>7, <4>1
    <3> QED
      BY <1>7, <1>8, <2>1, <2>3, <2>5, <3>2 DEF Aside!AddersOK
  <2> QED
    BY <2>4, <2>5
<1>11. Aside!CommentsOK'
  <2>1. ASSUME NEW a \in Aside!Tried', v3'[a[1]][a[2]].at = "write"
        PROVE  v3'[a[1]][a[2]].found \in {0} \cup Aside!Statuses'
    <3>1. CASE a = << j, k >>
      BY <1>5, <1>6, <1>8, <3>1
    <3>2. CASE a # << j, k >>
      BY <1>1, <1>7, <1>8, <1>9, <2>1, <3>2 DEF Aside!CommentsOK
    <3> QED
      BY <3>1, <3>2
  <2> QED
    BY <1>1, <1>4, <1>7, <1>8, <2>1 DEF Aside!CommentsOK
<1>12. Rest'
  BY <1>1, <1>4 DEF Rest
<1>13. Aside!RowsOK' /\ Aside!EventsOK'
  BY <1>1, <1>2, <1>4, <1>6, AuditStays
<1>14. Aside!PostsOK'
  BY <1>1, <1>2, <1>4, <1>6, PostsStay DEF Ground
<1> QED
  BY <1>6, <1>10, <1>11, <1>12, <1>13, <1>14, AsideInvIsThen

\* An attempt at the comment comes back.
LEMMA CommentReturns ==
  ASSUME Aside!SideActivitiesAssumption, Aside!IInv, NEW j \in v1, NEW k \in DOMAIN v3[j],
         v3[j][k].at \in { "list", "write" }, Aside!Returns(j, k),
         \/ v3[j][k].at = "write" /\ v4' = Aside!Written(j, k)
         \/ v4' = v4 /\ << j, k >> \in v8',
         v8 \subseteq v8', v8' \subseteq v8 \cup {<< j, k >>},
         v10' \in 0..MaxJobTroubles,
         UNCHANGED << v1, v5, v6, v7, v9 >>
  PROVE  Aside!IInv'
<1>1. Aside!TypeOK /\ Ground /\ Rest /\ j \in Aside!Jobs /\ Aside!AddersOK /\ Aside!CommentsOK
        /\ Aside!RowsOK /\ Aside!EventsOK /\ Aside!PostsOK
  BY AsideInvIs, PlanIs DEF Aside!IInv
<1>2. Aside!Kind(j) = "comment"
  <2>1. v3[j][k].at \in Aside!StepsOf(Aside!Kind(j)) \cup { "done", "lost" }
    BY <1>1 DEF Ground, Aside!AttemptsOK
  <2> QED
    BY <2>1 DEF Aside!StepsOf
<1>3. Ground'
  BY <1>1, GoesBack DEF Ground
<1>4. Aside!AddersOK' /\ Aside!CommentsOK'
  BY <1>1, <1>2, AsideReturnsStep DEF Ground
<1>5. /\ \A i \in Aside!Jobs : DOMAIN v3'[i] = DOMAIN v3[i]
      /\ \A i \in Aside!Jobs : i # j => v3'[i] = v3[i]
  BY <1>1, ReturnsIs
<1>6. Aside!RowsOK' /\ Aside!EventsOK'
  BY <1>1, <1>2, <1>5, AuditStays
<1>7. Aside!PostsOK'
  BY <1>1, <1>2, <1>3, <1>5, PostsStay DEF Ground
<1>8. Rest'
  <2>1. v4' \in Seq({0} \cup Aside!Numbers)
    <3>1. CASE v4' = v4
      BY <1>1, <3>1 DEF Rest
    <3>2. CASE v3[j][k].at = "write" /\ v4' = Aside!Written(j, k)
      <4>1. << j, k >> \in Aside!Tried
        BY <1>1, <1>2, TriedIs
      <4>2. v3[j][k].found \in {0} \cup Aside!Statuses
        BY <1>1, <3>2, <4>1 DEF Aside!CommentsOK
      <4> QED
        BY <1>1, <3>2, <4>2, AsideWrittenIs
    <3> QED
      BY <3>1, <3>2
  <2>2. k \in Nat
    BY <1>1, JobIs
  <2>3. v8' \subseteq Aside!Jobs \X Nat
    BY <1>1, <2>2 DEF Rest
  <2> QED
    BY <1>1, <2>1, <2>3 DEF Rest
<1> QED
  BY <1>3, <1>4, <1>6, <1>7, <1>8, AsideInvIsThen

LEMMA CommentStep ==
  ASSUME Aside!SideActivitiesAssumption, Aside!IInv, NEW j \in v1, NEW k \in DOMAIN v3[j],
         Aside!Writes(j, k) \/ Aside!CommentFails(j, k)
  PROVE  Aside!IInv'
<1>1. Aside!TypeOK /\ Rest
  BY AsideInvIs DEF Aside!IInv
<1>2. CASE Aside!Writes(j, k)
  <2>1. v8' = v8 /\ v10' \in 0..MaxJobTroubles
    BY <1>1, <1>2 DEF Aside!Writes, Rest
  <2> QED
    BY <1>2, <2>1, CommentReturns DEF Aside!Writes, Aside!At
<1>3. CASE Aside!CommentFails(j, k)
  <2>1. v8' = v8 \cup {<< j, k >>} /\ v10' \in 0..MaxJobTroubles
    BY <1>1, <1>3, TroubleIs DEF Aside!CommentFails
  <2> QED
    BY <1>3, <2>1, CommentReturns DEF Aside!CommentFails, Aside!At
<1> QED
  BY <1>2, <1>3

\* People comment.
LEMMA PersonStep ==
  ASSUME Aside!SideActivitiesAssumption, Aside!IInv, Aside!PersonComments
  PROVE  Aside!IInv'
<1>1. Aside!TypeOK /\ Ground /\ Rest /\ Aside!AddersOK /\ Aside!CommentsOK /\ Aside!RowsOK
        /\ Aside!EventsOK /\ Aside!PostsOK
  BY AsideInvIs DEF Aside!IInv
<1>2. UNCHANGED << v1, v2, v3, v5, v6, v7, v8, v9, v10 >>
      /\ v4' = Append(v4, 0)
  BY DEF Aside!PersonComments
<1>3. /\ v4' \in Seq({0} \cup Aside!Numbers) /\ Aside!Statuses' = Aside!Statuses
      /\ \A i \in Aside!Statuses : v4'[i] = v4[i]
  <2>1. v4 \in Seq({0} \cup Aside!Numbers) /\ 0 \in {0} \cup Aside!Numbers
    BY <1>1 DEF Rest
  <2>2. /\ DOMAIN v4 = 1..Len(v4) /\ Len(v4) \in Nat
        /\ DOMAIN v4' = 1..(Len(v4) + 1) /\ v4'[Len(v4) + 1] = 0
        /\ \A i \in DOMAIN v4 : v4'[i] = v4[i]
        /\ v4' \in Seq({0} \cup Aside!Numbers)
    BY <1>2, <2>1
  <2>3. 1..(Len(v4) + 1) = 1..Len(v4) \cup {Len(v4) + 1}
    BY <2>2
  <2> QED
    BY <2>2, <2>3 DEF Aside!Statuses
<1>4. Ground' /\ Aside!RowsOK' /\ Aside!EventsOK' /\ Aside!PostsOK'
  <2>1. Ground'
    BY <1>1, <1>2 DEF Ground, Aside!AttemptsOK, Aside!OrderOK, Aside!StepsOf
  <2>2. Aside!RowsOK'
    BY <1>1, <1>2 DEF Aside!RowsOK
  <2>3. Aside!EventsOK' /\ Aside!PostsOK'
    BY <1>1, <1>2 DEF Aside!EventsOK, Aside!PostsOK
  <2> QED
    BY <2>1, <2>2, <2>3
<1>5. Rest'
  BY <1>1, <1>2, <1>3 DEF Rest
<1>6. Aside!Late("comment")' = Aside!Late("comment") /\ Aside!Tried' = Aside!Tried
  BY <1>2 DEF Aside!Late, Aside!Tried
<1>7. Aside!AddersOK'
  BY <1>1, <1>2, <1>3, <1>6 DEF Aside!AddersOK
<1>8. Aside!CommentsOK'
  BY <1>1, <1>2, <1>3, <1>6 DEF Aside!CommentsOK
<1> QED
  BY <1>4, <1>5, <1>7, <1>8, AsideInvIsThen

-----------------------------------------------------------------------------
\* A row is written, or not.
LEMMA AsidePersistStep ==
  ASSUME Aside!SideActivitiesAssumption, Aside!IInv, NEW j \in v1, NEW k \in DOMAIN v3[j],
         Aside!Persists(j, k) \/ Aside!PersistFails(j, k)
  PROVE  Aside!IInv'
<1>1. Aside!TypeOK /\ Ground /\ Rest /\ j \in Aside!Jobs /\ Aside!AddersOK /\ Aside!CommentsOK
        /\ Aside!RowsOK /\ Aside!EventsOK /\ Aside!PostsOK
  BY AsideInvIs, PlanIs DEF Aside!IInv
<1>2. v3[j][k].at = "persist" /\ k \in Nat
  BY <1>1, JobIs DEF Aside!Persists, Aside!PersistFails, Aside!At
<1>3. Aside!Kind(j) = "audit" /\ v3[j][k].found = 0
  <2>1. v3[j][k].at \in Aside!StepsOf(Aside!Kind(j)) \cup { "done", "lost" }
    BY <1>1 DEF Ground, Aside!AttemptsOK
  <2>2. v3[j][k].found = 0
    BY <1>1, <1>2 DEF Ground, Aside!AttemptsOK
  <2> QED
    BY <1>2, <2>1, <2>2 DEF Aside!StepsOf
<1>4. /\ UNCHANGED << v1, v2, v4, v6, v7, v9 >>
      /\ v8 \subseteq v8' /\ v8' \subseteq v8 \cup {<< j, k >>}
      /\ v10' \in 0..MaxJobTroubles
  BY <1>1, TroubleIs DEF Aside!Persists, Aside!PersistFails, Rest
<1>5. PICK f : /\ Aside!Goes(j, k, "emit", f)
               /\ \/ f = 0 /\ v5' = v5 /\ << j, k >> \in v8'
                  \/ v5' = Append(v5, Aside!Number(j)) /\ f = Len(v5')
  BY DEF Aside!Persists, Aside!PersistFails
<1>6. /\ f \in Nat /\ v5' \in Seq(Aside!Numbers) /\ Len(v5) \in Nat /\ Len(v5') \in Nat
      /\ Len(v5) <= Len(v5')
      /\ \A i \in DOMAIN v5 : i \in DOMAIN v5' /\ v5'[i] = v5[i]
      /\ \A i \in DOMAIN v5' : i \in DOMAIN v5 \/ i = f
      /\ IF f = 0 THEN << j, k >> \in v8' ELSE f \in DOMAIN v5' /\ v5'[f] = Aside!Number(j)
  <2>1. v5 \in Seq(Aside!Numbers) /\ Aside!Number(j) \in Aside!Numbers
    BY <1>1, JobsAre DEF Rest
  <2>2. CASE f = 0 /\ v5' = v5 /\ << j, k >> \in v8'
    BY <2>1, <2>2
  <2>3. CASE v5' = Append(v5, Aside!Number(j)) /\ f = Len(v5')
    <3> DEFINE n == Aside!Number(j)
    <3>1. n \in Aside!Numbers /\ v5' = Append(v5, n) /\ f = Len(v5')
      BY <2>1, <2>3
    <3> HIDE DEF n
    <3>2. /\ v5' \in Seq(Aside!Numbers) /\ Len(v5') = Len(v5) + 1 /\ Len(v5) \in Nat
          /\ DOMAIN v5' = 1..(Len(v5) + 1) /\ DOMAIN v5 = 1..Len(v5)
          /\ v5'[Len(v5) + 1] = n /\ \A i \in DOMAIN v5 : v5'[i] = v5[i]
      BY <2>1, <3>1
    <3>3. \A i \in 1..(Len(v5) + 1) : i \in 1..Len(v5) \/ i = Len(v5) + 1
      BY <3>2
    <3>4. f = Len(v5) + 1 /\ f # 0 /\ f \in DOMAIN v5' /\ Len(v5) <= Len(v5')
      BY <3>1, <3>2
    <3>5. \A i \in DOMAIN v5 : i \in DOMAIN v5'
      BY <3>2
    <3>6. \A i \in DOMAIN v5' : i \in DOMAIN v5 \/ i = f
      BY <3>2, <3>3, <3>4
    <3> QED
      BY <3>2, <3>4, <3>5, <3>6 DEF n
  <2> QED
    BY <1>5, <2>2, <2>3
<1>7. /\ Ground'
      /\ \A i \in Aside!Jobs : DOMAIN v3'[i] = DOMAIN v3[i] /\ Len(v3'[i]) = Len(v3[i])
      /\ \A i \in Aside!Jobs : i # j => v3'[i] = v3[i]
      /\ v3'[j][k].at = "emit" /\ v3'[j][k].found = f
      /\ \A h \in DOMAIN v3[j] : h # k => v3'[j][h] = v3[j][h]
  <2>1. "emit" \in Aside!StepsOf(Aside!Kind(j)) /\ v3[j][k].at # "done"
          /\ "emit" \in { "write", "emit" }
    BY <1>2, <1>3 DEF Aside!StepsOf
  <2> QED
    BY <1>1, <1>4, <1>5, <1>6, <2>1, AsideGoesOn, Zenon DEF Ground
<1>8. Aside!RowsOK'
  <2>1. ASSUME NEW i \in Aside!Jobs, NEW h \in DOMAIN v3'[i], Aside!Kind(i) = "audit",
               v3'[i][h].at \in { "emit", "done" }
        PROVE  IF v3'[i][h].found = 0 THEN << i, h >> \in v8'
               ELSE v3'[i][h].found \in DOMAIN v5' /\ v5'[v3'[i][h].found] = Aside!Number(i)
    <3>1. CASE i = j /\ h = k
      BY <1>6, <1>7, <3>1
    <3>2. CASE ~(i = j /\ h = k)
      <4>1. h \in DOMAIN v3[i] /\ v3'[i][h] = v3[i][h]
        BY <1>7, <2>1, <3>2
      <4>2. IF v3[i][h].found = 0 THEN << i, h >> \in v8
            ELSE v3[i][h].found \in DOMAIN v5 /\ v5[v3[i][h].found] = Aside!Number(i)
        BY <1>1, <2>1, <4>1 DEF Aside!RowsOK
      <4> QED
        BY <1>4, <1>6, <4>1, <4>2
    <3> QED
      BY <3>1, <3>2
  <2>2. ASSUME NEW i \in DOMAIN v5'
        PROVE  \E l \in Aside!Jobs : \E h \in DOMAIN v3'[l] :
                 Aside!Kind(l) = "audit" /\ Aside!Number(l) = v5'[i] /\ v3'[l][h].found = i
    <3>1. i # 0
      BY <1>6
    <3>2. CASE i \notin DOMAIN v5
      BY <1>1, <1>3, <1>6, <1>7, <3>1, <3>2
    <3>3. CASE i \in DOMAIN v5
      <4>1. PICK l \in Aside!Jobs : \E h \in DOMAIN v3[l] :
              Aside!Kind(l) = "audit" /\ Aside!Number(l) = v5[i] /\ v3[l][h].found = i
        BY <1>1, <3>3 DEF Aside!RowsOK
      <4>2. PICK h \in DOMAIN v3[l] :
              Aside!Kind(l) = "audit" /\ Aside!Number(l) = v5[i] /\ v3[l][h].found = i
        BY <4>1
      <4>3. ~(l = j /\ h = k)
        BY <1>3, <3>1, <4>2
      <4>4. h \in DOMAIN v3'[l] /\ v3'[l][h] = v3[l][h] /\ v5'[i] = v5[i]
        BY <1>6, <1>7, <3>3, <4>3
      <4> QED
        BY <4>2, <4>4
    <3> QED
      BY <3>2, <3>3
  <2> QED
    BY <2>1, <2>2 DEF Aside!RowsOK
<1>9. Aside!EventsOK'
  <2>1. ASSUME NEW e \in v6
        PROVE  IF e.row = 0 THEN << << "audit", e.signal >>, e.try >> \in v8'
               ELSE v5'[e.row] = e.signal
    <3>1. e.row \in 0..Len(v5) /\ DOMAIN v5 = 1..Len(v5)
      BY <1>1 DEF Rest
    <3>2. e.row # 0 => e.row \in DOMAIN v5
      BY <1>6, <3>1
    <3> QED
      BY <1>1, <1>4, <1>6, <3>2 DEF Aside!EventsOK
  <2> QED
    BY <1>4, <2>1 DEF Aside!EventsOK
<1>10. Rest'
  <2>1. v6' \subseteq [ signal : Aside!Numbers, try : Nat, row : 0..Len(v5') ]
    <3>1. 0..Len(v5) \subseteq 0..Len(v5')
      BY <1>6
    <3> QED
      BY <1>1, <1>4, <3>1 DEF Rest
  <2>2. v8' \subseteq Aside!Jobs \X Nat
    BY <1>1, <1>2, <1>4 DEF Rest
  <2> QED
    BY <1>1, <1>4, <1>6, <2>1, <2>2 DEF Rest
<1>11. Aside!AddersOK' /\ Aside!CommentsOK'
  BY <1>1, <1>3, <1>4, <1>7, CommentsStay
<1>12. Aside!PostsOK'
  BY <1>1, <1>3, <1>4, <1>7, PostsStay DEF Ground
<1> QED
  BY <1>7, <1>8, <1>9, <1>10, <1>11, <1>12, AsideInvIsThen

\* The event is sent, or not.
LEMMA EmitStep ==
  ASSUME Aside!SideActivitiesAssumption, Aside!IInv, NEW j \in v1, NEW k \in DOMAIN v3[j],
         Aside!Emits(j, k) \/ Aside!EmitFails(j, k)
  PROVE  Aside!IInv'
<1>1. Aside!TypeOK /\ Ground /\ Rest /\ j \in Aside!Jobs /\ Aside!AddersOK /\ Aside!CommentsOK
        /\ Aside!RowsOK /\ Aside!EventsOK /\ Aside!PostsOK
  BY AsideInvIs, PlanIs DEF Aside!IInv
<1>2. v3[j][k].at = "emit" /\ k \in Nat
  BY <1>1, JobIs DEF Aside!Emits, Aside!EmitFails, Aside!At
<1>3. Aside!Kind(j) = "audit"
  <2>1. v3[j][k].at \in Aside!StepsOf(Aside!Kind(j)) \cup { "done", "lost" }
    BY <1>1 DEF Ground, Aside!AttemptsOK
  <2> QED
    BY <1>2, <2>1 DEF Aside!StepsOf
<1>4. /\ UNCHANGED << v1, v4, v5, v7, v8, v9 >> /\ Aside!Returns(j, k)
      /\ v10' \in 0..MaxJobTroubles /\ v6' \in { v6, Aside!Emitted(j, k) }
  BY <1>1, TroubleIs DEF Aside!Emits, Aside!EmitFails, Rest
<1>5. Ground'
  BY <1>1, <1>4, GoesBack DEF Ground
<1>6. /\ \A i \in Aside!Jobs : DOMAIN v3'[i] = DOMAIN v3[i] /\ Len(v3'[i]) = Len(v3[i])
      /\ \A i \in Aside!Jobs : i # j => v3'[i] = v3[i] /\ v2'[i] = v2[i]
      /\ v3'[j][k].at = "done" /\ v3'[j][k].found = v3[j][k].found
      /\ \A h \in DOMAIN v3[j] : h # k => v3'[j][h] = v3[j][h]
      /\ \A i \in Aside!Jobs : v2'[i] = "given_up" <=> v2[i] = "given_up"
  BY <1>1, <1>4, ReturnsIs
<1> DEFINE f == v3[j][k].found
<1>7. IF f = 0 THEN << j, k >> \in v8 ELSE f \in DOMAIN v5 /\ v5[f] = Aside!Number(j)
  BY <1>1, <1>2, <1>3 DEF Aside!RowsOK
<1>8. Aside!RowsOK'
  <2>1. CalmAudit
    <3>0. DOMAIN v3'[j] = DOMAIN v3[j]
      BY <1>1, <1>6
    <3>1. ASSUME NEW h \in DOMAIN v3'[j], v3'[j][h].at \in { "emit", "done" }
          PROVE  h \in DOMAIN v3[j] /\ v3[j][h].at \in { "emit", "done" }
      <4>1. h = k \/ v3'[j][h] = v3[j][h]
        BY <1>6, <3>0, <3>1
      <4> QED
        BY <1>2, <3>0, <3>1, <4>1
    <3>2. ASSUME NEW h \in DOMAIN v3[j]
          PROVE  h \in DOMAIN v3'[j] /\ v3'[j][h].found = v3[j][h].found
      <4>1. h = k \/ v3'[j][h] = v3[j][h]
        BY <1>6, <3>2
      <4> QED
        BY <1>6, <3>0, <3>2, <4>1
    <3> QED
      BY <1>4, <1>6, <3>1, <3>2 DEF CalmAudit
  <2> QED
    BY <1>1, <2>1, RowsStay
<1>9. Aside!EventsOK' /\ v6' \subseteq [ signal : Aside!Numbers, try : Nat, row : 0..Len(v5) ]
  <2> DEFINE new == [ signal |-> Aside!Number(j), try |-> k, row |-> f ]
  <2>1. v6' \subseteq v6 \cup {new}
    BY <1>4 DEF Aside!Emitted
  <2>2. Aside!Number(j) \in Aside!Numbers /\ f \in 0..Len(v5)
          /\ << "audit", Aside!Number(j) >> = j
    <3>1. f \in Nat /\ DOMAIN v5 = 1..Len(v5) /\ Len(v5) \in Nat
      BY <1>1, JobIs DEF Rest
    <3>2. f \in 0..Len(v5)
      BY <1>7, <3>1
    <3> QED
      BY <1>1, <1>3, <3>2, JobsAre
  <2>3. new.signal = Aside!Number(j) /\ new.try = k /\ new.row = f
        /\ new \in [ signal : Aside!Numbers, try : Nat, row : 0..Len(v5) ]
    BY <1>2, <2>2
  <2> HIDE DEF new
  <2>4. v6' \subseteq [ signal : Aside!Numbers, try : Nat, row : 0..Len(v5) ]
    BY <1>1, <2>1, <2>3 DEF Rest
  <2>5. ASSUME NEW e \in v6'
        PROVE  IF e.row = 0 THEN << << "audit", e.signal >>, e.try >> \in v8 ELSE v5[e.row]
                 = e.signal
    <3>1. CASE e \in v6
      BY <1>1, <3>1 DEF Aside!EventsOK
    <3>2. CASE e = new
      BY <1>7, <2>2, <2>3, <3>2
    <3> QED
      BY <2>1, <2>5, <3>1, <3>2
  <2> QED
    BY <1>4, <2>4, <2>5 DEF Aside!EventsOK
<1>10. Rest'
  BY <1>1, <1>4, <1>9 DEF Rest
<1>11. Aside!AddersOK' /\ Aside!CommentsOK'
  BY <1>1, <1>3, <1>4, <1>6, CommentsStay
<1>12. Aside!PostsOK'
  BY <1>1, <1>3, <1>4, <1>5, <1>6, PostsStay DEF Ground
<1> QED
  BY <1>5, <1>8, <1>9, <1>10, <1>11, <1>12, AsideInvIsThen

-----------------------------------------------------------------------------
\* The request is posted: the attempt that did it does it once.
LEMMA PostStep ==
  ASSUME Aside!SideActivitiesAssumption, Aside!IInv, NEW j \in v1, NEW k \in DOMAIN v3[j],
         Aside!Posts(j, k)
  PROVE  Aside!IInv'
<1>1. Aside!TypeOK /\ Ground /\ Rest /\ j \in Aside!Jobs /\ Aside!AddersOK /\ Aside!CommentsOK
        /\ Aside!RowsOK /\ Aside!EventsOK /\ Aside!PostsOK
  BY AsideInvIs, PlanIs DEF Aside!IInv
<1>2. Aside!Kind(j) = "request" /\ v3[j][k].at = "post"
  <2>1. v3[j][k].at \in Aside!StepsOf(Aside!Kind(j)) \cup { "done", "lost" }
          /\ v3[j][k].at = "post"
    BY <1>1 DEF Ground, Aside!AttemptsOK, Aside!Posts, Aside!At
  <2> QED
    BY <2>1 DEF Aside!StepsOf
<1>3. /\ UNCHANGED << v1, v4, v5, v6, v8, v9, v10 >> /\ Aside!Returns(j, k)
      /\ v7' \in { v7, v7 + 1 } /\ v7 \in Nat
  BY <1>1 DEF Aside!Posts, Aside!Announced, Aside!ToSlack, Rest
<1>4. Ground'
  BY <1>1, <1>3, GoesBack DEF Ground
<1>5. /\ v3' \in [ Aside!Jobs -> Seq(Cell) ]
      /\ \A i \in Aside!Jobs : DOMAIN v3'[i] = DOMAIN v3[i] /\ Len(v3'[i]) = Len(v3[i])
      /\ \A i \in Aside!Jobs : i # j => v3'[i] = v3[i] /\ v2'[i] = v2[i]
      /\ v3'[j][k].at = "done" /\ v3'[j][k].found = v3[j][k].found
      /\ \A h \in DOMAIN v3[j] : h # k => v3'[j][h] = v3[j][h]
      /\ \A i \in Aside!Jobs : v2'[i] = "given_up" <=> v2[i] = "given_up"
  BY <1>1, <1>3, ReturnsIs
<1>6. /\ Aside!Cardinality(Done(v3'[j])) = Aside!Cardinality(Done(v3[j])) + 1
      /\ Aside!Cardinality(Done(v3[j])) \in Nat
  <2>1. Done(v3'[j]) = Done(v3[j]) \cup {k} /\ k \notin Done(v3[j])
    <3>1. k \in Done(v3'[j]) /\ k \notin Done(v3[j])
      BY <1>1, <1>2, <1>5 DEF Done
    <3>2. ASSUME NEW h, h # k PROVE h \in Done(v3'[j]) <=> h \in Done(v3[j])
      BY <1>1, <1>5, <3>2 DEF Done
    <3> QED
      BY <3>1, <3>2
  <2>2. Aside!IsFiniteSet(Done(v3[j])) /\ Aside!Cardinality(Done(v3[j])) \in Nat
    BY <1>1, JobIs, AsideDoneIs
  <2> QED
    BY AsideFinite, <2>1, <2>2, FS_AddElement
<1>7. v7 <= Aside!Cardinality(Done(v3[j]))
  <2>1. CASE v7 = 0
    BY <1>6, <2>1
  <2>2. CASE v7 # 0
    <3>1. v7 > 0
      BY <1>3, <2>2
    <3>2. PICK i \in v1 : Aside!Kind(i) = "request" /\ v7 <= Aside!Cardinality(Done(v3[i]))
      BY <1>1, <3>1, PostsAre
    <3>3. i = j
      BY <1>1, <1>2, <3>2 DEF Ground, Aside!SideActivitiesAssumption, Aside!Kind
    <3> QED
      BY <3>2, <3>3
  <2> QED
    BY <2>1, <2>2
<1>8. Aside!PostsOK'
  <2>1. v7' <= Aside!Cardinality(Done(v3'[j]))
    BY <1>3, <1>6, <1>7
  <2> QED
    BY <1>2, <1>3, <2>1, PostsAreThen
<1>9. Rest'
  BY <1>1, <1>3 DEF Rest
<1>10. Aside!AddersOK' /\ Aside!CommentsOK'
  BY <1>1, <1>2, <1>3, <1>5, CommentsStay
<1>11. Aside!RowsOK' /\ Aside!EventsOK'
  BY <1>1, <1>2, <1>3, <1>5, AuditStays
<1> QED
  BY <1>4, <1>8, <1>9, <1>10, <1>11, AsideInvIsThen

\* The escalation and the board change nothing.
LEMMA AnswerStep ==
  ASSUME Aside!SideActivitiesAssumption, Aside!IInv, NEW j \in v1, NEW k \in DOMAIN v3[j],
         Aside!AnswersOnly(j, k)
  PROVE  Aside!IInv'
<1>1. Aside!TypeOK /\ Ground /\ Rest /\ j \in Aside!Jobs /\ Aside!AddersOK /\ Aside!CommentsOK
        /\ Aside!RowsOK /\ Aside!EventsOK /\ Aside!PostsOK
  BY AsideInvIs, PlanIs DEF Aside!IInv
<1>2. Aside!Kind(j) \notin { "comment", "audit", "request" }
  <2>1. v3[j][k].at \in Aside!StepsOf(Aside!Kind(j)) \cup { "done", "lost" }
          /\ v3[j][k].at = "answer"
    BY <1>1 DEF Ground, Aside!AttemptsOK, Aside!AnswersOnly, Aside!At
  <2> QED
    BY <2>1 DEF Aside!StepsOf
<1>3. UNCHANGED << v1, v4, v5, v6, v7, v8, v9, v10 >> /\ Aside!Returns(j, k)
  BY DEF Aside!AnswersOnly
<1>4. Ground'
  BY <1>1, <1>3, GoesBack DEF Ground
<1>5. /\ v3' \in [ Aside!Jobs -> Seq(Cell) ]
      /\ \A i \in Aside!Jobs : DOMAIN v3'[i] = DOMAIN v3[i] /\ Len(v3'[i]) = Len(v3[i])
      /\ \A i \in Aside!Jobs : i # j => v3'[i] = v3[i] /\ v2'[i] = v2[i]
      /\ \A i \in Aside!Jobs : v2'[i] = "given_up" <=> v2[i] = "given_up"
  BY <1>1, <1>3, ReturnsIs
<1>6. Rest'
  BY <1>1, <1>3 DEF Rest
<1>7. Aside!AddersOK' /\ Aside!CommentsOK'
  BY <1>1, <1>2, <1>3, <1>5, CommentsStay
<1>8. Aside!RowsOK' /\ Aside!EventsOK'
  BY <1>1, <1>2, <1>3, <1>5, AuditStays
<1>9. Aside!PostsOK'
  BY <1>1, <1>2, <1>3, <1>5, PostsStay
<1> QED
  BY <1>4, <1>6, <1>7, <1>8, <1>9, AsideInvIsThen

-----------------------------------------------------------------------------
LEMMA AsideInvInit == ASSUME Aside!SideActivitiesAssumption, Aside!Init PROVE Aside!IInv
<1>1. MaxJobTroubles \in Nat /\ JobTries \in [ Aside!Kinds -> Nat \ {0} ]
  BY DEF Aside!SideActivitiesAssumption
<1>2. \A j \in Aside!Jobs : v3[j] = << >> /\ v2[j] = "unasked"
  BY DEF Aside!Init
<1>3. v3 \in [ Aside!Jobs -> Seq(Cell) ] /\ \A j \in Aside!Jobs : Len(v3[j]) = 0
        /\ DOMAIN v3[j] = {}
  <2>1. << >> \in Seq(Cell) /\ Len(<< >>) = 0 /\ DOMAIN << >> = {}
    OBVIOUS
  <2> QED
    BY <1>2, <2>1 DEF Aside!Init
<1>4. Ground
  <2>1. \A j \in Aside!Jobs : JobTries[Aside!Kind(j)] \in Nat
    BY JobsAre
  <2>2. \A j \in Aside!Jobs : Len(v3[j]) <= JobTries[Aside!Kind(j)]
    BY <1>3, <2>1
  <2>3. \A j \in v1 : j \in Aside!Jobs
    BY JobsAre DEF Aside!Init
  <2>4. Aside!AttemptsOK
    BY <1>2, <1>3 DEF Aside!AttemptsOK
  <2>5. Aside!OrderOK
    BY <1>2, <2>3 DEF Aside!OrderOK
  <2> QED
    BY <1>3, <2>2, <2>4, <2>5 DEF Ground, Aside!Init
<1>5. Rest
  <2>1. v4 = << >> /\ v5 = << >> /\ v6 = {} /\ v7 = 0 /\ v8 = {}
        /\ v9 = FALSE /\ v10 = 0
    BY DEF Aside!Init
  <2>2. v4 \in Seq({0} \cup Aside!Numbers) /\ v5 \in Seq(Aside!Numbers)
    BY <2>1
  <2>3. v10 \in 0..MaxJobTroubles
    BY <1>1, <2>1
  <2> QED
    BY <2>1, <2>2, <2>3 DEF Rest
<1>6. Aside!Statuses = {} /\ Aside!Tried = {}
  <2>1. Aside!Statuses = {}
    BY DEF Aside!Statuses, Aside!Init
  <2>2. \A a : a \notin Aside!Tried
    BY <1>3, TriedIs
  <2> QED
    BY <2>1, <2>2
<1>7. Aside!AddersOK /\ Aside!CommentsOK
  <2>1. Aside!IsFiniteSet({}) /\ {} \in SUBSET Aside!Tried
    BY AsideFinite, FS_EmptySet
  <2>2. Aside!AddersOK
    BY <1>6, <2>1 DEF Aside!AddersOK
  <2> QED
    BY <1>2, <1>6, <2>2 DEF Aside!CommentsOK
<1>8. Aside!RowsOK /\ Aside!EventsOK /\ Aside!PostsOK
  <2>1. v5 = << >> /\ v6 = {} /\ v7 = 0
    BY DEF Aside!Init
  <2>2. Aside!RowsOK
    BY <1>3, <2>1 DEF Aside!RowsOK
  <2> QED
    BY <2>1, <2>2 DEF Aside!EventsOK, Aside!PostsOK
<1> QED
  BY <1>4, <1>5, <1>7, <1>8, AsideInvIs

LEMMA AsideInvUnchanged == ASSUME Aside!IInv, UNCHANGED Aside!vars PROVE Aside!IInv'
<1>1. Aside!Late("comment")' = Aside!Late("comment") /\ Aside!Tried' = Aside!Tried
        /\ Aside!Statuses' = Aside!Statuses
  BY DEF Aside!vars, Aside!Late, Aside!Tried, Aside!Statuses
<1>2. Aside!TypeOK' /\ Aside!AttemptsOK' /\ Aside!OrderOK'
  BY DEF Aside!IInv, Aside!vars, Aside!TypeOK, Aside!AttemptsOK, Aside!OrderOK, Aside!StepsOf,
         Aside!Steps
<1>3. Aside!AddersOK'
  BY <1>1 DEF Aside!IInv, Aside!vars, Aside!AddersOK
<1>4. Aside!CommentsOK'
  BY <1>1 DEF Aside!IInv, Aside!vars, Aside!CommentsOK
<1>5. Aside!RowsOK'
  BY DEF Aside!IInv, Aside!vars, Aside!RowsOK
<1>6. Aside!EventsOK' /\ Aside!PostsOK'
  BY DEF Aside!IInv, Aside!vars, Aside!EventsOK, Aside!PostsOK
<1> QED
  BY <1>2, <1>3, <1>4, <1>5, <1>6 DEF Aside!IInv

LEMMA AsideInvNext ==
  ASSUME Aside!SideActivitiesAssumption, Aside!IInv, [Aside!Next]_Aside!vars
  PROVE  Aside!IInv'
<1>1. ASSUME NEW j \in v1, NEW k \in DOMAIN v3[j],
             \/ Aside!Lists(j, k) \/ Aside!Writes(j, k) \/ Aside!CommentFails(j, k)
             \/ Aside!Persists(j, k) \/ Aside!PersistFails(j, k) \/ Aside!Emits(j, k)
                  \/ Aside!EmitFails(j, k)
             \/ Aside!Posts(j, k) \/ Aside!AnswersOnly(j, k)
      PROVE  Aside!IInv'
  BY <1>1, AsideListsStep, CommentStep, AsidePersistStep, EmitStep, PostStep, AnswerStep
<1>2. ASSUME NEW j \in v1, Aside!Asks(j) \/ Aside!TimesOut(j) PROVE Aside!IInv'
  BY <1>2, AsideAsksStep, AsideTimesOutStep
<1>3. ASSUME Aside!WorkerDies \/ Aside!RunEnds \/ Aside!PersonComments PROVE Aside!IInv'
  BY <1>3, AsideDiesStep, AsideEndsStep, PersonStep
<1> QED
  BY <1>1, <1>2, <1>3, AsideInvUnchanged DEF Aside!Next

-----------------------------------------------------------------------------
(* What follows for the properties *)

\* The attempts of one kind of job are finitely many.
LEMMA LateFinite ==
  ASSUME Aside!SideActivitiesAssumption, Aside!IInv, NEW kind \in Aside!Kinds
  PROVE  Aside!IsFiniteSet(Aside!Late(kind)) /\ Aside!Cardinality(Aside!Late(kind)) \in Nat
<1>1. Aside!TypeOK /\ Aside!AttemptsOK
  BY DEF Aside!IInv
<1>2. JobTries[kind] \in Nat /\ Aside!IsFiniteSet(1..JobTries[kind])
  <2>1. JobTries[kind] \in Nat
    BY DEF Aside!SideActivitiesAssumption
  <2> QED
    BY <2>1, CountIs
<1>3. Aside!IsFiniteSet(v1)
  BY <1>1, PlanIs, JobsAre
<1>4. Aside!Late(kind) \subseteq v1 \X (1..JobTries[kind])
  <2>1. ASSUME NEW a \in Aside!Late(kind) PROVE a \in v1 \X (1..JobTries[kind])
    <3>1. PICK j \in Aside!Jobs : \E k \in DOMAIN v3[j] : a = << j, k >> /\ Aside!Kind(j) = kind
      BY <2>1, LateIs
    <3>2. PICK k \in DOMAIN v3[j] : a = << j, k >> /\ Aside!Kind(j) = kind
      BY <3>1
    <3>3. k \in 1..JobTries[kind]
      BY <1>1, <1>2, <3>2, JobIs
    <3>4. v3[j] # << >>
      BY <1>1, <3>2, JobIs
    <3>5. j \in v1
      BY <1>1, <3>4 DEF Aside!AttemptsOK
    <3> QED
      BY <3>2, <3>3, <3>5
  <2> QED
    BY <2>1
<1>5. Aside!IsFiniteSet(v1 \X (1..JobTries[kind]))
  BY AsideFinite, <1>2, <1>3, FS_Product
<1>6. Aside!IsFiniteSet(Aside!Late(kind))
  BY AsideFinite, <1>4, <1>5, FS_Subset
<1> QED
  BY AsideFinite, <1>6, FS_CardinalityType

LEMMA OneStatusHolds == ASSUME Aside!SideActivitiesAssumption, Aside!IInv PROVE Aside!OneStatus
<1> DEFINE L == Aside!Late("comment")
<1>1. Aside!IsFiniteSet(L) /\ Aside!Cardinality(L) \in Nat
  BY LateFinite DEF Aside!Kinds
<1>2. PICK adders \in SUBSET Aside!Tried :
        /\ Aside!IsFiniteSet(adders)
        /\ Aside!Cardinality(adders) = Aside!Cardinality(Aside!Statuses)
        /\ (\E i \in Aside!Statuses : i > CommentsPerPage) \/ \A a, b \in adders \ L : a = b
  BY DEF Aside!IInv, Aside!AddersOK
<1>3. Aside!Cardinality(Aside!Statuses) <= 1 + Aside!Cardinality(L)
        \/ \E i \in Aside!Statuses : i > CommentsPerPage
  <2>1. SUFFICES ASSUME \A a,
                 b \in adders \ L : a
                   = b PROVE Aside!Cardinality(adders) <= 1 + Aside!Cardinality(L)
    BY <1>2
  <2>2. /\ Aside!Cardinality(adders \ L)
             = Aside!Cardinality(adders) - Aside!Cardinality(adders \cap L)
        /\ Aside!IsFiniteSet(adders \ L) /\ Aside!IsFiniteSet(adders \cap L)
    BY AsideFinite, <1>2, FS_Difference, FS_Intersection
  <2>3. Aside!Cardinality(adders \cap L) <= Aside!Cardinality(L)
    <3>1. adders \cap L \in SUBSET L
      OBVIOUS
    <3> QED
      BY AsideFinite, <1>1, <3>1, FS_Subset
  <2>4. Aside!Cardinality(adders \ L) <= 1
    <3>1. CASE adders \ L = {}
      BY AsideFinite, <3>1, FS_EmptySet
    <3>2. CASE adders \ L # {}
      <4>1. PICK a : a \in adders \ L
        BY <3>2
      <4>2. adders \ L = {a}
        BY <2>1, <4>1
      <4> QED
        BY AsideFinite, <4>2, FS_Singleton
    <3> QED
      BY <3>1, <3>2
  <2>5. Aside!Cardinality(adders) \in Nat /\ Aside!Cardinality(adders \cap L) \in Nat
    BY AsideFinite, <1>2, <2>2, FS_CardinalityType
  <2> QED
    BY <1>1, <2>2, <2>3, <2>4, <2>5
<1> QED
  BY <1>3 DEF Aside!OneStatus, Aside!IInv, Aside!CommentsOK

LEMMA AuditHolds == ASSUME Aside!SideActivitiesAssumption, Aside!IInv PROVE Aside!AuditIsTrue
<1>1. Aside!TypeOK /\ Aside!AttemptsOK /\ Aside!RowsOK /\ Aside!EventsOK
  BY DEF Aside!IInv
<1>2. ASSUME NEW j \in Aside!Jobs, Aside!Kind(j) = "audit"
      PROVE  LET stored == { i \in DOMAIN v5 : v5[i] = Aside!Number(j) }
             IN /\ Aside!Cardinality(stored) <= Len(v3[j])
                /\ v2[j] = "answered" /\ stored = {} => \E k \in DOMAIN v3[j] : << j, k >> \in v8
  <2> DEFINE stored == { i \in DOMAIN v5 : v5[i] = Aside!Number(j) }
             keepers == { k \in DOMAIN v3[j] : v3[j][k].found \in stored }
             keeps == [ k \in keepers |-> v3[j][k].found ]
  <2>1. \A i \in stored : \E k \in DOMAIN v3[j] : v3[j][k].found = i
    <3>1. ASSUME NEW i \in stored PROVE \E k \in DOMAIN v3[j] : v3[j][k].found = i
      <4>1. PICK l \in Aside!Jobs : \E k \in DOMAIN v3[l] :
              Aside!Kind(l) = "audit" /\ Aside!Number(l) = v5[i] /\ v3[l][k].found = i
        BY <1>1 DEF Aside!RowsOK
      <4>2. l = j
        BY <1>2, <4>1, JobsAre
      <4> QED
        BY <4>1, <4>2
    <3> QED
      BY <3>1
  <2>2. DOMAIN v3[j] = 1..Len(v3[j]) /\ Len(v3[j]) \in Nat
    BY <1>1, JobIs
  <2>3. Aside!Cardinality(stored) <= Len(v3[j])
    <3>1. keepers \subseteq 1..Len(v3[j])
      BY <2>2
    <3>2. /\ Aside!IsFiniteSet(1..Len(v3[j])) /\ Aside!Cardinality(1..Len(v3[j])) = Len(v3[j])
      BY <2>2, CountIs
    <3>3. Aside!IsFiniteSet(keepers) /\ Aside!Cardinality(keepers) <= Len(v3[j])
      BY AsideFinite, <3>1, <3>2, FS_Subset
    <3>4. keeps \in Surjection(keepers, stored)
      <4>1. keeps \in [ keepers -> stored ]
        OBVIOUS
      <4>2. \A i \in stored : \E k \in keepers : keeps[k] = i
        BY <2>1
      <4> HIDE DEF keeps, keepers, stored
      <4> QED
        BY <4>1, <4>2 DEF Surjection
    <3> HIDE DEF keeps, keepers, stored
    <3>5. Aside!IsFiniteSet(stored) /\ Aside!Cardinality(stored) <= Aside!Cardinality(keepers)
      BY AsideFinite, <3>3, <3>4, FS_Surjection
    <3>6. Aside!Cardinality(stored) \in Nat /\ Aside!Cardinality(keepers) \in Nat
      BY AsideFinite, <3>3, <3>5, FS_CardinalityType
    <3> QED
      BY <2>2, <3>3, <3>5, <3>6
  <2>4. ASSUME v2[j] = "answered", stored = {}
        PROVE  \E k \in DOMAIN v3[j] : << j, k >> \in v8
    <3> DEFINE k == Len(v3[j])
    <3>1. v3[j] # << >> /\ v3[j][k].at = "done"
      BY <1>1, <2>4 DEF Aside!AttemptsOK
    <3>2. k \in DOMAIN v3[j]
      <4>1. v3[j] \in Seq(Cell)
        BY <1>1, JobIs
      <4>2. k # 0
        BY <3>1, <4>1, EmptyIs
      <4> QED
        BY <2>2, <4>2
    <3>3. IF v3[j][k].found = 0 THEN << j, k >> \in v8
          ELSE v3[j][k].found \in DOMAIN v5 /\ v5[v3[j][k].found] = Aside!Number(j)
      BY <1>1, <1>2, <3>1, <3>2 DEF Aside!RowsOK
    <3>4. v3[j][k].found \notin stored
      BY <2>4
    <3> QED
      BY <3>2, <3>3, <3>4
  <2> QED
    BY <2>3, <2>4
<1> QED
  BY <1>1, <1>2 DEF Aside!AuditIsTrue, Aside!EventsOK

LEMMA AskedOnceHolds == ASSUME Aside!SideActivitiesAssumption, Aside!IInv PROVE Aside!AskedOnce
<1> DEFINE L == Aside!Late("request")
<1>1. Aside!IsFiniteSet(L) /\ Aside!Cardinality(L) \in Nat
  BY LateFinite DEF Aside!Kinds
<1>2. Aside!TypeOK /\ Aside!PostsOK /\ v7 \in Nat
  BY DEF Aside!IInv, Aside!TypeOK
<1>3. CASE v7 = 0
  BY <1>1, <1>3 DEF Aside!AskedOnce
<1>4. CASE v7 # 0
  <2>1. PICK j \in v1 : Aside!Kind(j) = "request" /\ v7 <= Aside!Cardinality(Done(v3[j]))
    BY <1>2, <1>4, PostsAre
  <2> DEFINE n == Len(v3[j])
             late == [ k \in 1..(n - 1) |-> << j, k >> ]
  <2>2. j \in Aside!Jobs /\ n \in Nat /\ DOMAIN v3[j] = 1..n /\ v3[j] \in Seq(Cell)
    BY <1>2, PlanIs, JobIs
  <2>3. v7 <= n /\ n - 1 \in Nat
    BY <1>2, <1>4, <2>1, <2>2, AsideDoneIs
  <2>4. late \in Injection(1..(n - 1), L)
    <3>1. ASSUME NEW k \in 1..(n - 1) PROVE << j, k >> \in L
      <4>1. k \in DOMAIN v3[j] /\ k # n
        BY <2>2, <2>3
      <4> QED
        BY <2>1, <2>2, <4>1, LateOf
    <3>2. late \in [ 1..(n - 1) -> L ]
      BY <3>1
    <3>3. \A k, h \in 1..(n - 1) : late[k] = late[h] => k = h
      OBVIOUS
    <3> HIDE DEF late
    <3> QED
      BY <3>2, <3>3 DEF Injection, IsInjective
  <2>5. Aside!Cardinality(1..(n - 1)) = n - 1
    BY <2>3, CountIs
  <2> HIDE DEF late, n
  <2>6. Aside!Cardinality(1..(n - 1)) <= Aside!Cardinality(L)
    BY AsideFinite, <1>1, <2>4, FS_Injection
  <2> QED
    BY <1>1, <1>2, <2>2, <2>3, <2>5, <2>6 DEF Aside!AskedOnce
<1> QED
  BY <1>3, <1>4

LEMMA AsideSteps ==
  ASSUME focus = "aside", [Next]_v
  PROVE  focus' = "aside" /\ [Aside!Next]_Aside!vars
  BY DEF Next, v, Aside!vars, Kept10

LEMMA AsideInvariant == Spec => [](focus = "aside" => Aside!IInv)
<1> DEFINE Inv == focus = "aside" => Aside!IInv
<1>1. Init => Inv
  BY AsideAssumption, AsideInvInit DEF Init
<1>2. Inv /\ [Next]_v => Inv'
  BY AsideAssumption, AsideInvNext, AsideSteps, FocusIsKept
<1> QED
  BY <1>1, <1>2, PTL DEF Spec

\* src/workflow/activities.py: whatever attempts overlap, time out, fail or die with their
\* worker, the issue has one status comment and people are asked once, and once more at
\* most for each attempt that outlived its time; an audited signal has its row, and its
\* event names it.
THEOREM AsidesAreSound == Spec => []AsidesAreTrue
<1>1. (focus = "aside" => Aside!IInv) => AsidesAreTrue
  BY OneStatusHolds, AuditHolds, AskedOnceHolds, AsideAssumption DEF AsidesAreTrue
<1> QED
  BY <1>1, AsideInvariant, PTL

-----------------------------------------------------------------------------
(* What the poller, the stream and the consumers say together *)

\* src/ingress/poll moves poll_since past no issue that was not seen, a tab that
\* reconnects misses no event unawares, and a consumer acknowledges only what
\* it has acted on: however many issues, events and messages there are.
THEOREM NothingFallsBetween == Spec => []NothingIsLost
<1>1. /\ focus = "poller" => Poller!IInv
      /\ focus = "events" => Events!IInv
      /\ focus = "dashboard" => Dashboard!IInv
      => NothingIsLost
  BY DEF NothingIsLost, Poller!IInv, Events!IInv, Dashboard!IInv
<1> QED
  BY <1>1, PollerInvariant, EventsInvariant, DashboardInvariant, PTL

=============================================================================
