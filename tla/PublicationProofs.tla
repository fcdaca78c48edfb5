-------------------------- MODULE PublicationProofs -------------------------
(***************************************************************************)
(* Proofs about Publication: what each attempt may rely on while others go *)
(* on beside it, and from it that whatever is called published was         *)
(* delivered and that a rejection stands where it was seen, for any number *)
(* of attempts and of disturbances.                                        *)
(***************************************************************************)
EXTENDS Publication, FiniteSets, SequenceTheorems, FiniteSetTheorems, TLAPS

EditPoints == { "comment", "label", "unlabel", "done", "tier", "ready" }

\* What has been done to its pull request by an attempt that is at point p.
HasEvidence(created, p) ==
  IF created THEN p \in { "label", "unlabel", "done", "tier", "ready", "check", "write" }
             ELSE p \in { "ready", "tier", "check", "write" }
HasTier(created, p) ==
  IF created THEN p \in { "ready", "check", "write" } ELSE p \in { "check", "write" }
HasReadyState(created, p) ==
  IF created THEN p \in { "check", "write" } ELSE p \in { "tier", "check", "write" }

\* What attempt n knows: it has a link of the chain to go through, it creates
\* one pull request at most, it edited the pull request it is at, and it reports
\* what was delivered.
LocalOK(n) ==
  LET me == attempt[n] IN
  /\ me.at = "start" => me.link = 1
  /\ me.at \in { "chain", "advance" } => me.link \in 1..4
  /\ me.at \in { "idle", "start", "chain", "advance", "lookup", "branch", "create" } => ~me.created
  /\ me.at \in { "branch", "create" } => me.mode = mergeMode
  /\ me.at \in EditPoints \cup { "check", "write" } =>
       me.pr \in 1..Len(prs) /\ me.mode = mergeMode
  /\ HasEvidence(me.created, me.at) => prs[me.pr].evidence
  /\ HasTier(me.created, me.at) => prs[me.pr].tiered
  /\ HasReadyState(me.created, me.at) =>
       (prs[me.pr].draft => ~ShouldMarkReady(repoTier, me.mode))
  /\ me.at = "report" /\ hasToken => \E p \in 1..Len(prs) : Complete(p)

\* Attempts that the service has not started yet.
IdleOK ==
  \A n \in Attempts : n > current =>
    attempt[n].at = "idle" /\ attempt[n].link = 1 /\ ~attempt[n].created

\* Each pull request has an attempt that created it.
CountOK == Len(prs) = Cardinality({ n \in Attempts : attempt[n].created })

\* Only the tiers that publish for review make a pull request ready.
DraftOK == \A p \in 1..Len(prs) : ~prs[p].draft => repoTier \in { "suggest", "execute" }

IInv == /\ TypeOK /\ IdleOK /\ CountOK /\ DraftOK /\ PublishedMeansDelivered
        /\ \A n \in Attempts : LocalOK(n)

\* The names the steps write, so that the proofs need not expand the enumerations.
LEMMA Names ==
  /\ "idle" \in Points /\ "start" \in Points /\ "chain" \in Points
  /\ "advance" \in Points /\ "lookup" \in Points /\ "branch" \in Points
  /\ "create" \in Points /\ "comment" \in Points /\ "label" \in Points
  /\ "unlabel" \in Points /\ "done" \in Points /\ "tier" \in Points
  /\ "ready" \in Points /\ "check" \in Points /\ "write" \in Points
  /\ "report" \in Points /\ "returned" \in Points /\ "raised" \in Points
  /\ "published" \in Statuses
  /\ "enriched" \in Statuses /\ "intent_built" \in Statuses
  /\ "in_progress" \in Statuses /\ "verification_passed" \in Statuses
BY DEF Points, Statuses

\* The chain has four links, and none of them is reached from "rejected".
LEMMA Chain ==
  /\ Len(StatusChain) = 4
  /\ \A i \in 1..4 : StatusChain[i] \in Statuses \ { "rejected", "published" }
  /\ \A i \in 1..4 : ~MayMove("rejected", StatusChain[i])
  /\ ~MayMove("rejected", "published")
<1>1. Len(StatusChain) = 4
  BY DEF StatusChain
<1>2. /\ StatusChain[1] = "enriched" /\ StatusChain[2] = "intent_built"
      /\ StatusChain[3] = "in_progress" /\ StatusChain[4] = "verification_passed"
  BY DEF StatusChain
<1>3. \A i \in 1..4 : i = 1 \/ i = 2 \/ i = 3 \/ i = 4
  OBVIOUS
<1>4. \A s : MayMove("rejected", s) => s = "failed"
  BY DEF MayMove, AllowedTransitions
<1> QED BY <1>1, <1>2, <1>3, <1>4, Names

\* The workflow reaches its publish stage, and the first attempt is started.
LEMMA InvInit == Init => IInv
<1>1. SUFFICES ASSUME Init PROVE IInv
  OBVIOUS
<1>2. /\ prs = << >> /\ Len(prs) = 0 /\ prs \in Seq(PullRequest)
  BY <1>1, EmptySeq DEF Init
<1>3. /\ 1 \in Attempts /\ Attempts \subseteq Nat
      /\ \A n \in Attempts : n > 1 => n # 1
  BY PublicationAssumption DEF Attempts
<1>4. /\ NotStarted \in Locals
      /\ [ NotStarted EXCEPT !.at = "start" ] \in Locals
  <2>1. 1 \in 1..Len(StatusChain) + 1 /\ 0 \in 0..MaxAttempts
    BY Chain, PublicationAssumption
  <2> QED BY <2>1, Names DEF NotStarted, Locals
<1>5. /\ attempt \in [ Attempts -> Locals ]
      /\ \A n \in Attempts : attempt[n].at = (IF n = 1 THEN "start" ELSE "idle")
      /\ \A n \in Attempts : attempt[n].link = 1 /\ ~attempt[n].created
  BY <1>1, <1>4 DEF Init, NotStarted
<1>6. TypeOK
  BY <1>1, <1>2, <1>3, <1>5, PublicationAssumption DEF Init, TypeOK
<1>7. IdleOK /\ DraftOK
  BY <1>1, <1>2, <1>3, <1>5 DEF Init, IdleOK, DraftOK
<1>8. CountOK
  <2>1. { n \in Attempts : attempt[n].created } = {}
    BY <1>5
  <2> QED BY <1>2, <2>1, FS_EmptySet DEF CountOK
<1>9. PublishedMeansDelivered
  BY <1>1, PublicationAssumption DEF Init, PublishedMeansDelivered
<1>10. \A n \in Attempts : LocalOK(n)
  BY <1>5 DEF LocalOK, EditPoints, HasEvidence, HasTier, HasReadyState
<1> QED BY <1>6, <1>7, <1>8, <1>9, <1>10 DEF IInv

-----------------------------------------------------------------------------
(* What a step of one attempt does to the others *)

\* An attempt that the service starts.
Starts(m) ==
  /\ attempt'[m].at = "start" /\ attempt'[m].link = 1
  /\ ~attempt'[m].created /\ ~attempt[m].created

\* Attempt n goes to point `at', the service may start the next one.
Moved(n, at) ==
  /\ attempt' \in [ Attempts -> Locals ]
  /\ attempt'[n].at = at
  /\ \A m \in Attempts : m # n => attempt'[m] = attempt[m] \/ Starts(m)
  /\ current' \in Attempts
  /\ result' \in { "pending", "success", "failed" }
  /\ IdleOK'

\* Its other locals stay.
SameLocals(n) ==
  /\ attempt'[n].link = attempt[n].link /\ attempt'[n].pr = attempt[n].pr
  /\ attempt'[n].created = attempt[n].created /\ attempt'[n].mode = attempt[n].mode

\* Pull requests are never removed and never lose what was done to them.
PullRequestsGrow ==
  /\ Len(prs) <= Len(prs)'
  /\ \A p \in 1..Len(prs) :
       /\ prs[p].evidence => prs'[p].evidence
       /\ prs[p].tiered => prs'[p].tiered
       /\ prs'[p].draft => prs[p].draft

\* The attempt that takes a step has been started.
LEMMA RunningIsStarted ==
  ASSUME IInv, NEW n \in Attempts, attempt[n].at # "idle" PROVE n <= current
BY DEF IInv, IdleOK, TypeOK, Attempts

\* An attempt goes on.
LEMMA GoesOn ==
  ASSUME IInv, NEW n \in Attempts, attempt[n].at # "idle", NEW at \in Points, GoOn(n, at)
  PROVE  Moved(n, at) /\ SameLocals(n) /\ result' = result
<1>1. n <= current /\ attempt \in [ Attempts -> Locals ]
  BY RunningIsStarted DEF IInv, TypeOK
<1>2. attempt' = [ attempt EXCEPT ![n].at = at ] /\ UNCHANGED << current, result >>
  BY DEF GoOn, service
<1>3. /\ attempt' \in [ Attempts -> Locals ] /\ attempt'[n].at = at /\ SameLocals(n)
      /\ \A m \in Attempts : m # n => attempt'[m] = attempt[m]
  BY <1>1, <1>2 DEF Locals, SameLocals
<1>4. IdleOK'
  BY <1>1, <1>2, <1>3 DEF IInv, TypeOK, IdleOK, Attempts
<1> QED BY <1>2, <1>3, <1>4 DEF Moved, IInv, TypeOK

\* The service gives up the attempt it waits for.
LEMMA Retries ==
  ASSUME IInv, NEW n \in Attempts, n = current, NEW at \in Points, Retry(n, at)
  PROVE  Moved(n, at) /\ SameLocals(n) /\ (result' = result \/ result' = "failed")
<1>1. attempt \in [ Attempts -> Locals ] /\ n \in Nat /\ MaxAttempts \in Nat
  BY PublicationAssumption DEF IInv, TypeOK, Attempts
<1>2. CASE n < MaxAttempts
  <2>1. /\ attempt' = [ attempt EXCEPT ![n].at = at, ![n + 1].at = "start" ]
        /\ current' = n + 1 /\ result' = result
    BY <1>2 DEF Retry
  <2>2. n + 1 \in Attempts /\ n + 1 # n
    BY <1>1, <1>2 DEF Attempts
  <2>3. /\ attempt' \in [ Attempts -> Locals ]
        /\ attempt'[n].at = at /\ SameLocals(n)
        /\ \A m \in Attempts : m # n /\ m # n + 1 => attempt'[m] = attempt[m]
        /\ attempt'[n + 1].at = "start" /\ attempt'[n + 1].link = attempt[n + 1].link
        /\ attempt'[n + 1].created = attempt[n + 1].created
    <3>1. /\ attempt' = [ m \in Attempts |->
                            IF m = n + 1 THEN [ attempt[n + 1] EXCEPT !.at = "start" ]
                            ELSE IF m = n THEN [ attempt[n] EXCEPT !.at = at ] ELSE attempt[m] ]
          /\ attempt[n] \in Locals /\ attempt[n + 1] \in Locals
      BY <1>1, <2>1, <2>2
    <3>2. /\ attempt'[n] = [ attempt[n] EXCEPT !.at = at ]
          /\ attempt'[n + 1] = [ attempt[n + 1] EXCEPT !.at = "start" ]
          /\ \A m \in Attempts : m # n /\ m # n + 1 => attempt'[m] = attempt[m]
      BY <2>2, <3>1
    <3>3. [ attempt[n] EXCEPT !.at = at ] \in Locals
          /\ [ attempt[n + 1] EXCEPT !.at = "start" ] \in Locals
      BY <3>1, Names DEF Locals
    <3>4. attempt' \in [ Attempts -> Locals ]
      BY <1>1, <3>1, <3>3
    <3>5. attempt'[n].at = at /\ SameLocals(n)
      BY <3>1, <3>2 DEF Locals, SameLocals
    <3>6. /\ attempt'[n + 1].at = "start" /\ attempt'[n + 1].link = attempt[n + 1].link
          /\ attempt'[n + 1].created = attempt[n + 1].created
      BY <3>1, <3>2 DEF Locals
    <3> QED BY <3>2, <3>4, <3>5, <3>6
  <2>4. attempt[n + 1].link = 1 /\ ~attempt[n + 1].created
    BY <1>1, <2>2 DEF IInv, IdleOK
  <2>5. IdleOK'
    BY <1>1, <2>1, <2>2, <2>3 DEF IInv, IdleOK, Attempts
  <2> QED BY <2>1, <2>2, <2>3, <2>4, <2>5 DEF Moved, Starts, IInv, TypeOK
<1>3. CASE ~(n < MaxAttempts)
  <2>1. attempt' = [ attempt EXCEPT ![n].at = at ] /\ result' = "failed" /\ current' = current
    BY <1>3 DEF Retry
  <2>2. /\ attempt' \in [ Attempts -> Locals ] /\ attempt'[n].at = at /\ SameLocals(n)
        /\ \A m \in Attempts : m # n => attempt'[m] = attempt[m]
    BY <1>1, <2>1 DEF Locals, SameLocals
  <2>3. IdleOK'
    BY <2>1, <2>2 DEF IInv, TypeOK, IdleOK, Attempts
  <2> QED BY <2>1, <2>2, <2>3 DEF Moved, IInv, TypeOK
<1> QED BY <1>2, <1>3

\* An attempt raises.
LEMMA Raises ==
  ASSUME IInv, NEW n \in Attempts, attempt[n].at # "idle", Raise(n)
  PROVE  Moved(n, "raised") /\ SameLocals(n) /\ (result' = result \/ result' = "failed")
<1>1. CASE n = current /\ result = "pending"
  <2>1. Retry(n, "raised")
    BY <1>1 DEF Raise
  <2> QED BY <1>1, <2>1, Names, Retries
<1>2. CASE ~(n = current /\ result = "pending")
  <2>1. GoOn(n, "raised")
    BY <1>2 DEF Raise, GoOn
  <2> QED BY <2>1, Names, GoesOn
<1> QED BY <1>1, <1>2

\* An attempt goes through a link of the chain.
LEMMA GoesThrough ==
  ASSUME IInv, NEW n \in Attempts, attempt[n].at \in { "chain", "advance" }, NextLink(n)
  PROVE  /\ \E at \in { "chain", "lookup" } : Moved(n, at)
         /\ attempt'[n].at = "chain" => attempt'[n].link \in 1..4
         /\ attempt'[n].created = attempt[n].created /\ result' = result
<1>1. n <= current /\ attempt \in [ Attempts -> Locals ] /\ attempt[n].link \in 1..4
  BY RunningIsStarted DEF IInv, TypeOK, LocalOK
<1>2. PICK at \in { "chain", "lookup" } :
        /\ at = IF attempt[n].link = 4 THEN "lookup" ELSE "chain"
        /\ attempt' = [ attempt EXCEPT ![n].link = @ + 1, ![n].at = at ]
        /\ UNCHANGED << current, result >>
  BY Chain DEF NextLink, service
<1>3. /\ attempt' \in [ Attempts -> Locals ] /\ attempt'[n].at = at
      /\ attempt'[n].link = attempt[n].link + 1
      /\ attempt'[n].created = attempt[n].created
      /\ \A m \in Attempts : m # n => attempt'[m] = attempt[m]
  <2>1. attempt[n].link + 1 \in 1..Len(StatusChain) + 1 /\ at \in Points
    BY <1>1, Names, Chain
  <2>2. [ attempt[n] EXCEPT !.link = @ + 1, !.at = at ] \in Locals
    BY <1>1, <2>1 DEF Locals
  <2>3. attempt' = [ attempt EXCEPT ![n] = [ attempt[n] EXCEPT !.link = @ + 1, !.at = at ] ]
    BY <1>1, <1>2
  <2>4. attempt[n] \in Locals
    BY <1>1
  <2> QED BY <1>1, <2>2, <2>3, <2>4 DEF Locals
<1>4. IdleOK'
  BY <1>1, <1>2, <1>3 DEF IInv, TypeOK, IdleOK, Attempts
<1>5. Moved(n, at)
  BY <1>2, <1>3, <1>4 DEF Moved, IInv, TypeOK
<1> QED BY <1>1, <1>2, <1>3, <1>5

-----------------------------------------------------------------------------
(* What stays true while others take steps *)

\* What is complete stays complete.
LEMMA CompleteStays ==
  ASSUME TypeOK, PullRequestsGrow, DraftOK', UNCHANGED << repoTier, mergeMode >>,
         Len(prs)' \in Nat, NEW p \in 1..Len(prs), Complete(p)
  PROVE  p \in 1..Len(prs') /\ Complete(p)'
<1>1. Len(prs) \in Nat
  BY LenProperties DEF TypeOK
<1>2. p \in 1..Len(prs')
  BY <1>1 DEF PullRequestsGrow
<1> QED BY <1>2 DEF Complete, PullRequestsGrow, DraftOK, ShouldMarkReady

\* An attempt that takes no step knows what it knew.
LEMMA LocalStays ==
  ASSUME IInv, NEW m \in Attempts, attempt'[m] = attempt[m],
         PullRequestsGrow, DraftOK', Len(prs)' \in Nat,
         UNCHANGED << repoTier, hasToken, mergeMode >>
  PROVE  LocalOK(m)'
<1> DEFINE me == attempt[m]
<1>1. LocalOK(m)
  BY DEF IInv
<1>2. Len(prs) \in Nat
  BY LenProperties DEF IInv, TypeOK
<1>3. me.at \in EditPoints \cup { "check", "write" } =>
        me.pr \in 1..Len(prs) /\ me.pr \in 1..Len(prs)' /\ me.mode = mergeMode
  BY <1>1, <1>2 DEF LocalOK, PullRequestsGrow
<1>4. HasEvidence(me.created, me.at) \/ HasTier(me.created, me.at) \/ HasReadyState(me.created, me.at)
        => me.at \in EditPoints \cup { "check", "write" }
  BY DEF HasEvidence, HasTier, HasReadyState, EditPoints
<1>5. me.at = "report" /\ hasToken => \E p \in 1..Len(prs') : Complete(p)'
  BY <1>1, CompleteStays DEF LocalOK, IInv
<1>6. /\ HasEvidence(me.created, me.at) => prs'[me.pr].evidence
      /\ HasTier(me.created, me.at) => prs'[me.pr].tiered
      /\ HasReadyState(me.created, me.at) =>
           (prs'[me.pr].draft => ~ShouldMarkReady(repoTier, me.mode))
  BY <1>1, <1>3, <1>4 DEF LocalOK, PullRequestsGrow
<1>7. /\ me.at = "start" => me.link = 1
      /\ me.at \in { "chain", "advance" } => me.link \in 1..4
      /\ me.at \in { "idle", "start", "chain", "advance", "lookup", "branch", "create" } => ~me.created
      /\ me.at \in { "branch", "create" } => me.mode = mergeMode
  BY <1>1 DEF LocalOK
<1>8. (ShouldMarkReady(repoTier, attempt[m].mode))' = ShouldMarkReady(repoTier, me.mode)
  BY DEF ShouldMarkReady
<1>9. attempt'[m] = me
  OBVIOUS
<1> QED BY <1>3, <1>5, <1>6, <1>7, <1>8, <1>9 DEF LocalOK

\* An attempt that is started knows nothing yet.
LEMMA StartedIsOK == ASSUME NEW m \in Attempts, Starts(m) PROVE LocalOK(m)'
BY DEF Starts, LocalOK, EditPoints, HasEvidence, HasTier, HasReadyState

\* A step of attempt n that leaves the others in peace, and n with what it must
\* know where it is now.
LEMMA StepKeeps ==
  ASSUME IInv, NEW n \in Attempts, NEW at \in Points, Moved(n, at), LocalOK(n)',
         row' \in [ status : Statuses, prNumber : 0..MaxAttempts ],
         branch' \in BOOLEAN, prs' \in Seq(PullRequest),
         disturbances' \in 0..MaxDisturbances, UNCHANGED settings,
         PullRequestsGrow, DraftOK', CountOK',
         row'.status = "published" =>
           row.status = "published" \/ \E p \in 1..Len(prs') : Complete(p)',
         result' = "success" =>
           result = "success" \/ (hasToken => \E p \in 1..Len(prs') : Complete(p)')
  PROVE  IInv'
<1>1. UNCHANGED << repoTier, hasToken, mergeMode >> /\ Len(prs)' \in Nat /\ Len(prs) \in Nat
  BY LenProperties DEF settings, IInv, TypeOK
<1>2. ASSUME NEW m \in Attempts PROVE LocalOK(m)'
  BY <1>1, LocalStays, StartedIsOK DEF Moved
<1>3. PublishedMeansDelivered'
  <2>1. (\E p \in 1..Len(prs) : Complete(p)) => \E p \in 1..Len(prs') : Complete(p)'
    BY <1>1, CompleteStays DEF IInv
  <2> QED BY <1>1, <2>1 DEF IInv, PublishedMeansDelivered
<1>4. Len(prs)' <= MaxAttempts
  <2>1. IsFiniteSet(Attempts) /\ Cardinality(Attempts) = MaxAttempts
    BY FS_Interval, PublicationAssumption DEF Attempts
  <2>2. Cardinality({ m \in Attempts : attempt'[m].created }) <= Cardinality(Attempts)
    BY <2>1, FS_Subset
  <2> QED BY <1>1, <2>1, <2>2 DEF CountOK
<1>5. TypeOK'
  BY <1>1, <1>4 DEF Moved, IInv, TypeOK
<1> QED BY <1>2, <1>3, <1>5 DEF Moved, IInv

\* No attempt has created a pull request in this step.
LEMMA CountRests ==
  ASSUME IInv, UNCHANGED prs, \A m \in Attempts : attempt'[m].created = attempt[m].created
  PROVE  CountOK'
<1>1. { m \in Attempts : attempt'[m].created } = { m \in Attempts : attempt[m].created }
  OBVIOUS
<1> QED BY <1>1 DEF IInv, CountOK

\* The steps that leave GitHub alone.
LEMMA LocalStep ==
  ASSUME IInv, NEW n \in Attempts, NEW at \in Points, Moved(n, at), LocalOK(n)',
         row' \in [ status : Statuses, prNumber : 0..MaxAttempts ],
         branch' \in BOOLEAN, UNCHANGED << prs, settings >>,
         disturbances' \in 0..MaxDisturbances,
         attempt'[n].created = attempt[n].created,
         row'.status = "published" =>
           row.status = "published" \/ \E p \in 1..Len(prs) : Complete(p),
         result' = "success" =>
           result = "success" \/ (hasToken => \E p \in 1..Len(prs) : Complete(p))
  PROVE  IInv'
<1>1. Len(prs) \in Nat /\ prs' \in Seq(PullRequest)
  BY LenProperties DEF IInv, TypeOK
<1>2. \A m \in Attempts : attempt'[m].created = attempt[m].created
  BY DEF Moved, Starts, IInv, TypeOK, Locals
<1>3. CountOK'
  BY <1>2, CountRests
<1>4. DraftOK' /\ PullRequestsGrow
  BY <1>1 DEF IInv, DraftOK, PullRequestsGrow, settings
<1>5. (\E p \in 1..Len(prs) : Complete(p)) => \E p \in 1..Len(prs') : Complete(p)'
  BY DEF Complete, settings, ShouldMarkReady
<1> QED BY <1>1, <1>3, <1>4, <1>5, StepKeeps

\* An attempt that is over knows nothing more.
LEMMA OverIsOK ==
  ASSUME NEW n \in Attempts, attempt'[n].at \in { "raised", "returned" } PROVE LocalOK(n)'
BY DEF LocalOK, EditPoints, HasEvidence, HasTier, HasReadyState

-----------------------------------------------------------------------------
(* The steps *)

\* The token, the chain of transitions and the branch.
LEMMA BeginningStep ==
  ASSUME IInv, NEW n \in Attempts,
         Start(n) \/ ChainReads(n) \/ ChainWrites(n) \/ CreateBranch(n)
  PROVE  IInv'
<1>1. LocalOK(n) /\ row \in [ status : Statuses, prNumber : 0..MaxAttempts ]
      /\ branch \in BOOLEAN /\ disturbances \in 0..MaxDisturbances
  BY DEF IInv, TypeOK
<1>2. CASE Start(n)
  <2>1. PICK at \in { "chain", "report" } : GoOn(n, at) /\ (at = "report" => ~hasToken)
    BY <1>2 DEF Start
  <2>2. Moved(n, at) /\ SameLocals(n) /\ result' = result
    BY <1>2, <2>1, GoesOn, Names DEF Start
  <2>3. LocalOK(n)'
    BY <1>1, <1>2, <2>1, <2>2 DEF LocalOK, Start, Moved, SameLocals, settings, EditPoints,
       HasEvidence, HasTier, HasReadyState
  <2>4. UNCHANGED << row, branch, prs, settings, disturbances >>
    BY <1>2 DEF Start, github
  <2> QED BY <1>1, <2>2, <2>3, <2>4, Names, LocalStep DEF SameLocals, IInv, PublishedMeansDelivered
<1>3. CASE ChainReads(n)
  <2>1. attempt[n].at = "chain" /\ attempt[n].link \in 1..4 /\ ~attempt[n].created
    BY <1>1, <1>3 DEF ChainReads, LocalOK
  <2>2. UNCHANGED << row, branch, prs, settings, disturbances >>
    BY <1>3 DEF ChainReads, github
  <2>3. CASE MayMove(row.status, StatusChain[attempt[n].link]) /\ GoOn(n, "advance")
    <3>1. Moved(n, "advance") /\ SameLocals(n) /\ result' = result
      BY <2>1, <2>3, GoesOn, Names
    <3>2. LocalOK(n)'
      BY <2>1, <2>2, <3>1 DEF LocalOK, Moved, SameLocals, EditPoints,
         HasEvidence, HasTier, HasReadyState
    <3> QED BY <1>1, <2>2, <3>1, <3>2, Names, LocalStep DEF SameLocals
  <2>4. CASE NextLink(n)
    <3>1. PICK at \in { "chain", "lookup" } : Moved(n, at)
      BY <2>1, <2>4, GoesThrough
    <3>2. /\ attempt'[n].at = "chain" => attempt'[n].link \in 1..4
          /\ attempt'[n].created = attempt[n].created /\ result' = result
      BY <2>1, <2>4, GoesThrough
    <3>3. LocalOK(n)'
      BY <2>1, <3>1, <3>2 DEF LocalOK, Moved, EditPoints, HasEvidence, HasTier, HasReadyState
    <3> QED BY <1>1, <2>2, <3>1, <3>2, <3>3, Names, LocalStep
  <2> QED BY <1>3, <2>3, <2>4 DEF ChainReads
<1>4. CASE ChainWrites(n)
  <2>1. attempt[n].at = "advance" /\ attempt[n].link \in 1..4 /\ ~attempt[n].created
    BY <1>1, <1>4 DEF ChainWrites, LocalOK
  <2>2. UNCHANGED << branch, prs, settings, disturbances >>
        /\ row' \in [ status : Statuses, prNumber : 0..MaxAttempts ]
        /\ row'.status # "published"
    BY <1>1, <1>4, <2>1, Chain DEF ChainWrites, github
  <2>3. PICK at \in { "chain", "lookup" } : Moved(n, at)
    BY <1>4, <2>1, GoesThrough DEF ChainWrites
  <2>4. /\ attempt'[n].at = "chain" => attempt'[n].link \in 1..4
        /\ attempt'[n].created = attempt[n].created /\ result' = result
    BY <1>4, <2>1, GoesThrough DEF ChainWrites
  <2>5. LocalOK(n)'
    BY <2>1, <2>3, <2>4 DEF LocalOK, Moved, EditPoints, HasEvidence, HasTier, HasReadyState
  <2> QED BY <1>1, <2>2, <2>3, <2>4, <2>5, Names, LocalStep
<1>5. CASE CreateBranch(n)
  <2>1. Moved(n, "create") /\ SameLocals(n) /\ result' = result
    BY <1>5, GoesOn, Names DEF CreateBranch
  <2>2. UNCHANGED << row, prs, settings, disturbances >> /\ branch' \in BOOLEAN
    BY <1>5 DEF CreateBranch
  <2>3. LocalOK(n)'
    BY <1>1, <1>5, <2>1, <2>2 DEF LocalOK, CreateBranch, Moved, SameLocals, EditPoints,
       HasEvidence, HasTier, HasReadyState, settings
  <2> QED BY <1>1, <2>1, <2>2, <2>3, Names, LocalStep DEF SameLocals
<1> QED BY <1>2, <1>3, <1>4, <1>5

\* An open pull request of the branch is found, or there is none.
LEMMA LookUpStep == ASSUME IInv, NEW n \in Attempts, LookUp(n) PROVE IInv'
<1>1. /\ LocalOK(n) /\ n <= current /\ attempt \in [ Attempts -> Locals ]
      /\ mergeMode \in MergeModes \cup {"draft_only"} /\ Len(prs) \in Nat /\ Len(prs) <= MaxAttempts
      /\ attempt[n].at = "lookup" /\ ~attempt[n].created
  BY RunningIsStarted, LenProperties DEF IInv, TypeOK, LookUp, LocalOK
<1>2. /\ UNCHANGED << row, branch, prs, current, result, settings, disturbances >>
      /\ \/ attempt' = [ attempt EXCEPT ![n].at = "branch", ![n].mode = mergeMode ]
         \/ \E p \in OpenPRs : attempt' = [ attempt EXCEPT ![n].at = "comment",
                                              ![n].mode = mergeMode, ![n].pr = p ]
  BY DEF LookUp, github, service
<1>3. PICK at \in { "branch", "comment" } :
        /\ attempt' \in [ Attempts -> Locals ] /\ attempt'[n].at = at
        /\ attempt'[n].created = attempt[n].created /\ attempt'[n].mode = mergeMode
        /\ at = "comment" => attempt'[n].pr \in 1..Len(prs)
        /\ \A m \in Attempts : m # n => attempt'[m] = attempt[m]
  <2>1. CASE attempt' = [ attempt EXCEPT ![n].at = "branch", ![n].mode = mergeMode ]
    BY <1>1, <2>1, Names DEF Locals
  <2>2. CASE \E p \in OpenPRs : attempt' = [ attempt EXCEPT ![n].at = "comment",
                                              ![n].mode = mergeMode, ![n].pr = p ]
    <3>1. PICK p \in OpenPRs : attempt' = [ attempt EXCEPT ![n].at = "comment",
                                              ![n].mode = mergeMode, ![n].pr = p ]
      BY <2>2
    <3>2. p \in 1..Len(prs) /\ p \in 0..MaxAttempts
      BY <1>1, PublicationAssumption DEF OpenPRs
    <3> QED BY <1>1, <3>1, <3>2, Names DEF Locals
  <2> QED BY <1>2, <2>1, <2>2
<1>4. IdleOK'
  BY <1>1, <1>2, <1>3 DEF IInv, TypeOK, IdleOK, Attempts
<1>5. Moved(n, at)
  BY <1>2, <1>3, <1>4 DEF Moved, IInv, TypeOK
<1>6. LocalOK(n)'
  BY <1>1, <1>2, <1>3 DEF LocalOK, EditPoints, HasEvidence, HasTier, HasReadyState, settings
<1> QED BY <1>2, <1>3, <1>5, <1>6, Names, LocalStep DEF IInv, TypeOK

\* A pull request is created, by an attempt that had created none.
LEMMA CreateStep == ASSUME IInv, NEW n \in Attempts, CreatePullRequest(n) PROVE IInv'
<1>1. /\ LocalOK(n) /\ n <= current /\ attempt \in [ Attempts -> Locals ]
      /\ prs \in Seq(PullRequest) /\ Len(prs) \in Nat /\ MaxAttempts \in Nat
      /\ attempt[n].at = "create" /\ ~attempt[n].created
  BY RunningIsStarted, LenProperties, PublicationAssumption DEF IInv, TypeOK, CreatePullRequest, LocalOK
<1>2. UNCHANGED << row, branch, settings, disturbances >>
  BY DEF CreatePullRequest
<1>3. CASE OpenPRs # {}
  <2>1. Raise(n) /\ UNCHANGED prs
    BY <1>3 DEF CreatePullRequest
  <2>2. Moved(n, "raised") /\ SameLocals(n) /\ (result' = result \/ result' = "failed")
    BY <1>1, <2>1, Raises
  <2>3. LocalOK(n)'
    BY <2>2, OverIsOK DEF Moved
  <2> QED BY <1>2, <2>1, <2>2, <2>3, Names, LocalStep DEF SameLocals, IInv, TypeOK
<1>4. CASE OpenPRs = {}
  <2> DEFINE new == [ open |-> TRUE, draft |-> TRUE, evidence |-> FALSE,
                      tiered |-> FALSE, lifecycle |-> "none" ]
  <2>1. /\ prs' = Append(prs, new) /\ UNCHANGED << current, result >>
        /\ attempt' = [ attempt EXCEPT ![n].at = "comment", ![n].created = TRUE,
                                       ![n].pr = Len(prs) + 1 ]
    BY <1>4 DEF CreatePullRequest, service
  <2>2. new \in PullRequest
    BY DEF PullRequest
  <2>3. /\ prs' \in Seq(PullRequest) /\ Len(prs)' = Len(prs) + 1
        /\ \A p \in 1..Len(prs) : prs'[p] = prs[p]
        /\ prs'[Len(prs) + 1].draft
    <3>1. prs'[Len(prs) + 1] = new
      BY <1>1, <2>1, <2>2, AppendProperties
    <3> QED BY <1>1, <2>1, <2>2, <3>1, AppendProperties
  <2>4. /\ \A m \in Attempts : m # n => attempt'[m] = attempt[m]
        /\ attempt'[n].at = "comment" /\ attempt'[n].created
        /\ attempt'[n].pr = Len(prs) + 1 /\ attempt'[n].mode = attempt[n].mode
    BY <1>1, <2>1 DEF Locals
  <2>5. CountOK' /\ Len(prs) + 1 <= MaxAttempts
    <3> DEFINE C == { m \in Attempts : attempt[m].created }
    <3>1. { m \in Attempts : attempt'[m].created } = C \cup {n} /\ n \notin C
      BY <1>1, <2>4
    <3>2. IsFiniteSet(Attempts) /\ Cardinality(Attempts) = MaxAttempts
      BY FS_Interval, PublicationAssumption DEF Attempts
    <3>3. IsFiniteSet(C) /\ C \cup {n} \in SUBSET Attempts
      BY <3>2, FS_Subset
    <3>4. Cardinality(C \cup {n}) = Cardinality(C) + 1
      BY <3>1, <3>3, FS_AddElement
    <3>5. Cardinality(C \cup {n}) <= MaxAttempts
      BY <3>2, <3>3, FS_Subset
    <3>6. Cardinality(C) = Len(prs)
      BY DEF IInv, CountOK
    <3> HIDE DEF C
    <3> QED BY <2>3, <3>1, <3>4, <3>5, <3>6 DEF CountOK
  <2>6. attempt' \in [ Attempts -> Locals ]
    <3>1. Len(prs) + 1 \in 0..MaxAttempts
      BY <1>1, <2>5
    <3> QED BY <1>1, <2>1, <3>1, Names DEF Locals
  <2>7. IdleOK'
    BY <1>1, <2>1, <2>4 DEF IInv, TypeOK, IdleOK, Attempts
  <2>8. Moved(n, "comment")
    BY <2>1, <2>4, <2>6, <2>7 DEF Moved, IInv, TypeOK
  <2>9. PullRequestsGrow /\ DraftOK'
    <3>1. \A p \in 1..Len(prs)' : p \in 1..Len(prs) \/ p = Len(prs) + 1
      BY <1>1, <2>3
    <3> QED BY <1>1, <1>2, <2>3, <3>1 DEF PullRequestsGrow, DraftOK, IInv, settings
  <2>10. LocalOK(n)'
    <3>1. attempt[n].mode = mergeMode
      BY <1>1 DEF LocalOK
    <3>2. attempt'[n].pr \in 1..Len(prs)'
      BY <1>1, <2>3, <2>4
    <3> QED BY <1>2, <2>4, <3>1, <3>2 DEF LocalOK, EditPoints, HasEvidence, HasTier,
               HasReadyState, settings
  <2> QED BY <1>2, <2>1, <2>3, <2>5, <2>8, <2>9, <2>10, Names, StepKeeps DEF IInv, TypeOK
<1> QED BY <1>3, <1>4

\* The two orders of the edits: each is done once, and the check comes last.
LEMMA EditOrder ==
  ASSUME NEW c \in BOOLEAN, NEW p \in DOMAIN NextEdit(c)
  PROVE  /\ p \in EditPoints /\ NextEdit(c)[p] \in EditPoints \cup { "check" }
         /\ HasEvidence(c, NextEdit(c)[p]) => HasEvidence(c, p) \/ p = "comment"
         /\ HasTier(c, NextEdit(c)[p]) => HasTier(c, p) \/ p = "tier"
         /\ HasReadyState(c, NextEdit(c)[p]) => HasReadyState(c, p) \/ p = "ready"
<1>1. CASE c
  <2>1. NextEdit(c) = [ comment |-> "label", label |-> "unlabel", unlabel |-> "done",
                        done |-> "tier", tier |-> "ready", ready |-> "check" ]
    BY <1>1 DEF NextEdit
  <2>2. /\ p \in { "comment", "label", "unlabel", "done", "tier", "ready" }
        /\ p = "comment" => NextEdit(c)[p] = "label"
        /\ p = "label" => NextEdit(c)[p] = "unlabel"
        /\ p = "unlabel" => NextEdit(c)[p] = "done"
        /\ p = "done" => NextEdit(c)[p] = "tier"
        /\ p = "tier" => NextEdit(c)[p] = "ready"
        /\ p = "ready" => NextEdit(c)[p] = "check"
    BY <2>1
  <2> QED BY <1>1, <2>2 DEF EditPoints, HasEvidence, HasTier, HasReadyState
<1>2. CASE ~c
  <2>1. NextEdit(c) = [ comment |-> "ready", ready |-> "tier", tier |-> "check" ]
    BY <1>2 DEF NextEdit
  <2>2. /\ p \in { "comment", "ready", "tier" }
        /\ p = "comment" => NextEdit(c)[p] = "ready"
        /\ p = "ready" => NextEdit(c)[p] = "tier"
        /\ p = "tier" => NextEdit(c)[p] = "check"
    BY <2>1
  <2> QED BY <1>2, <2>2 DEF EditPoints, HasEvidence, HasTier, HasReadyState
<1> QED BY <1>1, <1>2

\* An edit does its part, and takes nothing back.
LEMMA EditEffect ==
  ASSUME NEW pr \in PullRequest, NEW edit \in EditPoints, NEW mode
  PROVE  /\ Edited(pr, edit, mode) \in PullRequest
         /\ Edited(pr, edit, mode).open = pr.open
         /\ pr.evidence \/ edit = "comment" => Edited(pr, edit, mode).evidence
         /\ pr.tiered \/ edit = "tier" => Edited(pr, edit, mode).tiered
         /\ Edited(pr, edit, mode).draft => pr.draft
         /\ edit = "ready" /\ Edited(pr, edit, mode).draft => ~ShouldMarkReady(repoTier, mode)
         /\ ~Edited(pr, edit, mode).draft => ~pr.draft \/ ShouldMarkReady(repoTier, mode)
<1>1. ShouldMarkReady(repoTier, mode) \in BOOLEAN
  BY DEF ShouldMarkReady
<1>2. CASE edit = "comment"
  BY <1>2 DEF Edited, PullRequest
<1>3. CASE edit \in { "label", "unlabel", "done" }
  BY <1>3 DEF Edited, PullRequest
<1>4. CASE edit = "tier"
  BY <1>4 DEF Edited, PullRequest
<1>5. CASE edit = "ready"
  <2>1. Edited(pr, edit, mode) = [ pr EXCEPT !.draft = @ /\ ~ShouldMarkReady(repoTier, mode) ]
    BY <1>5 DEF Edited
  <2>2. (pr.draft /\ ~ShouldMarkReady(repoTier, mode)) \in BOOLEAN
    OBVIOUS
  <2>3. /\ Edited(pr, edit, mode) \in PullRequest
        /\ Edited(pr, edit, mode).open = pr.open
        /\ Edited(pr, edit, mode).evidence = pr.evidence
        /\ Edited(pr, edit, mode).tiered = pr.tiered
        /\ Edited(pr, edit, mode).draft = (pr.draft /\ ~ShouldMarkReady(repoTier, mode))
    BY <2>1, <2>2 DEF PullRequest
  <2> QED BY <1>5, <2>3
<1> QED BY <1>2, <1>3, <1>4, <1>5 DEF EditPoints

\* One edit of the pull request that the attempt is at.
LEMMA EditStep == ASSUME IInv, NEW n \in Attempts, EditPullRequest(n) PROVE IInv'
<1>1. /\ LocalOK(n) /\ attempt[n] \in Locals /\ attempt[n].at \in DOMAIN NextEdit(attempt[n].created)
      /\ attempt[n].created \in BOOLEAN
      /\ prs \in Seq(PullRequest) /\ Len(prs) \in Nat
  BY LenProperties DEF IInv, TypeOK, EditPullRequest, Locals
<1>2. PICK c \in BOOLEAN, at \in EditPoints, mode \in MergeModes \cup {"draft_only"},
           pr \in 0..MaxAttempts, next \in EditPoints \cup { "check" } :
        /\ c = attempt[n].created /\ at = attempt[n].at /\ mode = attempt[n].mode
        /\ pr = attempt[n].pr /\ next = NextEdit(c)[at] /\ at \in DOMAIN NextEdit(c)
  <2>1. /\ attempt[n].at \in EditPoints
        /\ NextEdit(attempt[n].created)[attempt[n].at] \in EditPoints \cup { "check" }
    BY <1>1, EditOrder
  <2>2. attempt[n].mode \in MergeModes \cup {"draft_only"} /\ attempt[n].pr \in 0..MaxAttempts
    BY <1>1 DEF Locals
  <2> QED BY <1>1, <2>1, <2>2
<1>3. pr \in 1..Len(prs) /\ mode = mergeMode
  BY <1>1, <1>2 DEF LocalOK
<1>4. next \in EditPoints \cup { "check" } /\ next \in Points
  BY <1>2, EditOrder, Names DEF EditPoints
<1>5. /\ prs' = [ prs EXCEPT ![pr] = Edited(prs[pr], at, mode) ]
      /\ GoOn(n, next) /\ UNCHANGED << row, branch, settings, disturbances >>
  BY <1>2 DEF EditPullRequest
<1>6. Moved(n, next) /\ SameLocals(n) /\ result' = result
  BY <1>2, <1>4, <1>5, GoesOn DEF EditPoints
<1>7. prs[pr] \in PullRequest
  BY <1>1, <1>3, ElementOfSeq
<1>8. Edited(prs[pr], at, mode) \in PullRequest
  BY <1>7, EditEffect
<1>9. /\ prs' \in Seq(PullRequest) /\ Len(prs)' = Len(prs)
      /\ \A q \in 1..Len(prs) : q # pr => prs'[q] = prs[q]
      /\ prs'[pr] = Edited(prs[pr], at, mode)
  BY <1>1, <1>3, <1>5, <1>8, ExceptSeq
<1>10. /\ prs[pr].evidence \/ at = "comment" => prs'[pr].evidence
       /\ prs[pr].tiered \/ at = "tier" => prs'[pr].tiered
       /\ prs'[pr].draft => prs[pr].draft
       /\ at = "ready" /\ prs'[pr].draft => ~ShouldMarkReady(repoTier, mode)
       /\ ~prs'[pr].draft => ~prs[pr].draft \/ ShouldMarkReady(repoTier, mode)
  BY <1>7, <1>9, EditEffect
<1>11. PullRequestsGrow
  BY <1>1, <1>9, <1>10 DEF PullRequestsGrow
<1>12. DraftOK'
  <2>1. repoTier' = repoTier
    BY <1>5 DEF settings
  <2>2. ASSUME NEW q \in 1..Len(prs), ~prs'[q].draft PROVE repoTier \in { "suggest", "execute" }
    <3>1. CASE q = pr
      BY <1>3, <1>10, <2>2, <3>1 DEF IInv, DraftOK, ShouldMarkReady
    <3>2. CASE q # pr
      BY <1>9, <2>2, <3>2 DEF IInv, DraftOK
    <3> QED BY <3>1, <3>2
  <2> QED BY <1>9, <2>1, <2>2 DEF DraftOK
<1>13. CountOK'
  <2>1. ASSUME NEW m \in Attempts PROVE attempt'[m].created = attempt[m].created
    <3>1. CASE m = n
      BY <1>6, <3>1 DEF SameLocals
    <3>2. CASE m # n /\ attempt'[m] = attempt[m]
      BY <3>2
    <3>3. CASE m # n /\ Starts(m)
      <4>1. attempt[m] \in Locals /\ attempt'[m] \in Locals
        BY <1>6 DEF Moved, IInv, TypeOK
      <4>2. attempt[m].created \in BOOLEAN /\ attempt'[m].created \in BOOLEAN
        BY <4>1 DEF Locals
      <4> QED BY <3>3, <4>2 DEF Starts
    <3> QED BY <1>6, <3>1, <3>2, <3>3 DEF Moved
  <2>2. { m \in Attempts : attempt'[m].created } = { m \in Attempts : attempt[m].created }
    BY <2>1
  <2> QED BY <1>9, <2>2 DEF IInv, CountOK
<1>14. LocalOK(n)'
  <2>1. /\ HasEvidence(c, next) => prs'[pr].evidence
        /\ HasTier(c, next) => prs'[pr].tiered
        /\ HasReadyState(c, next) => (prs'[pr].draft => ~ShouldMarkReady(repoTier, mode))
    BY <1>1, <1>2, <1>10, EditOrder DEF LocalOK
  <2>2. /\ attempt'[n].at = next /\ attempt'[n].pr = pr /\ attempt'[n].created = c
        /\ attempt'[n].mode = mode
    BY <1>2, <1>6 DEF Moved, SameLocals
  <2>3. next \notin { "idle", "start", "chain", "advance", "lookup", "branch", "create",
                     "write", "report" }
    BY <1>4 DEF EditPoints
  <2>4. UNCHANGED << repoTier, mergeMode >>
    BY <1>5 DEF settings
  <2>5. (ShouldMarkReady(repoTier, attempt[n].mode))' = ShouldMarkReady(repoTier, mode)
    BY <2>2, <2>4 DEF ShouldMarkReady
  <2> QED BY <1>3, <1>9, <2>1, <2>2, <2>3, <2>4, <2>5 DEF LocalOK
<1> QED BY <1>4, <1>5, <1>6, <1>9, <1>11, <1>12, <1>13, <1>14, StepKeeps DEF IInv, TypeOK

\* The final transition: checked, written and reported.
LEMMA EndStep ==
  ASSUME IInv, NEW n \in Attempts, ChecksStatus(n) \/ WritesPublished(n) \/ Reports(n)
  PROVE  IInv'
<1>1. /\ LocalOK(n) /\ row \in [ status : Statuses, prNumber : 0..MaxAttempts ]
      /\ attempt[n] \in Locals /\ branch \in BOOLEAN /\ disturbances \in 0..MaxDisturbances
  BY DEF IInv, TypeOK
<1>2. UNCHANGED << branch, prs, settings, disturbances >>
  BY DEF ChecksStatus, WritesPublished, Reports, github
<1>3. CASE ChecksStatus(n)
  <2>1. attempt[n].at = "check" /\ row' = row
    BY <1>3 DEF ChecksStatus
  <2>2. CASE MayMove(row.status, "published") /\ GoOn(n, "write")
    <3>1. Moved(n, "write") /\ SameLocals(n) /\ result' = result
      BY <2>1, <2>2, GoesOn, Names
    <3>2. (ShouldMarkReady(repoTier, attempt[n].mode))' = ShouldMarkReady(repoTier, attempt[n].mode)
      BY <1>2, <3>1 DEF SameLocals, settings, ShouldMarkReady
    <3>3. LocalOK(n)'
      BY <1>1, <1>2, <2>1, <3>1, <3>2 DEF LocalOK, Moved, SameLocals, EditPoints,
         HasEvidence, HasTier, HasReadyState, settings
    <3> QED BY <1>1, <1>2, <2>1, <3>1, <3>3, Names, LocalStep DEF SameLocals
  <2>3. CASE Raise(n)
    <3>1. Moved(n, "raised") /\ SameLocals(n) /\ (result' = result \/ result' = "failed")
      BY <2>1, <2>3, Raises
    <3>2. LocalOK(n)'
      BY <3>1, OverIsOK DEF Moved
    <3> QED BY <1>1, <1>2, <2>1, <3>1, <3>2, Names, LocalStep DEF SameLocals
  <2> QED BY <1>3, <2>2, <2>3 DEF ChecksStatus
<1>4. CASE WritesPublished(n)
  <2>1. /\ attempt[n].at = "write" /\ attempt[n].pr \in 1..Len(prs)
        /\ prs[attempt[n].pr].evidence /\ prs[attempt[n].pr].tiered
        /\ prs[attempt[n].pr].draft => ~ShouldMarkReady(repoTier, mergeMode)
    BY <1>1, <1>4 DEF WritesPublished, LocalOK, HasEvidence, HasTier, HasReadyState, Locals
  <2>2. \E p \in 1..Len(prs) : Complete(p)
    BY <2>1 DEF Complete, IInv, DraftOK
  <2>3. Moved(n, "report") /\ SameLocals(n) /\ result' = result
    BY <1>4, <2>1, GoesOn, Names DEF WritesPublished
  <2>4. row' \in [ status : Statuses, prNumber : 0..MaxAttempts ] /\ row'.status = "published"
    <3>1. attempt[n].pr \in 0..MaxAttempts /\ row.prNumber \in 0..MaxAttempts
      BY <1>1 DEF Locals
    <3> QED BY <1>4, <3>1, Names DEF WritesPublished
  <2>5. (\E p \in 1..Len(prs) : Complete(p))'
    BY <1>2, <2>2 DEF Complete, settings, ShouldMarkReady
  <2>6. LocalOK(n)'
    BY <2>3, <2>5 DEF LocalOK, Moved, EditPoints, HasEvidence, HasTier, HasReadyState
  <2> QED BY <1>1, <1>2, <2>2, <2>3, <2>4, <2>6, Names, LocalStep DEF SameLocals
<1>5. CASE Reports(n)
  <2>1. /\ attempt[n].at = "report" /\ attempt' = [ attempt EXCEPT ![n].at = "returned" ]
        /\ result' \in { result, "success" } /\ UNCHANGED << row, current >>
    BY <1>5 DEF Reports
  <2>2. hasToken => \E p \in 1..Len(prs) : Complete(p)
    BY <1>1, <2>1 DEF LocalOK
  <2>3. GoOn(n, "returned") \/ result' # result
    BY <2>1 DEF GoOn, service
  <2>4. /\ attempt' \in [ Attempts -> Locals ] /\ attempt'[n].at = "returned" /\ SameLocals(n)
        /\ \A m \in Attempts : m # n => attempt'[m] = attempt[m]
    BY <2>1, Names DEF IInv, TypeOK, Locals, SameLocals
  <2>5. n <= current
    BY <2>1, RunningIsStarted
  <2>6. IdleOK'
    BY <2>1, <2>4, <2>5 DEF IInv, TypeOK, IdleOK, Attempts
  <2>7. Moved(n, "returned")
    BY <2>1, <2>4, <2>6 DEF Moved, IInv, TypeOK
  <2>8. LocalOK(n)'
    BY <2>4, OverIsOK
  <2> QED BY <1>1, <1>2, <2>1, <2>2, <2>4, <2>7, <2>8, Names, LocalStep DEF SameLocals
<1> QED BY <1>3, <1>4, <1>5

-----------------------------------------------------------------------------
(* Disturbances *)

\* A call or a commit fails, or the service waits no longer.
LEMMA FailureStep ==
  ASSUME IInv, NEW n \in Attempts, CallFails(n) \/ ChainWriteFails(n) \/ TimesOut(n)
  PROVE  IInv'
<1>1. /\ LocalOK(n) /\ row \in [ status : Statuses, prNumber : 0..MaxAttempts ]
      /\ attempt[n] \in Locals /\ branch \in BOOLEAN
      /\ disturbances' \in 0..MaxDisturbances
      /\ UNCHANGED << row, branch, prs, settings >>
  BY PublicationAssumption DEF IInv, TypeOK, CallFails, ChainWriteFails, TimesOut, Disturbed, github
<1>2. CASE CallFails(n)
  <2>1. Moved(n, "raised") /\ SameLocals(n) /\ (result' = result \/ result' = "failed")
    BY <1>2, Raises DEF CallFails, Running
  <2>2. LocalOK(n)'
    BY <2>1, OverIsOK DEF Moved
  <2> QED BY <1>1, <2>1, <2>2, Names, LocalStep DEF SameLocals
<1>3. CASE ChainWriteFails(n)
  <2>1. attempt[n].at = "advance" /\ ~attempt[n].created
    BY <1>1, <1>3 DEF ChainWriteFails, LocalOK
  <2>2. PICK at \in { "chain", "lookup" } : Moved(n, at)
    BY <1>3, <2>1, GoesThrough DEF ChainWriteFails
  <2>3. /\ attempt'[n].at = "chain" => attempt'[n].link \in 1..4
        /\ attempt'[n].created = attempt[n].created /\ result' = result
    BY <1>3, <2>1, GoesThrough DEF ChainWriteFails
  <2>4. LocalOK(n)'
    BY <2>1, <2>2, <2>3 DEF LocalOK, Moved, EditPoints, HasEvidence, HasTier, HasReadyState
  <2> QED BY <1>1, <2>2, <2>3, <2>4, Names, LocalStep
<1>4. CASE TimesOut(n)
  <2>1. PICK at \in Points : at = attempt[n].at
    BY <1>1 DEF Locals
  <2>2. Moved(n, at) /\ SameLocals(n) /\ (result' = result \/ result' = "failed")
    BY <1>4, <2>1, Retries DEF TimesOut
  <2>3. attempt'[n] = attempt[n]
    BY <1>1, <2>1, <2>2 DEF Moved, SameLocals, Locals
  <2>4. PullRequestsGrow /\ DraftOK' /\ Len(prs)' \in Nat
    BY <1>1, LenProperties DEF PullRequestsGrow, IInv, TypeOK, DraftOK, settings
  <2>5. LocalOK(n)'
    BY <1>1, <2>3, <2>4, LocalStays DEF settings
  <2> QED BY <1>1, <2>2, <2>5, LocalStep DEF SameLocals
<1> QED BY <1>2, <1>3, <1>4

\* Somebody closes a pull request: what was delivered stays delivered.
LEMMA ClosesStep == ASSUME IInv, NEW p \in OpenPRs, HumanCloses(p) PROVE IInv'
<1>1. /\ prs \in Seq(PullRequest) /\ Len(prs) \in Nat /\ p \in 1..Len(prs)
      /\ prs' = [ prs EXCEPT ![p].open = FALSE ]
      /\ UNCHANGED << row, branch, attempt, current, result, settings >>
      /\ disturbances' \in 0..MaxDisturbances
  BY LenProperties, PublicationAssumption
     DEF IInv, TypeOK, OpenPRs, HumanCloses, Disturbed, service
<1> DEFINE closed == [ prs[p] EXCEPT !.open = FALSE ]
<1>2. prs[p] \in PullRequest
  BY <1>1, ElementOfSeq
<1>3. /\ closed \in PullRequest /\ closed.evidence = prs[p].evidence
      /\ closed.tiered = prs[p].tiered /\ closed.draft = prs[p].draft
  BY <1>2 DEF PullRequest
<1>4. prs' = [ prs EXCEPT ![p] = closed ]
  BY <1>1
<1> HIDE DEF closed
<1>5. /\ prs' \in Seq(PullRequest) /\ Len(prs)' = Len(prs)
      /\ \A q \in 1..Len(prs) : q # p => prs'[q] = prs[q]
      /\ prs'[p] = closed
  <2>1. closed \in PullRequest /\ prs \in Seq(PullRequest) /\ p \in 1..Len(prs)
    BY <1>1, <1>3
  <2>2. /\ [ prs EXCEPT ![p] = closed ] \in Seq(PullRequest)
        /\ Len([ prs EXCEPT ![p] = closed ]) = Len(prs)
        /\ \A q \in 1..Len(prs) :
             [ prs EXCEPT ![p] = closed ][q] = IF q = p THEN closed ELSE prs[q]
    BY ONLY <2>1, ExceptSeq
  <2> QED BY <1>4, <2>1, <2>2
<1>6. /\ \A q \in 1..Len(prs) : prs'[q].evidence = prs[q].evidence
      /\ \A q \in 1..Len(prs) : prs'[q].tiered = prs[q].tiered
      /\ \A q \in 1..Len(prs) : prs'[q].draft = prs[q].draft
  BY <1>3, <1>5
<1>7. PullRequestsGrow /\ DraftOK'
  BY <1>1, <1>5, <1>6 DEF PullRequestsGrow, IInv, DraftOK, settings
<1>8. CountOK' /\ IdleOK'
  BY <1>1, <1>5 DEF IInv, CountOK, IdleOK
<1>9. current \in Attempts /\ attempt[current] \in Locals /\ attempt[current].at \in Points
  BY DEF IInv, TypeOK, Locals
<1>10. Moved(current, attempt[current].at)
  BY <1>1, <1>8, <1>9 DEF Moved, IInv, TypeOK
<1>11. LocalOK(current)'
  <2>1. PICK n \in Attempts : n = current
    BY <1>9
  <2>2. LocalOK(n)'
    BY <1>1, <1>5, <1>7, LocalStays DEF settings
  <2> QED BY <1>1, <2>1, <2>2 DEF LocalOK
<1>12. PICK n \in Attempts, at \in Points : n = current /\ at = attempt[n].at
  BY <1>9
<1>13. Moved(n, at) /\ LocalOK(n)'
  BY <1>1, <1>10, <1>11, <1>12 DEF LocalOK
<1> QED BY <1>1, <1>5, <1>7, <1>8, <1>13, StepKeeps DEF IInv, TypeOK

\* The worker restarts: nobody is left who knows anything, and with the merge
\* modes forgotten no pull request has to be ready.
LEMMA RestartStep == ASSUME IInv, Restart PROVE IInv'
<1> DEFINE dead == [ n \in Attempts |-> IF Running(n) THEN [ attempt[n] EXCEPT !.at = "raised" ]
                                        ELSE attempt[n] ]
           more == result = "pending" /\ current < MaxAttempts
<1>1. /\ attempt' = (IF more THEN [ dead EXCEPT ![current + 1].at = "start" ] ELSE dead)
      /\ current' = (IF more THEN current + 1 ELSE current)
      /\ result' = (IF result = "pending" /\ ~more THEN "failed" ELSE result)
      /\ mergeMode' = "draft_only" /\ UNCHANGED << row, branch, prs, repoTier, hasToken >>
      /\ disturbances' \in 0..MaxDisturbances
  BY PublicationAssumption DEF Restart, Disturbed, IInv, TypeOK, github
<1>2. attempt \in [ Attempts -> Locals ] /\ current \in Nat /\ current \in Attempts /\ MaxAttempts \in Nat
  BY PublicationAssumption DEF IInv, TypeOK, Attempts
<1>3. /\ dead \in [ Attempts -> Locals ]
      /\ \A n \in Attempts : /\ dead[n].at \in { "idle", "returned", "raised" }
                             /\ dead[n].created = attempt[n].created
                             /\ dead[n].link = attempt[n].link
                             /\ attempt[n].at = "idle" => dead[n].at = "idle"
                             /\ dead[n].at = "idle" => attempt[n].at = "idle"
  BY <1>2, Names DEF Locals, Running, Points
<1> HIDE DEF dead
<1>4. more => /\ current + 1 \in Attempts
              /\ attempt[current + 1].at = "idle" /\ attempt[current + 1].link = 1
              /\ ~attempt[current + 1].created
  BY <1>2 DEF IInv, IdleOK, Attempts
<1>5. /\ attempt' \in [ Attempts -> Locals ]
      /\ \A n \in Attempts : ~(more /\ n = current + 1) => attempt'[n] = dead[n]
      /\ more => /\ attempt'[current + 1].at = "start" /\ attempt'[current + 1].link = 1
                 /\ ~attempt'[current + 1].created
  <2>1. CASE more
    <3>1. attempt' = [ dead EXCEPT ![current + 1].at = "start" ]
      BY <1>1, <2>1
    <3> QED BY <1>3, <1>4, <2>1, <3>1, Names DEF Locals
  <2>2. CASE ~more
    BY <1>1, <1>3, <2>2
  <2> QED BY <2>1, <2>2
<1>6. TypeOK'
  BY <1>1, <1>2, <1>4, <1>5 DEF IInv, TypeOK, Attempts
<1>7. IdleOK'
  <2>1. SUFFICES ASSUME NEW n \in Attempts, n > current'
                 PROVE  attempt'[n].at = "idle" /\ attempt'[n].link = 1 /\ ~attempt'[n].created
    BY DEF IdleOK
  <2>2. n > current /\ ~(more /\ n = current + 1)
    BY <1>1, <1>2, <2>1 DEF Attempts
  <2> QED BY <1>3, <1>5, <2>2 DEF IInv, IdleOK
<1>8. CountOK' /\ DraftOK'
  <2>1. \A n \in Attempts : attempt'[n].created = attempt[n].created
    <3>1. ASSUME NEW n \in Attempts PROVE attempt'[n].created = attempt[n].created
      <4>1. CASE more /\ n = current + 1
        BY <1>2, <1>4, <1>5, <4>1 DEF Locals
      <4>2. CASE ~(more /\ n = current + 1)
        BY <1>3, <1>5, <4>2
      <4> QED BY <4>1, <4>2
    <3> QED BY <3>1
  <2>2. CountOK'
    BY <1>1, <2>1, CountRests
  <2> QED BY <1>1, <2>2 DEF IInv, DraftOK
<1>9. PublishedMeansDelivered'
  <2>1. \A p \in 1..Len(prs) : Complete(p) => Complete(p)'
    BY <1>1 DEF Complete, ShouldMarkReady
  <2>2. result' = "success" => result = "success"
    BY <1>1
  <2> QED BY <1>1, <2>1, <2>2 DEF IInv, PublishedMeansDelivered
<1>10. \A n \in Attempts : LocalOK(n)'
  <2>1. SUFFICES ASSUME NEW n \in Attempts PROVE LocalOK(n)'
    OBVIOUS
  <2>2. CASE more /\ n = current + 1
    BY <1>4, <1>5, <2>2, StartedIsOK DEF Starts
  <2>3. CASE ~(more /\ n = current + 1)
    <3>1. /\ attempt'[n].at \in { "idle", "returned", "raised" }
          /\ attempt'[n].at = "idle" => ~attempt'[n].created
      BY <1>3, <1>5, <2>3 DEF IInv, LocalOK
    <3> QED BY <3>1 DEF LocalOK, EditPoints, HasEvidence, HasTier, HasReadyState
  <2> QED BY <2>2, <2>3
<1> QED BY <1>6, <1>7, <1>8, <1>9, <1>10 DEF IInv

\* A rejection that commits changes the row alone, and calls nothing published.
LEMMA RejectionStep == ASSUME IInv, RejectionCommits PROVE IInv'
<1>1. /\ UNCHANGED << branch, prs, attempt, current, result, repoTier, hasToken, mergeMode >>
      /\ row' = [ row EXCEPT !.status = "rejected" ]
      /\ row \in [ status : Statuses, prNumber : 0..MaxAttempts ]
      /\ disturbances' \in 0..MaxDisturbances
  BY PublicationAssumption DEF RejectionCommits, Disturbed, github, service, settings, IInv, TypeOK
<1>2. row' \in [ status : Statuses, prNumber : 0..MaxAttempts ] /\ row'.status = "rejected"
  BY <1>1 DEF Statuses
<1>3. TypeOK' /\ IdleOK' /\ CountOK' /\ DraftOK'
  BY <1>1, <1>2 DEF IInv, TypeOK, IdleOK, CountOK, DraftOK
<1>4. \A p : Complete(p)' = Complete(p)
  BY <1>1 DEF Complete, ShouldMarkReady
<1>5. PublishedMeansDelivered'
  BY <1>1, <1>2, <1>4 DEF IInv, PublishedMeansDelivered
<1>6. \A n \in Attempts : LocalOK(n)'
  BY <1>1, <1>4 DEF IInv, LocalOK, ShouldMarkReady
<1> QED BY <1>3, <1>5, <1>6 DEF IInv

\* Every step preserves the invariant.
LEMMA InvNext == IInv /\ [Next]_vars => IInv'
<1>1. SUFFICES ASSUME IInv, [Next]_vars PROVE IInv'
  OBVIOUS
<1>2. ASSUME NEW n \in Attempts, Step(n) PROVE IInv'
  <2>1. CASE Start(n) \/ ChainReads(n) \/ ChainWrites(n) \/ CreateBranch(n)
    BY <1>1, <2>1, BeginningStep
  <2>2. CASE LookUp(n)
    BY <1>1, <2>2, LookUpStep
  <2>3. CASE CreatePullRequest(n)
    BY <1>1, <2>3, CreateStep
  <2>4. CASE EditPullRequest(n)
    BY <1>1, <2>4, EditStep
  <2>5. CASE ChecksStatus(n) \/ WritesPublished(n) \/ Reports(n)
    BY <1>1, <2>5, EndStep
  <2> QED BY <1>2, <2>1, <2>2, <2>3, <2>4, <2>5 DEF Step
<1>3. CASE Disturbance
  <2>1. ASSUME NEW n \in Attempts, CallFails(n) \/ ChainWriteFails(n) \/ TimesOut(n) PROVE IInv'
    BY <1>1, <2>1, FailureStep
  <2>2. ASSUME NEW p \in OpenPRs, HumanCloses(p) PROVE IInv'
    BY <1>1, <2>2, ClosesStep
  <2>3. CASE Restart
    BY <1>1, <2>3, RestartStep
  <2>4. CASE RejectionCommits
    BY <1>1, <2>4, RejectionStep
  <2> QED BY <1>3, <2>1, <2>2, <2>3, <2>4 DEF Disturbance
<1>4. CASE UNCHANGED vars
  <2>1. UNCHANGED << row, branch, prs, attempt, current, result, repoTier, hasToken, mergeMode,
                     disturbances >>
    BY <1>4 DEF vars, github, service, settings
  <2>2. TypeOK' /\ IdleOK' /\ CountOK' /\ DraftOK'
    BY <1>1, <2>1 DEF IInv, TypeOK, IdleOK, CountOK, DraftOK
  <2>3. \A p : Complete(p)' = Complete(p)
    BY <2>1 DEF Complete, ShouldMarkReady
  <2>4. PublishedMeansDelivered'
    BY <1>1, <2>1, <2>3 DEF IInv, PublishedMeansDelivered
  <2>5. \A n \in Attempts : LocalOK(n)'
    BY <1>1, <2>1, <2>3 DEF IInv, LocalOK, ShouldMarkReady
  <2> QED BY <2>2, <2>4, <2>5 DEF IInv
<1> QED BY <1>1, <1>2, <1>3, <1>4 DEF Next, Settled

\* The invariant holds of every reachable state.
THEOREM Invariant == Spec => []IInv
<1>1. Init => IInv
  BY InvInit
<1>2. IInv /\ [Next]_vars => IInv'
  BY InvNext
<1> QED BY <1>1, <1>2, PTL DEF Spec

\* Every variable keeps its type; among others, no more pull requests are
\* opened than attempts made.
THEOREM TypeCorrect == Spec => []TypeOK
<1>1. IInv => TypeOK
  BY DEF IInv
<1> QED BY <1>1, Invariant, PTL

\* What the row or the service calls published was delivered in full, whichever
\* attempts shared the work and whatever disturbed them.
THEOREM PublishedIsDelivered == Spec => []PublishedMeansDelivered
<1>1. IInv => PublishedMeansDelivered
  BY DEF IInv
<1> QED BY <1>1, Invariant, PTL

-----------------------------------------------------------------------------
(* A rejection stands *)

\* An attempt that goes on or is replaced, and does not read a row it may move,
\* leaves no more attempts unaware than there were.
LEMMA NobodyReads ==
  ASSUME TypeOK, NEW n \in Attempts, NEW at, GoOn(n, at) \/ Retry(n, at),
         at = attempt[n].at \/ at \notin { "advance", "write" }
  PROVE  Unaware' \subseteq Unaware
<1>1. attempt \in [ Attempts -> Locals ]
  BY DEF TypeOK
<1>2. ASSUME NEW m \in Attempts, attempt'[m].at \in { "advance", "write" }
      PROVE  attempt[m].at \in { "advance", "write" }
  <2>1. CASE GoOn(n, at)
    BY <1>1, <1>2, <2>1 DEF GoOn, Locals
  <2>2. CASE Retry(n, at)
    <3>1. CASE n < MaxAttempts
      <4>1. attempt' = [ attempt EXCEPT ![n].at = at, ![n + 1].at = "start" ]
        BY <2>2, <3>1 DEF Retry
      <4>2. n + 1 \in Attempts /\ n + 1 # n
        BY <3>1, PublicationAssumption DEF Attempts
      <4>3. attempt[m] \in Locals /\ attempt[n] \in Locals /\ attempt[n + 1] \in Locals
        BY <1>1, <4>2
      <4> QED BY <1>1, <1>2, <4>1, <4>2, <4>3 DEF Locals
    <3>2. CASE ~(n < MaxAttempts)
      BY <1>1, <1>2, <2>2, <3>2 DEF Retry, Locals
    <3> QED BY <3>1, <3>2
  <2> QED BY <2>1, <2>2
<1> QED BY <1>2 DEF Unaware

\* The same of an attempt that raises.
LEMMA NobodyReadsOnRaise ==
  ASSUME TypeOK, NEW n \in Attempts, Raise(n) PROVE Unaware' \subseteq Unaware
<1>1. GoOn(n, "raised") \/ Retry(n, "raised")
  BY DEF Raise, GoOn
<1> QED BY <1>1, NobodyReads

\* The same of an attempt that goes through a link of the chain, which is then
\* unaware no more.
LEMMA NobodyReadsOnLink ==
  ASSUME TypeOK, NEW n \in Attempts, NextLink(n) PROVE Unaware' \subseteq Unaware \ {n}
<1>1. attempt \in [ Attempts -> Locals ]
  BY DEF TypeOK
<1>2. PICK at \in { "chain", "lookup" } :
        attempt' = [ attempt EXCEPT ![n].link = @ + 1, ![n].at = at ]
  BY DEF NextLink
<1>3. attempt'[n].at = at /\ \A m \in Attempts : m # n => attempt'[m] = attempt[m]
  BY <1>1, <1>2 DEF Locals
<1> QED BY <1>3 DEF Unaware

\* Once a task is rejected no attempt that reads the row goes on to write it,
\* and only one that had read it before can undo the rejection: the links of
\* the chain and the final transition are refused, whatever else goes wrong.
THEOREM RejectedStays == Spec => RejectedIsNotPublished
<1> DEFINE Stands == /\ Unaware' \subseteq Unaware
                     /\ row'.status # "rejected" => \E n \in Unaware : n \notin Unaware'
<1>1. ASSUME IInv, Next, row.status = "rejected" PROVE Stands
  <2>1. TypeOK /\ attempt \in [ Attempts -> Locals ] /\ current \in Attempts
    BY <1>1 DEF IInv, TypeOK
  <2>2. ASSUME NEW n \in Attempts, Step(n) PROVE Stands
    <3>1. CASE Start(n)
      <4>1. PICK at \in { "chain", "report" } : GoOn(n, at)
        BY <3>1 DEF Start
      <4> QED BY <1>1, <2>1, <3>1, <4>1, NobodyReads DEF Start
    <3>2. CASE ChainReads(n)
      <4>1. attempt[n].link \in 1..4 /\ row' = row
        BY <1>1, <3>2 DEF ChainReads, IInv, LocalOK
      <4>2. NextLink(n)
        BY <1>1, <3>2, <4>1, Chain DEF ChainReads
      <4> QED BY <1>1, <2>1, <4>1, <4>2, NobodyReadsOnLink
    <3>3. CASE ChainWrites(n)
      <4>1. n \in Unaware /\ NextLink(n)
        BY <3>3 DEF ChainWrites, Unaware
      <4>2. Unaware' \subseteq Unaware \ {n}
        BY <2>1, <4>1, NobodyReadsOnLink
      <4> QED BY <4>1, <4>2
    <3>4. CASE LookUp(n)
      <4>1. PICK at \in { "branch", "comment" } : attempt'[n].at = at
        BY <2>1, <3>4 DEF LookUp, Locals
      <4>2. \A m \in Attempts : m # n => attempt'[m] = attempt[m]
        BY <2>1, <3>4 DEF LookUp
      <4> QED BY <1>1, <3>4, <4>1, <4>2 DEF LookUp, Unaware
    <3>5. CASE CreateBranch(n)
      BY <1>1, <2>1, <3>5, NobodyReads DEF CreateBranch
    <3>6. CASE CreatePullRequest(n)
      <4>1. CASE Raise(n)
        BY <1>1, <2>1, <3>6, <4>1, NobodyReadsOnRaise DEF CreatePullRequest
      <4>2. CASE ~Raise(n)
        <5>1. /\ attempt'[n].at = "comment"
              /\ \A m \in Attempts : m # n => attempt'[m] = attempt[m]
          BY <2>1, <3>6, <4>2 DEF CreatePullRequest, Locals
        <5> QED BY <1>1, <3>6, <5>1 DEF CreatePullRequest, Unaware
      <4> QED BY <4>1, <4>2
    <3>7. CASE EditPullRequest(n)
      <4>1. /\ attempt[n].at \in DOMAIN NextEdit(attempt[n].created)
            /\ GoOn(n, NextEdit(attempt[n].created)[attempt[n].at]) /\ row' = row
        BY <3>7 DEF EditPullRequest
      <4>2. NextEdit(attempt[n].created)[attempt[n].at] \notin { "advance", "write" }
        BY <4>1 DEF NextEdit
      <4> QED BY <1>1, <2>1, <4>1, <4>2, NobodyReads
    <3>8. CASE ChecksStatus(n)
      <4>1. Raise(n) /\ row' = row
        BY <1>1, <3>8, Chain DEF ChecksStatus
      <4> QED BY <1>1, <2>1, <4>1, NobodyReadsOnRaise
    <3>9. CASE WritesPublished(n)
      <4>1. n \in Unaware /\ GoOn(n, "report")
        BY <3>9 DEF WritesPublished, Unaware
      <4>2. Unaware' \subseteq Unaware
        BY <2>1, <4>1, NobodyReads
      <4>3. attempt'[n].at = "report"
        BY <2>1, <4>1 DEF GoOn, Locals
      <4> QED BY <4>1, <4>2, <4>3 DEF Unaware
    <3>10. CASE Reports(n)
      <4>1. /\ attempt'[n].at = "returned"
            /\ \A m \in Attempts : m # n => attempt'[m] = attempt[m]
        BY <2>1, <3>10 DEF Reports, Locals
      <4> QED BY <1>1, <3>10, <4>1 DEF Reports, Unaware
    <3> QED BY <2>2, <3>1, <3>2, <3>3, <3>4, <3>5, <3>6, <3>7, <3>8, <3>9, <3>10 DEF Step
  <2>3. CASE Disturbance
    <3>1. ASSUME NEW n \in Attempts, CallFails(n) PROVE Stands
      BY <1>1, <2>1, <3>1, NobodyReadsOnRaise DEF CallFails
    <3>2. ASSUME NEW n \in Attempts, ChainWriteFails(n) PROVE Stands
      BY <1>1, <2>1, <3>2, NobodyReadsOnLink DEF ChainWriteFails
    <3>3. ASSUME NEW n \in Attempts, TimesOut(n) PROVE Stands
      BY <1>1, <2>1, <3>3, NobodyReads DEF TimesOut
    <3>4. CASE Restart
      <4>1. \A n \in Attempts : attempt'[n].at \notin { "advance", "write" }
        <5> DEFINE dead == [ n \in Attempts |->
                               IF Running(n) THEN [ attempt[n] EXCEPT !.at = "raised" ]
                               ELSE attempt[n] ]
        <5>1. \A n \in Attempts : dead[n].at \notin { "advance", "write" }
          BY <2>1 DEF Running, Locals
        <5>2. dead \in [ Attempts -> Locals ]
          BY <2>1, Names DEF Locals
        <5>3. attempt' = dead \/ attempt' = [ dead EXCEPT ![current + 1].at = "start" ]
          BY <3>4 DEF Restart
        <5> HIDE DEF dead
        <5> QED BY <5>1, <5>2, <5>3 DEF Locals
      <4> QED BY <1>1, <3>4, <4>1 DEF Restart, Unaware
    <3>5. CASE RejectionCommits
      BY <1>1, <3>5 DEF RejectionCommits
    <3>6. ASSUME NEW p \in OpenPRs, HumanCloses(p) PROVE Stands
      BY <1>1, <3>6 DEF HumanCloses, Unaware
    <3> QED BY <2>3, <3>1, <3>2, <3>3, <3>4, <3>5, <3>6 DEF Disturbance
  <2>4. CASE Settled
    BY <1>1, <2>4 DEF Settled, vars, Unaware
  <2> QED BY <1>1, <2>2, <2>3, <2>4 DEF Next
<1>2. IInv /\ [Next]_vars => [ row.status = "rejected" => Stands ]_vars
  BY <1>1
<1> QED BY <1>2, Invariant, PTL DEF Spec, RejectedIsNotPublished

=============================================================================
