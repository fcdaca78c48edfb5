------------------------------ MODULE Delivery ------------------------------
(***************************************************************************)
(* What TheStudio promises about the delivery of one task, whatever stages *)
(* it goes through: a pull request leaves the pipeline only for a revision *)
(* that passed verification and QA and, where a human decides, only after  *)
(* the pipeline took up a human's approval of this run that no rejection   *)
(* of this run had met; a delivery is never taken back, and what is over   *)
(* stays over.  Pipeline implements it.                                    *)
(*                                                                         *)
(* It does not promise that the human saw the revision: what was said      *)
(* earlier in the run, to a revision that was since replaced or to none,   *)
(* stays said, and only a new start forgets it.                            *)
(***************************************************************************)
VARIABLES
  needsApproval,  \* a human decides before the publication
  checked,        \* the current revision passed verification and QA
  said,           \* what the human has said of the publication in this run
  accepted,       \* the pipeline took the approval for the current revision
  delivered,
  over

vars == << needsApproval, checked, said, accepted, delivered, over >>

Init ==
  /\ needsApproval \in BOOLEAN
  /\ checked = FALSE
  /\ said = {}
  /\ accepted = FALSE
  /\ delivered = FALSE
  /\ over = FALSE

\* Work is under way as long as nothing was delivered or given up.
Working == ~delivered /\ ~over

\* The human speaks at any time, asked or not, and takes nothing back.
Say(verdict) ==
  /\ ~over
  /\ said' = said \cup {verdict}
  /\ UNCHANGED << needsApproval, checked, accepted, delivered, over >>

CheckPasses ==
  /\ Working /\ ~checked
  /\ checked' = TRUE
  /\ UNCHANGED << needsApproval, said, accepted, delivered, over >>

\* A new revision has passed nothing; what was said before it stays said.
Rework ==
  /\ Working
  /\ checked' = FALSE
  /\ accepted' = FALSE
  /\ UNCHANGED << needsApproval, said, delivered, over >>

\* A new start forgets what was said as well.
Restart ==
  /\ Working
  /\ checked' = FALSE
  /\ said' = {}
  /\ accepted' = FALSE
  /\ UNCHANGED << needsApproval, delivered, over >>

\* The approval is taken up for a checked revision; a rejection that is there
\* by then wins, one that comes later does not.
Accept ==
  /\ Working
  /\ needsApproval /\ checked
  /\ "approve" \in said /\ "reject" \notin said
  /\ accepted' = TRUE
  /\ UNCHANGED << needsApproval, checked, said, delivered, over >>

Deliver ==
  /\ Working
  /\ checked
  /\ needsApproval => accepted
  /\ delivered' = TRUE
  /\ UNCHANGED << needsApproval, checked, said, accepted, over >>

Finish ==
  /\ ~over
  /\ over' = TRUE
  /\ UNCHANGED << needsApproval, checked, said, accepted, delivered >>

Next == \/ \E verdict \in { "approve", "reject" } : Say(verdict)
        \/ CheckPasses \/ Rework \/ Restart \/ Accept \/ Deliver \/ Finish

Spec == Init /\ [][Next]_vars

=============================================================================
