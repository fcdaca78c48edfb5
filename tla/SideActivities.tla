--------------------------- MODULE SideActivities ---------------------------
(***************************************************************************)
(* The activities a run performs beside its stages                         *)
(* (src/workflow/activities.py): the status comment on the issue, the      *)
(* audit of a steering signal, the request for an approval, the escalation *)
(* of its time-out and the status on the board.                            *)
(*                                                                         *)
(* Temporal starts another attempt of an activity whose time is over, and  *)
(* tells the one at work nothing: what that still does, it does beside its *)
(* successor.  The activities raise nothing, so only time-outs repeat them.*)
(*                                                                         *)
(* post_pipeline_comment_activity is as its tests call it: the worker has  *)
(* not registered it (module Worker).                                      *)
(***************************************************************************)
EXTENDS Naturals, Sequences, FiniteSets

CONSTANTS
  Plans,        \* the sets of jobs of which a behaviour performs one
  Tries,        \* attempts of each kind of job
  PageSize,     \* comments that list_issue_comments returns
  MaxPeople,    \* bound: comments of people
  MaxTroubles   \* bound: failing calls, time-outs, dying workers

Kinds == { "comment", "audit", "request", "escalation", "board" }

\* A run asks for an approval once.
SideActivitiesAssumption ==
  /\ Plans \subseteq SUBSET (Kinds \X (Nat \ {0}))
  /\ \A p \in Plans : /\ IsFiniteSet(p)
                      /\ \A i, j \in p : i[1] = "request" /\ j[1] = "request" => i = j
  /\ Tries \in [ Kinds -> Nat \ {0} ]
  /\ PageSize \in Nat \ {0} /\ MaxPeople \in Nat /\ MaxTroubles \in Nat

Jobs == UNION Plans
Kind(j) == j[1]
Number(j) == j[2]
Numbers == { Number(j) : j \in Jobs }

VARIABLES
  jobs,       \* what this behaviour performs, in the order of their numbers
  job,
  attempt,    \* the attempts of each job, and what each of them has found
  thread,     \* the issue's comments: of people, 0, or of which update
  rows,       \* steering_audit_log: the signal of each row
  events,     \* pipeline.steering.action: signal, attempt and the row it names
  messages,   \* requests that Slack has shown
  botched,    \* history: attempts that failed to write what they were to write
  over,       \* the run has ended, or has failed
  troubles

vars == << jobs, job, attempt, thread, rows, events, messages, botched, over, troubles >>

Steps == { "list", "write", "persist", "emit", "post", "answer" }

TypeOK ==
  /\ jobs \in Plans
  /\ job \in [ Jobs -> { "unasked", "running", "answered", "given_up" } ]
  /\ attempt \in [ Jobs -> Seq([ at : Steps \cup { "done", "lost" }, found : Nat ]) ]
  /\ \A j \in Jobs : Len(attempt[j]) <= Tries[Kind(j)]
  /\ thread \in Seq({0} \cup Numbers)
  /\ rows \in Seq(Numbers)
  /\ events \subseteq [ signal : Numbers, try : Nat, row : 0..Len(rows) ]
  /\ messages \in Nat
  /\ botched \subseteq Jobs \X Nat
  /\ over \in BOOLEAN
  /\ troubles \in 0..MaxTroubles

Init ==
  /\ jobs \in Plans
  /\ job = [ j \in Jobs |-> "unasked" ]
  /\ attempt = [ j \in Jobs |-> << >> ]
  /\ thread = << >> /\ rows = << >> /\ events = {} /\ messages = 0
  /\ botched = {} /\ over = FALSE /\ troubles = 0

-----------------------------------------------------------------------------
(* Attempts *)

First(kind) ==
  CASE kind = "comment" -> "list" [] kind = "audit" -> "persist"
    [] kind = "request" -> "post" [] OTHER -> "answer"

Starts(j) == attempt' = [ attempt EXCEPT ![j] = Append(@, [ at |-> First(Kind(j)), found |-> 0 ]) ]

At(j, k, step) == k \in DOMAIN attempt[j] /\ attempt[j][k].at = step

Goes(j, k, to, found) ==
  attempt' = [ attempt EXCEPT ![j][k] = [ at |-> to, found |-> found ] ]

\* The attempt returns; its answer counts if it is still awaited.
Returns(j, k) ==
  /\ Goes(j, k, "done", attempt[j][k].found)
  /\ job' = [ job EXCEPT ![j] = IF @ = "running" /\ k = Len(attempt[j]) THEN "answered" ELSE @ ]

Trouble == troubles < MaxTroubles /\ troubles' = troubles + 1

\* A signal arrives, or the run comes to it: what it awaits it does one by one.
Asks(j) ==
  /\ ~over /\ j \in jobs /\ job[j] = "unasked"
  /\ Kind(j) # "audit" => \A i \in jobs : Kind(i) # "audit" /\ Number(i) < Number(j)
                             => job[i] \in { "answered", "given_up" }
  /\ job' = [ job EXCEPT ![j] = "running" ]
  /\ Starts(j)
  /\ UNCHANGED << jobs, thread, rows, events, messages, botched, over, troubles >>

\* start_to_close_timeout.  Without another attempt the failure is raised in the
\* run: it catches that of the comment and of the board, and fails of the others.
TimesOut(j) ==
  /\ ~over /\ job[j] = "running"
  /\ IF Len(attempt[j]) < Tries[Kind(j)]
       THEN Starts(j) /\ UNCHANGED << job, over >>
       ELSE /\ job' = [ job EXCEPT ![j] = "given_up" ]
            /\ over' = (Kind(j) \notin { "comment", "board" })
            /\ UNCHANGED attempt
  /\ Trouble
  /\ UNCHANGED << jobs, thread, rows, events, messages, botched >>

WorkerDies ==
  /\ attempt' = [ j \in Jobs |-> [ k \in DOMAIN attempt[j] |->
       IF attempt[j][k].at = "done" THEN attempt[j][k] ELSE [ attempt[j][k] EXCEPT !.at = "lost" ] ] ]
  /\ Trouble
  /\ UNCHANGED << jobs, job, thread, rows, events, messages, botched, over >>

\* What is at work goes on, and nothing is tried again.
RunEnds ==
  /\ ~over
  /\ over' = TRUE
  /\ UNCHANGED << jobs, job, attempt, thread, rows, events, messages, botched, troubles >>

-----------------------------------------------------------------------------
(* The status comment *)

\* The first of the first page that has the marker.
Marked == { i \in DOMAIN thread : i <= PageSize /\ thread[i] # 0 }
FirstMarked == IF Marked = {} THEN 0 ELSE CHOOSE i \in Marked : \A h \in Marked : i <= h

\* Mutant: the marker is not looked for.
ListsNothing(j, k) ==
  /\ At(j, k, "list")
  /\ Goes(j, k, "write", 0)
  /\ UNCHANGED << jobs, job, thread, rows, events, messages, botched, over, troubles >>

Lists(j, k) ==
  /\ At(j, k, "list")
  /\ Goes(j, k, "write", FirstMarked)
  /\ UNCHANGED << jobs, job, thread, rows, events, messages, botched, over, troubles >>

\* update_comment or add_comment
Written(j, k) ==
  LET found == attempt[j][k].found
  IN IF found = 0 THEN Append(thread, Number(j)) ELSE [ thread EXCEPT ![found] = Number(j) ]

Writes(j, k) ==
  /\ At(j, k, "write")
  /\ thread' = Written(j, k)
  /\ Returns(j, k)
  /\ UNCHANGED << jobs, rows, events, messages, botched, over, troubles >>

\* An error is swallowed, also that of a call GitHub has carried out.
CommentFails(j, k) ==
  /\ \/ At(j, k, "list") /\ UNCHANGED thread
     \/ At(j, k, "write") /\ thread' \in { thread, Written(j, k) }
  /\ Returns(j, k)
  /\ botched' = botched \cup {<< j, k >>}
  /\ Trouble
  /\ UNCHANGED << jobs, rows, events, messages, over >>

PersonComments ==
  /\ Cardinality({ i \in DOMAIN thread : thread[i] = 0 }) < MaxPeople
  /\ \E j \in jobs : Kind(j) = "comment"
  /\ thread' = Append(thread, 0)
  /\ UNCHANGED << jobs, job, attempt, rows, events, messages, botched, over, troubles >>

-----------------------------------------------------------------------------
(* The audit of a steering signal *)

\* Mutant: the event is sent before there is a row for it to name.
EmitsFirst(j, k) ==
  /\ At(j, k, "persist")
  /\ events' = events \cup {[ signal |-> Number(j), try |-> k, row |-> 0 ]}
  /\ Goes(j, k, "emit", 0)
  /\ UNCHANGED << jobs, job, thread, rows, messages, botched, over, troubles >>

\* create_audit_entry, and the commit.
Persists(j, k) ==
  /\ At(j, k, "persist")
  /\ rows' = Append(rows, Number(j))
  /\ Goes(j, k, "emit", Len(rows'))
  /\ UNCHANGED << jobs, job, thread, events, messages, botched, over, troubles >>

\* The failure is swallowed and the event sent all the same; it names the row if
\* the commit was carried out though it raised.
PersistFails(j, k) ==
  /\ At(j, k, "persist")
  /\ \/ UNCHANGED rows /\ Goes(j, k, "emit", 0)
     \/ rows' = Append(rows, Number(j)) /\ Goes(j, k, "emit", Len(rows'))
  /\ botched' = botched \cup {<< j, k >>}
  /\ Trouble
  /\ UNCHANGED << jobs, job, thread, events, messages, over >>

\* emit_steering_action
Emitted(j, k) ==
  events \cup {[ signal |-> Number(j), try |-> k, row |-> attempt[j][k].found ]}

Emits(j, k) ==
  /\ At(j, k, "emit")
  /\ events' = Emitted(j, k)
  /\ Returns(j, k)
  /\ UNCHANGED << jobs, thread, rows, messages, botched, over, troubles >>

\* Swallowed as well, also if the event is on its way.
EmitFails(j, k) ==
  /\ At(j, k, "emit")
  /\ events' \in { events, Emitted(j, k) }
  /\ Returns(j, k)
  /\ Trouble
  /\ UNCHANGED << jobs, thread, rows, messages, botched, over >>

-----------------------------------------------------------------------------
(* The request for an approval, its escalation and the board *)

\* get_configured_channels
Channels == { {"github"}, { "github", "slack" } }

\* Slack shows the message, refuses it or does not answer.
ToSlack == { messages, messages + 1 }

\* The context names no repository, so the channel of GitHub posts nothing.
Announced(channels) == IF "slack" \in channels THEN ToSlack ELSE {messages}

\* Whatever becomes of the channels, the answer is that the request is posted.
Posts(j, k) ==
  /\ At(j, k, "post")
  /\ \E channels \in Channels : messages' \in Announced(channels)
  /\ Returns(j, k)
  /\ UNCHANGED << jobs, thread, rows, events, botched, over, troubles >>

\* The escalation is for issue 0 of no repository, the board's item is not known:
\* they change nothing, and say that they did or did not.
AnswersOnly(j, k) ==
  /\ At(j, k, "answer")
  /\ Returns(j, k)
  /\ UNCHANGED << jobs, thread, rows, events, messages, botched, over, troubles >>

-----------------------------------------------------------------------------
Next ==
  \/ \E j \in jobs :
       \/ Asks(j) \/ TimesOut(j)
       \/ \E k \in DOMAIN attempt[j] :
            \/ Lists(j, k) \/ Writes(j, k) \/ CommentFails(j, k)
            \/ Persists(j, k) \/ PersistFails(j, k) \/ Emits(j, k) \/ EmitFails(j, k)
            \/ Posts(j, k) \/ AnswersOnly(j, k)
  \/ WorkerDies \/ RunEnds \/ PersonComments

Spec == Init /\ [][Next]_vars

-----------------------------------------------------------------------------
(* Properties *)

\* The attempts that were still at work, for all one knows, when their time was over.
Late(kind) ==
  UNION { { << j, k >> : k \in { k \in DOMAIN attempt[j] : k # Len(attempt[j]) \/ job[j] = "given_up" } } :
            j \in { i \in Jobs : Kind(i) = kind } }
Statuses == { i \in DOMAIN thread : thread[i] # 0 }

\* An issue has one status comment, and one more at most for each attempt that
\* outlived its time, unless the discussion was longer than a page before it; and
\* without such an attempt no update that was answered is undone by an older one.
OneStatus ==
  /\ Cardinality(Statuses) <= 1 + Cardinality(Late("comment"))
       \/ \E i \in Statuses : i > PageSize
  /\ Late("comment") = {} =>
       \A j \in Jobs : Kind(j) = "comment" /\ job[j] = "answered" /\ << j, 1 >> \notin botched
         => \E i \in Statuses : thread[i] >= Number(j)

\* A signal that was audited has its row, once per attempt at most, and an event
\* that names a row of its signal; only a failure to write leaves it without.
AuditIsTrue ==
  /\ \A e \in events :
       IF e.row = 0 THEN << << "audit", e.signal >>, e.try >> \in botched
                    ELSE rows[e.row] = e.signal
  /\ \A j \in Jobs : Kind(j) = "audit" =>
       LET stored == { i \in DOMAIN rows : rows[i] = Number(j) }
       IN /\ Cardinality(stored) <= Len(attempt[j])
          /\ job[j] = "answered" /\ stored = {} => \E k \in DOMAIN attempt[j] : << j, k >> \in botched

\* People are asked for an approval once, and once more for each attempt that
\* outlived its time.
AskedOnce == messages <= 1 + Cardinality(Late("request"))

-----------------------------------------------------------------------------
(* The inductive invariant of the proofs *)

StepsOf(kind) ==
  CASE kind = "comment" -> { "list", "write" } [] kind = "audit" -> { "persist", "emit" }
    [] kind = "request" -> {"post"} [] OTHER -> {"answer"}

AttemptsOK ==
  \A j \in Jobs :
    /\ job[j] = "unasked" <=> attempt[j] = << >>
    /\ job[j] # "unasked" => j \in jobs
    /\ job[j] = "answered" => attempt[j][Len(attempt[j])].at = "done"
    /\ \A k \in DOMAIN attempt[j] :
         /\ attempt[j][k].at \in StepsOf(Kind(j)) \cup { "done", "lost" }
         /\ attempt[j][k].at \in { "list", "persist", "post", "answer" } => attempt[j][k].found = 0

\* What the run awaits it awaits in the order of the numbers.
OrderOK ==
  \A i, j \in jobs :
    Kind(i) # "audit" /\ Kind(j) # "audit" /\ Number(i) < Number(j) /\ job[j] # "unasked"
      => job[i] \in { "answered", "given_up" }

\* Each status was added by an attempt of its own.  Two that have not outlived their time
\* do not both add one: the later has found that of the earlier.
Tried == UNION { { << j, k >> : k \in DOMAIN attempt[j] } : j \in { i \in Jobs : Kind(i) = "comment" } }
AddersOK ==
  \E adders \in SUBSET Tried :
    /\ IsFiniteSet(adders) /\ Cardinality(adders) = Cardinality(Statuses)
    /\ \A a \in adders : attempt[a[1]][a[2]].at = "done"
    /\ \/ \E i \in Statuses : i > PageSize
       \/ /\ \A a, b \in adders \ Late("comment") : a = b
          /\ \A a \in Tried \ Late("comment") :
               attempt[a[1]][a[2]].at = "write" /\ attempt[a[1]][a[2]].found = 0
                 => adders \subseteq Late("comment")

CommentsOK ==
  /\ \A a \in Tried : attempt[a[1]][a[2]].at = "write" =>
       attempt[a[1]][a[2]].found \in {0} \cup Statuses
  /\ Late("comment") = {} =>
       \A j \in Jobs : Kind(j) = "comment" /\ job[j] = "answered" /\ << j, 1 >> \notin botched
         => \E i \in Statuses : thread[i] >= Number(j)

\* An attempt that has come to send the event knows its row or has failed to write one,
\* and every row is known to an attempt.
RowsOK ==
  /\ \A j \in Jobs : \A k \in DOMAIN attempt[j] :
       Kind(j) = "audit" /\ attempt[j][k].at \in { "emit", "done" } =>
         IF attempt[j][k].found = 0 THEN << j, k >> \in botched
         ELSE attempt[j][k].found \in DOMAIN rows /\ rows[attempt[j][k].found] = Number(j)
  /\ \A i \in DOMAIN rows : \E j \in Jobs : \E k \in DOMAIN attempt[j] :
       Kind(j) = "audit" /\ Number(j) = rows[i] /\ attempt[j][k].found = i

EventsOK ==
  \A e \in events : IF e.row = 0 THEN << << "audit", e.signal >>, e.try >> \in botched
                    ELSE rows[e.row] = e.signal

\* Each attempt has posted once at most, and then it is done.
PostsOK ==
  messages > 0 => \E j \in jobs : /\ Kind(j) = "request"
                                  /\ messages <= Cardinality({ k \in DOMAIN attempt[j] : attempt[j][k].at = "done" })

IInv == TypeOK /\ AttemptsOK /\ OrderOK /\ AddersOK /\ CommentsOK /\ RowsOK /\ EventsOK /\ PostsOK

=============================================================================
