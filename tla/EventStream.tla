---------------------------- MODULE EventStream -----------------------------
(***************************************************************************)
(* The dashboard's live events: one browser tab connected to the endpoint  *)
(* of src/dashboard/events.py, which replays the JetStream stream of       *)
(* pipeline events from where the tab left off and then follows it, and    *)
(* the hooks that apply what arrives (frontend/src/hooks/useSSE.ts,        *)
(* useGitHubEvents.ts).                                                    *)
(*                                                                         *)
(* Publishers do not wait for anybody, a connection may break with events  *)
(* on the wire, and the browser reconnects by itself with the id of the    *)
(* last event it has.                                                      *)
(***************************************************************************)
EXTENDS Naturals, Sequences

CONSTANTS
  MaxSeq,    \* bound: events published
  MaxGap     \* _MAX_REPLAY_GAP

\* What the constants are taken to be, where this module is instantiated.
EventStreamAssumption == MaxSeq \in Nat /\ MaxGap \in Nat

VARIABLES
  last,     \* last sequence number of the stream
  conn,     \* the connection: what the generator is at, Last-Event-ID, next event
  wire,     \* ids of the events on their way to the browser
  lastId,   \* the browser's last event id, 0 before any
  got,      \* events the browser has received
  shown,    \* events the hooks have applied to the store
  reload,   \* history: the latest event a full_state message stood for
  excused   \* history: events that may be missed, see NoSilentGap

vars == << last, conn, wire, lastId, got, shown, reload, excused >>

Events == 1..MaxSeq
Closed == [ at |-> "closed", from |-> 0, next |-> 1 ]

TypeOK ==
  /\ last \in 0..MaxSeq
  /\ conn \in [ at : { "closed", "asking", "latest", "replaying", "following" },
                from : 0..MaxSeq, next : 1..(MaxSeq + 1) ]
  /\ wire \in Seq(Events)
  /\ lastId \in 0..MaxSeq
  /\ got \subseteq Events /\ shown \subseteq got
  /\ reload \in 0..MaxSeq
  /\ excused \subseteq Events

Init ==
  /\ last = 0
  /\ conn = Closed
  /\ wire = << >>
  /\ lastId = 0
  /\ got = {} /\ shown = {}
  /\ reload = 0
  /\ excused = {}

-----------------------------------------------------------------------------
\* emit_stage_enter and its siblings, fire and forget
Publish ==
  /\ last < MaxSeq
  /\ last' = last + 1
  /\ UNCHANGED << conn, wire, lastId, got, shown, reload, excused >>

\* The browser opens the stream, or opens it again by itself.
Connect ==
  /\ conn.at = "closed"
  /\ conn' = [ Closed EXCEPT !.at = "asking", !.from = lastId ]
  /\ UNCHANGED << last, wire, lastId, got, shown, reload, excused >>

\* NATS is out of reach: a system.error event is the last of the response.
\* Its id is 1, which the browser takes for its position in the stream.
ConnectFails ==
  /\ conn.at # "closed"
  /\ MaxSeq > 0
  /\ conn' = Closed
  /\ wire' = << >>
  /\ lastId' = 1
  /\ excused' = excused \cup {1}
  /\ UNCHANGED << last, got, shown, reload >>

\* The stream's last sequence number is asked for; 0 if that fails.
Decides(head) ==
  /\ conn.at = "asking" /\ conn.from # 0
  /\ IF head > conn.from + MaxGap
       THEN \* full_state, with the head of the stream for an id
            /\ conn' = [ conn EXCEPT !.at = "latest" ]
            /\ lastId' = head
            /\ reload' = head
       ELSE /\ conn' = [ conn EXCEPT !.at = "replaying" ]
            /\ UNCHANGED << lastId, reload >>
  /\ UNCHANGED << last, wire, got, shown, excused >>

AsksForHead == \E head \in { 0, last } : Decides(head)

\* A tab without an event id gets the whole stream.
SubscribeAll ==
  /\ conn.at = "asking" /\ conn.from = 0
  /\ conn' = [ conn EXCEPT !.at = "following", !.next = 1 ]
  /\ UNCHANGED << last, wire, lastId, got, shown, reload, excused >>

\* Mutant: the subscription delivers what is published from now on.
SubscribeNew ==
  /\ conn.at = "replaying"
  /\ conn' = [ conn EXCEPT !.at = "following", !.next = last + 1 ]
  /\ UNCHANGED << last, wire, lastId, got, shown, reload, excused >>

\* BY_START_SEQUENCE, the one after the last the client saw
SubscribeFrom ==
  /\ conn.at = "replaying"
  /\ conn' = [ conn EXCEPT !.at = "following", !.next = conn.from + 1 ]
  /\ UNCHANGED << last, wire, lastId, got, shown, reload, excused >>

\* LAST is the last event at the time of the subscription, and neither it nor
\* full_state stands for those published in between.
SubscribeLatest ==
  /\ conn.at = "latest"
  /\ conn' = [ conn EXCEPT !.at = "following", !.next = last ]
  /\ excused' = excused \cup { e \in Events : e > reload /\ e < last }
  /\ UNCHANGED << last, wire, lastId, got, shown, reload >>

Sends ==
  /\ conn.at = "following" /\ conn.next <= last
  /\ wire' = Append(wire, conn.next)
  /\ conn' = [ conn EXCEPT !.next = @ + 1 ]
  /\ UNCHANGED << last, lastId, got, shown, reload, excused >>

\* A message that is not an event is logged, and a heartbeat sent instead.
SkipsMessage ==
  /\ conn.at = "following" /\ conn.next <= last
  /\ conn' = [ conn EXCEPT !.next = @ + 1 ]
  /\ excused' = excused \cup { conn.next }
  /\ UNCHANGED << last, wire, lastId, got, shown, reload >>

\* An event is sent under the name of its type, and its data unwrapped from
\* the envelope that held type and data.
Sse(kind) == [ name |-> kind, typeInside |-> FALSE ]

\* useSSE has a listener for unnamed events, useGitHubEvents one for each of
\* GitHub's as well, and both look for the type inside the data.
Applies(sse) == sse.name \in { "message", "github.event" } /\ sse.typeInside

Receives ==
  /\ wire # << >>
  /\ wire' = Tail(wire)
  /\ lastId' = Head(wire)
  /\ got' = got \cup { Head(wire) }
  /\ \E kind \in { "pipeline", "github.event" } :
       shown' = IF Applies(Sse(kind)) THEN shown \cup { Head(wire) } ELSE shown
  /\ UNCHANGED << last, conn, reload, excused >>

\* The network, the server or NATS goes away.
Disconnects ==
  /\ conn.at # "closed"
  /\ conn' = Closed
  /\ wire' = << >>
  /\ UNCHANGED << last, lastId, got, shown, reload, excused >>

Next ==
  \/ Publish \/ Connect \/ ConnectFails
  \/ AsksForHead \/ SubscribeAll \/ SubscribeFrom \/ SubscribeLatest
  \/ Sends \/ SkipsMessage \/ Receives \/ Disconnects

Spec == Init /\ [][Next]_vars

-----------------------------------------------------------------------------
(* Properties *)

\* However often it reconnects, a tab that has an event has those before it,
\* or was told of a full state that stands for them.  Excused are messages
\* that could not be read, what was published between a full state and the
\* subscription that follows it, and event 1 after a failed connection.
NoSilentGap ==
  \A e \in Events : (\E later \in got : e < later) => e \in got \cup excused \/ e <= reload

\* useSSE "dispatches to the store" what it receives.
ReceivedIsShown == got = shown

-----------------------------------------------------------------------------
(* The inductive invariant of the proofs *)

\* Nothing more can be missed of an event: it was received, or stood for.
Known(e) == e \in got \cup excused \/ e <= reload

\* The browser's position, and the one the server was given, are past known
\* events only.
PositionOK ==
  \A e \in Events : e <= lastId \/ e <= conn.from => Known(e)

\* What is sent is sent in order, and what is not sent is known.
WireOK ==
  /\ conn.at # "following" => wire = << >>
  /\ \A i \in 1..Len(wire) : \A e \in Events :
       e < wire[i] => Known(e) \/ \E j \in 1..(i - 1) : wire[j] = e
  /\ conn.at = "following" =>
       \A e \in Events : e < conn.next => Known(e) \/ \E j \in 1..Len(wire) : wire[j] = e

\* A full state is of what was published.
ReloadOK == reload <= last /\ (conn.at = "latest" => last > 0)

IInv == TypeOK /\ PositionOK /\ WireOK /\ ReloadOK /\ NoSilentGap

=============================================================================
