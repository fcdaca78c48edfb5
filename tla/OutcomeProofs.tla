---------------------------- MODULE OutcomeProofs ---------------------------
(***************************************************************************)
(* Proofs about Outcome: what the consumers and the replays may rely on    *)
(* between two of their awaits, and from it that an event is counted once, *)
(* that what is acknowledged is kept, and that failures and replays are    *)
(* accounted for, for any number of messages, payloads and operators.      *)
(***************************************************************************)
EXTENDS Outcome, SequenceTheorems, FiniteSetTheorems, TLAPS

\* What is settled rather than refused: the existence checks come in between.
Settleable(p) == Kind[p] \in { "valid", "unknown", "bad_category" }

\* The callbacks work on messages, the replays on payloads that can be settled.
LocalsOK ==
  /\ \A s \in Streams : consumer[s].at # "idle" => consumer[s].for \in Messages
  /\ \A o \in Operators :
       replay[o].at # "idle" => replay[o].payload \in Payloads /\ Settleable(replay[o].payload)

\* One signal for each event, task and timestamp.
KeysOK == \A p, q \in signals : Key[p] = Key[q] => p = q

\* One row at most for each signal, and for signals only.
RowsOK ==
  ~restarted => \A p \in Payloads : rows[p] <= 1 /\ (rows[p] > 0 => p \in signals)

\* Who is about to store the row of p.
SavesRow(s, p) == consumer[s].at = "save" /\ PayloadOf[consumer[s].for] = p
ReplaySavesRow(o, p) == replay[o].at = "save" /\ replay[o].payload = p

\* Each signal has one coroutine at most that will store its row, and that
\* coroutine finds none.
SaversOK ==
  \A p \in Payloads :
    /\ \A s \in Streams : SavesRow(s, p) => p \in signals /\ (~restarted => rows[p] = 0)
    /\ \A o \in Operators : ReplaySavesRow(o, p) => p \in signals /\ (~restarted => rows[p] = 0)
    /\ \A s, t \in Streams : SavesRow(s, p) /\ SavesRow(t, p) => s = t
    /\ \A o, u \in Operators : ReplaySavesRow(o, p) /\ ReplaySavesRow(u, p) => o = u
    /\ \A s \in Streams, o \in Operators : ~(SavesRow(s, p) /\ ReplaySavesRow(o, p))

\* Counted, set aside or given up.
Kept(p) ==
  \/ Kind[p] = "garbage"
  \/ p \in signals
  \/ \E i \in Ids : quarantine[i].payload = p
  \/ deadLetters[p] > 0

\* What a callback is done with is kept before it is acknowledged.
KeptOK ==
  ~restarted =>
    /\ \A m \in acked : Kept(PayloadOf[m])
    /\ \A s \in Streams : consumer[s].at # "idle" => Kept(PayloadOf[consumer[s].for])

\* What a replay is about to mark as counted is a signal.
MarksOK ==
  /\ ReplayedIsCounted
  /\ \A o \in Operators : replay[o].at \in { "save", "mark" } => replay[o].payload \in signals

IInv == /\ TypeOK /\ LocalsOK /\ KeysOK /\ RowsOK /\ SaversOK /\ KeptOK
        /\ FailuresAccounted /\ MarksOK

\* Memory only grows, until the process restarts.
Grows ==
  /\ signals \subseteq signals'
  /\ Len(quarantine) <= Len(quarantine)'
  /\ \A i \in Ids : quarantine'[i].payload = quarantine[i].payload
  /\ \A p \in Payloads : deadLetters[p] <= deadLetters'[p]

\* The types of what ingest_signal writes.
MemoryTypes ==
  /\ signals \subseteq Payloads
  /\ quarantine \in Seq(QuarantinedEvent)
  /\ failures \in [ Payloads -> 0..MaxAttempts - 1 ]
  /\ deadLetters \in [ Payloads -> Nat ]

\* The quarantined events of p.
EventsOf(p) == { i \in Ids : quarantine[i].payload = p }

\* Nothing was received, counted or set aside in the beginning.
LEMMA InvInit == Init => IInv
<1>1. SUFFICES ASSUME Init PROVE IInv
  OBVIOUS
<1>2. Len(quarantine) = 0 /\ Ids = {} /\ quarantine \in Seq(QuarantinedEvent)
  BY <1>1, EmptySeq DEF Init, Ids
<1>3. TypeOK
  <2>1. failures \in [ Payloads -> 0..MaxAttempts - 1 ]
    <3>1. 0 \in 0..MaxAttempts - 1
      BY OutcomeAssumption
    <3> QED BY <1>1, <3>1 DEF Init
  <2>2. /\ consumer \in [ Streams -> [ at : { "idle", "save", "ack" }, for : Messages \cup {NoMessage} ] ]
        /\ replay \in [ Operators -> [ at : { "idle", "ask", "save", "mark" }, id : Nat,
                                       payload : Payloads \cup {NoPayload} ] ]
    BY <1>1 DEF Init, NotConsuming, NotReplaying
  <2>3. \A o \in Operators : replay[o].at = "idle"
    BY <1>1 DEF Init, NotReplaying
  <2>4. rows \in [ Payloads -> Nat ] /\ deadLetters \in [ Payloads -> Nat ]
    BY <1>1 DEF Init
  <2>5. replays \in 0..MaxReplays /\ edits \in 0..MaxEdits /\ disturbances \in 0..MaxDisturbances
    BY <1>1, OutcomeAssumption DEF Init
  <2>6. acked \subseteq Messages /\ signals \subseteq Payloads /\ restarted \in BOOLEAN
    BY <1>1 DEF Init
  <2> QED BY <1>2, <2>1, <2>2, <2>3, <2>4, <2>5, <2>6 DEF TypeOK
<1>4. LocalsOK /\ KeysOK /\ RowsOK /\ SaversOK /\ KeptOK
  BY <1>1 DEF Init, LocalsOK, KeysOK, RowsOK, SaversOK, KeptOK, SavesRow, ReplaySavesRow,
              NotConsuming, NotReplaying
<1>5. FailuresAccounted
  <2>1. SUFFICES ASSUME NEW p \in Payloads
                 PROVE  Cardinality({ i \in Ids : quarantine[i].payload = p })
                          = (MaxAttempts - 1) * deadLetters[p] + failures[p]
    BY DEF FailuresAccounted
  <2>2. { i \in Ids : quarantine[i].payload = p } = {}
    BY <1>2
  <2>3. deadLetters[p] = 0 /\ failures[p] = 0
    BY <1>1 DEF Init
  <2>4. (MaxAttempts - 1) * 0 + 0 = 0
    BY OutcomeAssumption
  <2>5. Cardinality({}) = 0
    BY FS_EmptySet
  <2> QED BY <2>2, <2>3, <2>4, <2>5
<1>6. MarksOK
  BY <1>1, <1>2 DEF Init, MarksOK, ReplayedIsCounted, NotReplaying
<1> QED BY <1>3, <1>4, <1>5, <1>6 DEF IInv

-----------------------------------------------------------------------------
(* ingest_signal *)

\* An event put in quarantine is the last one, and the others stay.
LEMMA Appended ==
  ASSUME TypeOK, NEW p \in Payloads, quarantine' = Append(quarantine, NewEvent(p))
  PROVE  /\ quarantine' \in Seq(QuarantinedEvent)
         /\ Len(quarantine)' = Len(quarantine) + 1 /\ Len(quarantine) \in Nat
         /\ \A i \in Ids : quarantine'[i] = quarantine[i]
         /\ quarantine'[Len(quarantine) + 1] = NewEvent(p)
<1>1. NewEvent(p) \in QuarantinedEvent
  BY DEF NewEvent, QuarantinedEvent
<1>2. quarantine \in Seq(QuarantinedEvent)
  BY DEF TypeOK
<1>3. Len(quarantine) \in Nat
  BY <1>2, LenProperties
<1> QED BY <1>1, <1>2, <1>3, AppendProperties DEF Ids

\* It is one more event of its payload, and none of another one.
LEMMA AppendedEvents ==
  ASSUME TypeOK, NEW p \in Payloads, quarantine' = Append(quarantine, NewEvent(p)),
         NEW q \in Payloads
  PROVE  /\ Cardinality(EventsOf(q)) \in Nat
         /\ Cardinality(EventsOf(q))' = Cardinality(EventsOf(q)) + IF p = q THEN 1 ELSE 0
<1>1. /\ Len(quarantine)' = Len(quarantine) + 1 /\ Len(quarantine) \in Nat
      /\ \A i \in Ids : quarantine'[i] = quarantine[i]
      /\ quarantine'[Len(quarantine) + 1] = NewEvent(p)
  BY Appended
<1>2. IsFiniteSet(EventsOf(q)) /\ Cardinality(EventsOf(q)) \in Nat
  <2>1. IsFiniteSet(Ids)
    BY <1>1, FS_Interval DEF Ids
  <2>2. EventsOf(q) \in SUBSET Ids
    BY DEF EventsOf
  <2> QED BY <2>1, <2>2, FS_Subset, FS_CardinalityType
<1>3. Len(quarantine) + 1 \notin EventsOf(q)
  BY <1>1 DEF EventsOf, Ids
<1>4. quarantine'[Len(quarantine) + 1].payload = p
  BY <1>1 DEF NewEvent
<1>5. Ids' = Ids \cup { Len(quarantine) + 1 }
  BY <1>1 DEF Ids
<1>6. CASE p = q
  <2>1. EventsOf(q)' = EventsOf(q) \cup { Len(quarantine) + 1 }
    BY <1>1, <1>4, <1>5, <1>6 DEF EventsOf
  <2> QED BY <1>2, <1>3, <1>6, <2>1, FS_AddElement
<1>7. CASE p # q
  <2>1. EventsOf(q)' = EventsOf(q)
    BY <1>1, <1>4, <1>5, <1>7 DEF EventsOf
  <2> QED BY <1>2, <1>7, <2>1
<1> QED BY <1>6, <1>7

\* What one call of ingest_signal does to the memory, up to the database call.
Ingests(p) ==
  \/ Kind[p] \in { "uncorrelated", "no_task", "unknown" } /\ SetAside(p)
  \/ Kind[p] = "bad_event" /\ FailsAgain(p)
  \/ Settleable(p) /\ Settle(p)

\* Whatever ingest_signal decides, it keeps the payload and loses no other.
LEMMA IngestGrows ==
  ASSUME TypeOK, NEW p \in Payloads, Ingests(p)
  PROVE  /\ MemoryTypes' /\ Grows /\ Kept(p)'
         /\ \A i \in Ids : quarantine'[i] = quarantine[i]
         /\ \A i \in Ids' \ Ids : quarantine'[i] = NewEvent(p)
<1>1. TypeOK /\ Len(quarantine) \in Nat
  BY LenProperties DEF TypeOK
<1>2. CASE SetAside(p)
  <2>1. /\ quarantine' \in Seq(QuarantinedEvent)
        /\ Len(quarantine)' = Len(quarantine) + 1
        /\ \A i \in Ids : quarantine'[i] = quarantine[i]
        /\ quarantine'[Len(quarantine) + 1] = NewEvent(p)
    BY <1>2, Appended DEF SetAside
  <2>2. Ids' = Ids \cup { Len(quarantine) + 1 }
    BY <1>1, <2>1 DEF Ids
  <2>3. MemoryTypes' /\ Grows
    <3>1. UNCHANGED << signals, failures, deadLetters >>
      BY <1>2 DEF SetAside
    <3>2. \A q \in Payloads : deadLetters[q] <= deadLetters'[q]
      BY <1>1, <3>1 DEF TypeOK
    <3> QED BY <1>1, <2>1, <3>1, <3>2 DEF MemoryTypes, Grows, TypeOK
  <2> QED BY <2>1, <2>2, <2>3 DEF Kept, NewEvent
<1>3. CASE FailsAgain(p) /\ failures[p] + 1 < MaxAttempts
  <2>1. /\ quarantine' \in Seq(QuarantinedEvent)
        /\ Len(quarantine)' = Len(quarantine) + 1
        /\ \A i \in Ids : quarantine'[i] = quarantine[i]
        /\ quarantine'[Len(quarantine) + 1] = NewEvent(p)
    BY <1>3, Appended DEF FailsAgain
  <2>2. Ids' = Ids \cup { Len(quarantine) + 1 }
    BY <1>1, <2>1 DEF Ids
  <2>3. MemoryTypes' /\ Grows
    <3>1. failures[p] + 1 \in 0..MaxAttempts - 1
      BY <1>1, <1>3, OutcomeAssumption DEF TypeOK
    <3>2. failures' \in [ Payloads -> 0..MaxAttempts - 1 ]
      BY <1>1, <1>3, <3>1 DEF FailsAgain, TypeOK
    <3>3. signals' = signals /\ deadLetters' = deadLetters
      BY <1>3 DEF FailsAgain
    <3> QED BY <1>1, <2>1, <3>2, <3>3 DEF MemoryTypes, Grows, TypeOK
  <2> QED BY <2>1, <2>2, <2>3 DEF Kept, NewEvent
<1>4. CASE FailsAgain(p) /\ ~(failures[p] + 1 < MaxAttempts)
  <2>1. UNCHANGED << quarantine, signals >> /\ Ids' = Ids
    BY <1>4 DEF FailsAgain, Ids
  <2>2. MemoryTypes' /\ Grows
    <3>1. 0 \in 0..MaxAttempts - 1
      BY OutcomeAssumption
    <3>2. failures' \in [ Payloads -> 0..MaxAttempts - 1 ]
      BY <1>1, <1>4, <3>1 DEF FailsAgain, TypeOK
    <3>3. deadLetters' = [ deadLetters EXCEPT ![p] = @ + 1 ]
      BY <1>4 DEF FailsAgain
    <3>4. /\ deadLetters' \in [ Payloads -> Nat ]
          /\ \A q \in Payloads : deadLetters[q] <= deadLetters'[q]
      BY <1>1, <3>3 DEF TypeOK
    <3> QED BY <1>1, <2>1, <3>2, <3>4 DEF MemoryTypes, Grows, TypeOK
  <2>3. deadLetters'[p] > 0
    BY <1>1, <1>4 DEF FailsAgain, TypeOK
  <2> QED BY <2>1, <2>2, <2>3 DEF Kept
<1>5. CASE Settle(p) /\ Counts(p)
  <2>1. UNCHANGED << quarantine, deadLetters >> /\ Ids' = Ids
    BY <1>5 DEF Settle, Ids
  <2>2. MemoryTypes' /\ Grows
    <3>1. 0 \in 0..MaxAttempts - 1
      BY OutcomeAssumption
    <3>2. failures' \in [ Payloads -> 0..MaxAttempts - 1 ]
      BY <1>1, <1>5, <3>1 DEF Settle, TypeOK
    <3>3. signals' = signals \cup {p}
      BY <1>5 DEF Settle
    <3> QED BY <1>1, <2>1, <3>2, <3>3 DEF MemoryTypes, Grows, TypeOK
  <2> QED BY <1>5, <2>1, <2>2 DEF Kept, Settle
<1>6. CASE ~Counts(p) /\ p \in signals /\ UNCHANGED memory
  <2>1. UNCHANGED << signals, quarantine, failures, deadLetters >> /\ Ids' = Ids
    BY <1>6 DEF memory, Ids
  <2>2. MemoryTypes' /\ Grows
    BY <1>1, <2>1 DEF MemoryTypes, Grows, TypeOK
  <2> QED BY <1>6, <2>1, <2>2 DEF Kept
<1> QED BY <1>2, <1>3, <1>4, <1>5, <1>6 DEF Ingests, Settle

\* A signal is counted only if none with its key was, and only that one is new.
LEMMA IngestCounts ==
  ASSUME IInv, NEW p \in Payloads, Ingests(p)
  PROVE  /\ KeysOK'
         /\ \/ signals' = signals
            \/ signals' = signals \cup {p} /\ p \notin signals /\ Counts(p) /\ Settle(p)
<1>1. \/ signals' = signals
      \/ signals' = signals \cup {p} /\ Counts(p) /\ Settle(p)
  BY DEF Ingests, SetAside, FailsAgain, Settle, memory
<1>2. CASE signals' = signals
  BY <1>2 DEF IInv, KeysOK
<1>3. CASE signals' = signals \cup {p} /\ Counts(p) /\ Settle(p)
  <2>1. \A s \in signals : Key[s] # Key[p]
    BY <1>3 DEF Counts, IsCounted
  <2> QED BY <1>3, <2>1 DEF IInv, KeysOK
<1> QED BY <1>1, <1>2, <1>3

\* Each failure is quarantined, or becomes a dead letter together with the
\* failures before it.
LEMMA IngestAccounts ==
  ASSUME IInv, NEW p \in Payloads, Ingests(p) PROVE FailuresAccounted'
<1>1. SUFFICES ASSUME NEW q \in Payloads, Kind[q] = "bad_event"
               PROVE  Cardinality(EventsOf(q))' =
                        (MaxAttempts - 1) * deadLetters'[q] + failures'[q]
  BY DEF FailuresAccounted, EventsOf
<1>2. Cardinality(EventsOf(q)) = (MaxAttempts - 1) * deadLetters[q] + failures[q]
  BY <1>1 DEF IInv, FailuresAccounted, EventsOf
<1>3. TypeOK /\ MaxAttempts \in Nat \ {0} /\ deadLetters[q] \in Nat
      /\ failures[q] \in 0..MaxAttempts - 1
  BY OutcomeAssumption DEF IInv, TypeOK
<1>4. (MaxAttempts - 1) * deadLetters[q] \in Int
      /\ (MaxAttempts - 1) * (deadLetters[q] + 1) = (MaxAttempts - 1) * deadLetters[q] + (MaxAttempts - 1)
  BY <1>3
<1>5. CASE SetAside(p) /\ Kind[p] # "bad_event"
  <2>1. p # q
    BY <1>1, <1>5
  <2>2. Cardinality(EventsOf(q))' = Cardinality(EventsOf(q))
    BY <1>3, <1>5, <2>1, AppendedEvents DEF SetAside
  <2>3. deadLetters' = deadLetters /\ failures' = failures
    BY <1>5 DEF SetAside
  <2> QED BY <1>2, <2>2, <2>3
<1>6. CASE FailsAgain(p) /\ failures[p] + 1 < MaxAttempts
  <2>1. Cardinality(EventsOf(q))' = Cardinality(EventsOf(q)) + IF p = q THEN 1 ELSE 0
    BY <1>3, <1>6, AppendedEvents DEF FailsAgain
  <2>2. deadLetters' = deadLetters /\ failures'[q] = failures[q] + IF p = q THEN 1 ELSE 0
    BY <1>3, <1>6 DEF FailsAgain, TypeOK
  <2> QED BY <1>2, <1>3, <1>4, <2>1, <2>2
<1>7. CASE FailsAgain(p) /\ ~(failures[p] + 1 < MaxAttempts)
  <2>1. Cardinality(EventsOf(q))' = Cardinality(EventsOf(q))
    BY <1>7 DEF FailsAgain, EventsOf, Ids
  <2>2. CASE p = q
    <3>1. deadLetters'[q] = deadLetters[q] + 1 /\ failures'[q] = 0
      BY <1>3, <1>7, <2>2 DEF FailsAgain, TypeOK
    <3>2. failures[q] = MaxAttempts - 1
      BY <1>3, <1>7, <2>2
    <3> QED BY <1>2, <1>3, <1>4, <2>1, <3>1, <3>2
  <2>3. CASE p # q
    <3>1. deadLetters'[q] = deadLetters[q] /\ failures'[q] = failures[q]
      BY <1>3, <1>7, <2>3 DEF FailsAgain, TypeOK
    <3> QED BY <1>2, <2>1, <3>1
  <2> QED BY <2>2, <2>3
<1>8. CASE Settleable(p) /\ Settle(p) /\ Counts(p)
  <2>1. p # q
    BY <1>1, <1>8 DEF Settleable
  <2>2. deadLetters' = deadLetters /\ failures'[q] = failures[q] /\ UNCHANGED quarantine
    BY <1>3, <1>8, <2>1 DEF Settle, TypeOK
  <2> QED BY <1>2, <2>2 DEF EventsOf, Ids
<1>9. CASE UNCHANGED memory
  BY <1>2, <1>9 DEF EventsOf, Ids, memory
<1> QED BY <1>5, <1>6, <1>7, <1>8, <1>9 DEF Ingests, Settle, Settleable

\* What is kept stays kept while memory grows.
LEMMA KeptStays ==
  ASSUME TypeOK, Grows, MemoryTypes', NEW q \in Payloads, Kept(q) PROVE Kept(q)'
<1>1. Len(quarantine) \in Nat /\ Len(quarantine)' \in Nat
  BY LenProperties DEF TypeOK, MemoryTypes
<1>2. \A i \in Ids : i \in Ids' /\ quarantine'[i].payload = quarantine[i].payload
  BY <1>1 DEF Ids, Grows
<1>3. deadLetters[q] > 0 => deadLetters'[q] > 0
  BY DEF Grows, TypeOK, MemoryTypes
<1> QED BY <1>2, <1>3 DEF Kept, Grows

\* What is marked as counted stays marked, and a new event is not.
LEMMA IngestMarks ==
  ASSUME IInv, NEW p \in Payloads, Ingests(p) PROVE ReplayedIsCounted'
<1>1. /\ Grows /\ \A i \in Ids : quarantine'[i] = quarantine[i]
      /\ \A i \in Ids' \ Ids : quarantine'[i] = NewEvent(p)
  BY IngestGrows DEF IInv
<1>2. \A i \in Ids : quarantine[i].counted # NoPayload => quarantine[i].counted \in signals
  BY DEF IInv, MarksOK, ReplayedIsCounted
<1>3. NewEvent(p).counted = NoPayload
  BY DEF NewEvent
<1> QED BY <1>1, <1>2, <1>3 DEF ReplayedIsCounted, Grows

-----------------------------------------------------------------------------
(* The consumers *)

\* The type of the locals, while memory only grows.
LEMMA LocalsTypes ==
  ASSUME TypeOK, Grows, MemoryTypes',
         consumer' \in [ Streams -> [ at : { "idle", "save", "ack" }, for : Messages \cup {NoMessage} ] ],
         UNCHANGED replay, acked' \subseteq Messages, rows' \in [ Payloads -> Nat ],
         replays' \in 0..MaxReplays, edits' \in 0..MaxEdits,
         disturbances' \in 0..MaxDisturbances, restarted' \in BOOLEAN
  PROVE  TypeOK'
<1>1. Len(quarantine) \in Nat /\ Len(quarantine)' \in Nat
  BY LenProperties DEF TypeOK, MemoryTypes
<1>2. \A i \in Ids : i \in Ids'
  BY <1>1 DEF Ids, Grows
<1> QED BY <1>2 DEF TypeOK, MemoryTypes

\* A callback that goes on changes its own locals only.
LEMMA GoTypes ==
  ASSUME TypeOK, NEW s \in Streams, NEW m \in Messages, NEW at \in { "ack", "save" }, Go(s, m, at)
  PROVE  /\ consumer'[s].at = at /\ consumer'[s].for = m
         /\ \A t \in Streams : t # s => consumer'[t] = consumer[t]
         /\ consumer' \in [ Streams -> [ at : { "idle", "save", "ack" }, for : Messages \cup {NoMessage} ] ]
BY DEF Go, TypeOK

\* A message is ingested: its signal, if it counts, is this callback's to store.
LEMMA ReceiveStep ==
  ASSUME IInv, NEW s \in Streams, NEW m \in Messages,
         ReceivesMalformed(s, m) \/ ReceivesSignal(s, m)
  PROVE  IInv'
<1>0. PICK p \in Payloads : p = PayloadOf[m]
  BY OutcomeAssumption
<1>1. /\ Ingests(p)
      /\ UNCHANGED << acked, replay, rows, replays, edits, disturbances, restarted >>
      /\ \/ Go(s, m, "ack")
         \/ Go(s, m, "save") /\ Counts(p) /\ Settle(p)
  BY <1>0 DEF ReceivesMalformed, ReceivesSignal, Ingests, IsMalformed, Refuse, Settleable, bounds
<1>2. MemoryTypes' /\ Grows /\ Kept(p)'
  BY <1>1, IngestGrows DEF IInv
<1>3. /\ consumer'[s].at \in { "ack", "save" } /\ consumer'[s].for = m
      /\ consumer'[s].at = "save" => Counts(p) /\ Settle(p)
      /\ \A t \in Streams : t # s => consumer'[t] = consumer[t]
      /\ consumer' \in [ Streams -> [ at : { "idle", "save", "ack" }, for : Messages \cup {NoMessage} ] ]
  BY <1>1, GoTypes DEF IInv
<1>4. TypeOK'
  BY <1>1, <1>2, <1>3, LocalsTypes DEF IInv, TypeOK
<1>5. LocalsOK'
  BY <1>1, <1>3 DEF IInv, LocalsOK
<1>6. RowsOK'
  BY <1>1, <1>2 DEF IInv, RowsOK, Grows
<1>7. consumer'[s].at = "save" => p \notin signals /\ p \in signals'
  BY <1>3 DEF Counts, IsCounted, Settle
<1>8. SaversOK'
  <2>1. SUFFICES ASSUME NEW q \in Payloads
        PROVE ( /\ \A t \in Streams : SavesRow(t, q) => q \in signals /\ (~restarted => rows[q] = 0)
                /\ \A o \in Operators : ReplaySavesRow(o, q) => q \in signals /\ (~restarted => rows[q] = 0)
                /\ \A t, u \in Streams : SavesRow(t, q) /\ SavesRow(u, q) => t = u
                /\ \A o, u \in Operators : ReplaySavesRow(o, q) /\ ReplaySavesRow(u, q) => o = u
                /\ \A t \in Streams, o \in Operators : ~(SavesRow(t, q) /\ ReplaySavesRow(o, q)) )'
    BY DEF SaversOK
  <2>2. \A t \in Streams : t # s => SavesRow(t, q)' = SavesRow(t, q)
    BY <1>3 DEF SavesRow
  <2>3. SavesRow(s, q)' => q = p /\ q \notin signals /\ q \in signals'
    BY <1>0, <1>3, <1>7 DEF SavesRow
  <2>4. \A o \in Operators : ReplaySavesRow(o, q)' = ReplaySavesRow(o, q)
    BY <1>1 DEF ReplaySavesRow
  <2>5. q \notin signals =>
          /\ ~restarted => rows[q] = 0
          /\ \A t \in Streams : ~SavesRow(t, q)
          /\ \A o \in Operators : ~ReplaySavesRow(o, q)
    BY DEF IInv, TypeOK, RowsOK, SaversOK
  <2>6. (\A t, u \in Streams : SavesRow(t, q) /\ SavesRow(u, q) => t = u)'
    BY <2>2, <2>3, <2>5 DEF IInv, SaversOK
  <2>7. (\A t \in Streams, o \in Operators : ~(SavesRow(t, q) /\ ReplaySavesRow(o, q)))'
    BY <2>2, <2>3, <2>4, <2>5 DEF IInv, SaversOK
  <2>8. (\A t \in Streams : SavesRow(t, q) => q \in signals /\ (~restarted => rows[q] = 0))'
    BY <1>1, <1>2, <2>2, <2>3, <2>5 DEF IInv, SaversOK, Grows
  <2>9. (\A o \in Operators : ReplaySavesRow(o, q) => q \in signals /\ (~restarted => rows[q] = 0))'
    BY <1>1, <1>2, <2>4 DEF IInv, SaversOK, Grows
  <2>10. (\A o, u \in Operators : ReplaySavesRow(o, q) /\ ReplaySavesRow(u, q) => o = u)'
    BY <2>4 DEF IInv, SaversOK
  <2> QED BY <2>6, <2>7, <2>8, <2>9, <2>10
<1>9. KeptOK'
  <2>1. \A q \in Payloads : Kept(q) => Kept(q)'
    BY <1>2, KeptStays DEF IInv
  <2>2. \A n \in Messages : PayloadOf[n] \in Payloads
    BY OutcomeAssumption
  <2>3. Kept(PayloadOf[m])'
    BY <1>0, <1>2
  <2>4. ~restarted' => \A n \in acked' : Kept(PayloadOf[n])'
    BY <1>1, <2>1, <2>2 DEF IInv, TypeOK, KeptOK
  <2>5. ~restarted' =>
          (\A t \in Streams : consumer[t].at # "idle" => Kept(PayloadOf[consumer[t].for]))'
    <3>1. SUFFICES ASSUME ~restarted', NEW t \in Streams, consumer'[t].at # "idle"
                   PROVE  Kept(PayloadOf[consumer[t].for])'
      OBVIOUS
    <3>2. CASE t = s
      <4>1. PayloadOf[consumer'[t].for] = p
        BY <1>0, <1>3, <3>2
      <4> QED BY <1>2, <4>1 DEF Kept
    <3>3. CASE t # s
      <4>1. consumer'[t] = consumer[t] /\ consumer[t].for \in Messages
        BY <1>3, <3>1, <3>3 DEF IInv, LocalsOK
      <4>2. Kept(PayloadOf[consumer[t].for])
        BY <1>1, <3>1, <4>1 DEF IInv, KeptOK
      <4>3. PICK q \in Payloads : q = PayloadOf[consumer[t].for]
        BY <2>2, <4>1
      <4>4. Kept(q)'
        BY <2>1, <4>2, <4>3
      <4>5. PayloadOf[consumer'[t].for] = q
        BY <4>1, <4>3
      <4> QED BY <4>4, <4>5 DEF Kept
    <3> QED BY <3>2, <3>3
  <2> QED BY <2>4, <2>5 DEF KeptOK
<1>10. MarksOK'
  BY <1>1, <1>2, IngestMarks DEF IInv, MarksOK, Grows
<1> QED BY <1>1, <1>4, <1>5, <1>6, <1>8, <1>9, <1>10, IngestCounts, IngestAccounts DEF IInv

\* Steps that leave memory alone let it grow, and keep what is kept.
LEMMA MemoryRests ==
  ASSUME IInv, UNCHANGED memory
  PROVE  /\ MemoryTypes' /\ Grows /\ Ids' = Ids
         /\ KeysOK' /\ FailuresAccounted' /\ ReplayedIsCounted'
         /\ \A q \in Payloads : Kept(q)' = Kept(q)
<1>1. UNCHANGED << signals, quarantine, failures, deadLetters >>
  BY DEF memory
<1>2. Len(quarantine) \in Nat /\ \A q \in Payloads : deadLetters[q] \in Nat
  BY LenProperties DEF IInv, TypeOK
<1>3. MemoryTypes' /\ Grows /\ Ids' = Ids
  BY <1>1, <1>2 DEF IInv, TypeOK, MemoryTypes, Grows, Ids
<1>4. FailuresAccounted'
  BY <1>1 DEF IInv, FailuresAccounted, Ids
<1>5. KeysOK' /\ ReplayedIsCounted'
  BY <1>1 DEF IInv, KeysOK, MarksOK, ReplayedIsCounted, Ids
<1>6. \A q \in Payloads : Kept(q)' = Kept(q)
  BY <1>1 DEF Kept, Ids
<1> QED BY <1>3, <1>4, <1>5, <1>6

\* The callback of s moves on without touching memory, and with a message that
\* is kept if it has one.
LEMMA ConsumerMoves ==
  ASSUME IInv, NEW s \in Streams, UNCHANGED << replay, memory, replays, edits, restarted >>,
         disturbances' \in 0..MaxDisturbances,
         consumer' \in [ Streams -> [ at : { "idle", "save", "ack" }, for : Messages \cup {NoMessage} ] ],
         \A t \in Streams : t # s => consumer'[t] = consumer[t],
         \/ consumer'[s].at = "idle"
         \/ /\ consumer'[s].at = "ack" /\ consumer'[s].for \in Messages
            /\ ~restarted => Kept(PayloadOf[consumer'[s].for]),
         \/ acked' = acked
         \/ acked' = acked \cup { consumer[s].for } /\ consumer[s].at # "idle",
         \/ rows' = rows
         \/ /\ consumer[s].at = "save"
            /\ rows' = [ rows EXCEPT ![PayloadOf[consumer[s].for]] = @ + 1 ]
  PROVE  IInv'
<1>1. /\ MemoryTypes' /\ Grows /\ Ids' = Ids
      /\ KeysOK' /\ FailuresAccounted' /\ ReplayedIsCounted'
      /\ \A q \in Payloads : Kept(q)' = Kept(q)
      /\ signals' = signals
  BY MemoryRests DEF memory
<1>2. \A m \in Messages : PayloadOf[m] \in Payloads
  BY OutcomeAssumption
<1>3. consumer[s].at # "idle" => consumer[s].for \in Messages
  BY DEF IInv, LocalsOK
<1>4. TypeOK'
  <2>1. rows' \in [ Payloads -> Nat ] /\ acked' \subseteq Messages
    BY <1>2, <1>3 DEF IInv, TypeOK
  <2> QED BY <1>1, <2>1, LocalsTypes DEF IInv, TypeOK
<1>5. LocalsOK'
  BY DEF IInv, LocalsOK
<1>6. \A q \in Payloads : ~restarted => rows'[q] <= 1 /\ (rows'[q] > 0 => q \in signals)
  <2>1. SUFFICES ASSUME NEW q \in Payloads, ~restarted, rows' # rows
                 PROVE  rows'[q] <= 1 /\ (rows'[q] > 0 => q \in signals)
    BY DEF IInv, RowsOK
  <2>2. SavesRow(s, PayloadOf[consumer[s].for])
    BY <2>1 DEF SavesRow
  <2>3. rows[PayloadOf[consumer[s].for]] = 0 /\ PayloadOf[consumer[s].for] \in signals
    BY <1>2, <1>3, <2>1, <2>2 DEF IInv, SaversOK
  <2>4. rows' = [ rows EXCEPT ![PayloadOf[consumer[s].for]] = @ + 1 ]
    BY <2>1
  <2>5. CASE q = PayloadOf[consumer[s].for]
    <3>1. rows'[q] = 1
      BY <2>3, <2>4, <2>5 DEF IInv, TypeOK
    <3> QED BY <2>3, <2>5, <3>1
  <2>6. CASE q # PayloadOf[consumer[s].for]
    <3>1. rows'[q] = rows[q]
      BY <2>4, <2>6 DEF IInv, TypeOK
    <3> QED BY <2>1, <3>1 DEF IInv, RowsOK
  <2> QED BY <2>5, <2>6
<1>7. RowsOK'
  BY <1>1, <1>6 DEF RowsOK
<1>8. \A q \in Payloads :
        /\ ~SavesRow(s, q)'
        /\ \A t \in Streams : SavesRow(t, q)' => SavesRow(t, q) /\ t # s
        /\ \A o \in Operators : ReplaySavesRow(o, q)' = ReplaySavesRow(o, q)
  BY DEF SavesRow, ReplaySavesRow
<1>9. \A q \in Payloads :
        (\E t \in Streams : SavesRow(t, q)') \/ (\E o \in Operators : ReplaySavesRow(o, q))
          => rows'[q] = rows[q]
  <2>1. SUFFICES ASSUME NEW q \in Payloads, rows' # rows, q = PayloadOf[consumer[s].for]
                 PROVE  /\ \A t \in Streams : ~SavesRow(t, q)'
                        /\ \A o \in Operators : ~ReplaySavesRow(o, q)
    BY <1>2, <1>3 DEF IInv, TypeOK
  <2>2. SavesRow(s, q)
    BY <2>1 DEF SavesRow
  <2> QED BY <1>8, <2>2 DEF IInv, SaversOK
<1>10. SaversOK'
  BY <1>1, <1>8, <1>9 DEF IInv, SaversOK
<1>11. KeptOK'
  <2>1. \A m \in Messages : Kept(PayloadOf[m])' = Kept(PayloadOf[m])
    <3>1. SUFFICES ASSUME NEW m \in Messages PROVE Kept(PayloadOf[m])' = Kept(PayloadOf[m])
      OBVIOUS
    <3>2. PICK q \in Payloads : q = PayloadOf[m]
      BY <1>2
    <3> QED BY <1>1, <3>2
  <2>2. ~restarted => \A m \in acked' : m \in Messages /\ Kept(PayloadOf[m])
    BY <1>3 DEF IInv, TypeOK, KeptOK
  <2>3. ASSUME ~restarted, NEW t \in Streams, consumer'[t].at # "idle"
        PROVE  Kept(PayloadOf[consumer[t].for])'
    <3>1. consumer'[t].for \in Messages /\ Kept(PayloadOf[consumer'[t].for])
      BY <2>3 DEF IInv, LocalsOK, KeptOK
    <3>2. PICK m \in Messages : m = consumer'[t].for
      BY <3>1
    <3>3. Kept(PayloadOf[m])'
      BY <2>1, <3>1, <3>2
    <3> QED BY <3>2, <3>3 DEF Kept
  <2> QED BY <2>1, <2>2, <2>3 DEF KeptOK
<1>12. MarksOK'
  BY <1>1 DEF IInv, MarksOK
<1> QED BY <1>1, <1>4, <1>5, <1>7, <1>10, <1>11, <1>12 DEF IInv

\* Garbage, the database call, the acknowledgement and its loss.
LEMMA ConsumerStep ==
  ASSUME IInv, NEW s \in Streams, Consume(s) \/ AckLost(s) PROVE IInv'
<1>1. ASSUME NEW m \in Messages, ReceivesMalformed(s, m) \/ ReceivesSignal(s, m) PROVE IInv'
  BY <1>1, ReceiveStep
<1>2. ASSUME NEW m \in Messages, ReceivesGarbage(s, m) PROVE IInv'
  <2>1. Kept(PayloadOf[m])
    BY <1>2 DEF ReceivesGarbage, Kept
  <2>2. /\ consumer' \in [ Streams -> [ at : { "idle", "save", "ack" }, for : Messages \cup {NoMessage} ] ]
        /\ \A t \in Streams : t # s => consumer'[t] = consumer[t]
        /\ consumer'[s].at = "ack" /\ consumer'[s].for = m
    <3>1. TypeOK /\ Go(s, m, "ack")
      BY <1>2 DEF ReceivesGarbage, IInv
    <3> QED BY <3>1, GoTypes
  <2> QED BY <1>2, <2>1, <2>2, ConsumerMoves DEF ReceivesGarbage, bounds, IInv, TypeOK
<1>3. CASE Saves(s)
  <2>1. consumer[s].for \in Messages /\ (~restarted => Kept(PayloadOf[consumer[s].for]))
    BY <1>3 DEF Saves, IInv, LocalsOK, KeptOK
  <2>2. /\ consumer' \in [ Streams -> [ at : { "idle", "save", "ack" }, for : Messages \cup {NoMessage} ] ]
        /\ \A t \in Streams : t # s => consumer'[t] = consumer[t]
        /\ consumer'[s].at = "ack" /\ consumer'[s].for = consumer[s].for
    BY <1>3, <2>1, GoTypes DEF Saves, IInv
  <2> QED BY <1>3, <2>1, <2>2, ConsumerMoves DEF Saves, bounds, IInv, TypeOK
<1>4. CASE Acknowledges(s) \/ AckLost(s)
  <2>1. /\ consumer' \in [ Streams -> [ at : { "idle", "save", "ack" }, for : Messages \cup {NoMessage} ] ]
        /\ \A t \in Streams : t # s => consumer'[t] = consumer[t]
        /\ consumer'[s].at = "idle"
    <3>1. Waits(s) /\ consumer \in [ Streams -> [ at : { "idle", "save", "ack" },
                                                 for : Messages \cup {NoMessage} ] ]
      BY <1>4 DEF Acknowledges, AckLost, IInv, TypeOK
    <3> QED BY <3>1 DEF Waits, NotConsuming
  <2>2. disturbances' \in 0..MaxDisturbances
    BY <1>4, OutcomeAssumption DEF Acknowledges, AckLost, Disturbed, bounds, IInv, TypeOK
  <2> QED BY <1>4, <2>1, <2>2, ConsumerMoves DEF Acknowledges, AckLost, bounds
<1> QED BY <1>1, <1>2, <1>3, <1>4 DEF Consume

-----------------------------------------------------------------------------
(* The replays *)

\* The replay of o moves on, to what it may do next; memory is left alone, or
\* ingests the replayed payload.
LEMMA ReplayMoves ==
  ASSUME IInv, NEW o \in Operators, UNCHANGED << acked, consumer, rows, edits, disturbances, restarted >>,
         replays' \in 0..MaxReplays,
         UNCHANGED memory \/ \E p \in Payloads : Ingests(p),
         replay' \in [ Operators -> [ at : { "idle", "ask", "save", "mark" }, id : Nat,
                                     payload : Payloads \cup {NoPayload} ] ],
         \A u \in Operators : u # o => replay'[u] = replay[u],
         replay'[o].at # "idle" =>
           /\ replay'[o].id \in Ids /\ replay'[o].payload \in Payloads
           /\ Settleable(replay'[o].payload),
         replay'[o].at \in { "save", "mark" } => replay'[o].payload \in signals',
         replay'[o].at = "save" => replay'[o].payload \notin signals
  PROVE  IInv'
<1>1. /\ MemoryTypes' /\ Grows
      /\ KeysOK' /\ FailuresAccounted' /\ ReplayedIsCounted'
      /\ \A q \in Payloads : Kept(q) => Kept(q)'
  <2>1. CASE UNCHANGED memory
    BY <2>1, MemoryRests
  <2>2. CASE \E p \in Payloads : Ingests(p)
    <3>1. PICK p \in Payloads : Ingests(p)
      BY <2>2
    <3>2. TypeOK /\ MemoryTypes' /\ Grows
      BY <3>1, IngestGrows DEF IInv
    <3>3. \A q \in Payloads : Kept(q) => Kept(q)'
      BY <3>2, KeptStays
    <3> QED BY <3>1, <3>2, <3>3, IngestCounts, IngestAccounts, IngestMarks
  <2> QED BY <2>1, <2>2
<1>2. Ids \subseteq Ids'
  <2>1. Len(quarantine) \in Nat /\ Len(quarantine)' \in Nat
    BY <1>1, LenProperties DEF IInv, TypeOK, MemoryTypes
  <2> QED BY <1>1, <2>1 DEF Ids, Grows
<1>3. TypeOK'
  <2>1. \A u \in Operators : replay'[u].at # "idle" => replay'[u].id \in Ids'
    BY <1>2 DEF IInv, TypeOK
  <2> QED BY <1>1, <2>1 DEF IInv, TypeOK, MemoryTypes
<1>4. LocalsOK'
  BY DEF IInv, LocalsOK, Settleable
<1>5. RowsOK'
  BY <1>1 DEF IInv, RowsOK, Grows
<1>6. SaversOK'
  <2>1. SUFFICES ASSUME NEW q \in Payloads
        PROVE ( /\ \A t \in Streams : SavesRow(t, q) => q \in signals /\ (~restarted => rows[q] = 0)
                /\ \A u \in Operators : ReplaySavesRow(u, q) => q \in signals /\ (~restarted => rows[q] = 0)
                /\ \A t, u \in Streams : SavesRow(t, q) /\ SavesRow(u, q) => t = u
                /\ \A u, v \in Operators : ReplaySavesRow(u, q) /\ ReplaySavesRow(v, q) => u = v
                /\ \A t \in Streams, u \in Operators : ~(SavesRow(t, q) /\ ReplaySavesRow(u, q)) )'
    BY DEF SaversOK
  <2>2. \A t \in Streams : SavesRow(t, q)' = SavesRow(t, q)
    BY DEF SavesRow
  <2>3. \A u \in Operators : u # o => ReplaySavesRow(u, q)' = ReplaySavesRow(u, q)
    BY DEF ReplaySavesRow
  <2>4. ReplaySavesRow(o, q)' => q \notin signals /\ q \in signals'
    BY DEF ReplaySavesRow
  <2>5. q \notin signals =>
          /\ ~restarted => rows[q] = 0
          /\ \A t \in Streams : ~SavesRow(t, q)
          /\ \A u \in Operators : ~ReplaySavesRow(u, q)
    BY DEF IInv, TypeOK, RowsOK, SaversOK
  <2>6. (\A t, u \in Streams : SavesRow(t, q) /\ SavesRow(u, q) => t = u)'
    BY <2>2 DEF IInv, SaversOK
  <2>7. (\A t \in Streams, u \in Operators : ~(SavesRow(t, q) /\ ReplaySavesRow(u, q)))'
    BY <2>2, <2>3, <2>4, <2>5 DEF IInv, SaversOK
  <2>8. (\A t \in Streams : SavesRow(t, q) => q \in signals /\ (~restarted => rows[q] = 0))'
    BY <1>1, <2>2 DEF IInv, SaversOK, Grows
  <2>9. (\A u \in Operators : ReplaySavesRow(u, q) => q \in signals /\ (~restarted => rows[q] = 0))'
    BY <1>1, <2>3, <2>4, <2>5 DEF IInv, SaversOK, Grows
  <2>10. (\A u, v \in Operators : ReplaySavesRow(u, q) /\ ReplaySavesRow(v, q) => u = v)'
    BY <2>3, <2>4, <2>5 DEF IInv, SaversOK
  <2> QED BY <2>6, <2>7, <2>8, <2>9, <2>10
<1>7. KeptOK'
  <2>1. \A m \in Messages : Kept(PayloadOf[m]) => Kept(PayloadOf[m])'
    <3>1. SUFFICES ASSUME NEW m \in Messages, Kept(PayloadOf[m]) PROVE Kept(PayloadOf[m])'
      OBVIOUS
    <3>2. PICK q \in Payloads : q = PayloadOf[m]
      BY OutcomeAssumption
    <3> QED BY <1>1, <3>1, <3>2
  <2>2. ASSUME ~restarted, NEW t \in Streams, consumer'[t].at # "idle"
        PROVE  Kept(PayloadOf[consumer[t].for])'
    <3>1. PICK m \in Messages : m = consumer[t].for
      BY <2>2 DEF IInv, LocalsOK
    <3>2. Kept(PayloadOf[m])'
      BY <2>1, <2>2, <3>1 DEF IInv, KeptOK
    <3> QED BY <3>1, <3>2 DEF Kept
  <2>3. ASSUME ~restarted, NEW m \in acked PROVE Kept(PayloadOf[m])'
    BY <2>1, <2>3 DEF IInv, TypeOK, KeptOK
  <2> QED BY <2>2, <2>3 DEF KeptOK
<1>8. MarksOK'
  BY <1>1 DEF IInv, MarksOK, Grows
<1> QED BY <1>1, <1>3, <1>4, <1>5, <1>6, <1>7, <1>8 DEF IInv

\* A replay begins by asking; what it replays can be settled.
LEMMA ReplayBegins ==
  ASSUME IInv, NEW o \in Operators, NEW i \in Ids, ReplayRefused(o, i) \/ ReplayAsks(o, i)
  PROVE  IInv'
<1>1. PICK p \in Payloads : p = Current(quarantine[i])
  <2>1. quarantine[i] \in QuarantinedEvent
    BY ElementOfSeq DEF IInv, TypeOK, Ids
  <2> QED BY <2>1 DEF Current, QuarantinedEvent
<1>2. replays' \in 0..MaxReplays
  BY OutcomeAssumption DEF ReplayRefused, ReplayAsks, CanReplay, IInv, TypeOK
<1>3. CASE ReplayRefused(o, i)
  <2>1. Ingests(p)
    BY <1>1, <1>3 DEF ReplayRefused, IsMalformed, Refuse, Ingests
  <2>2. replay' = replay /\ replay[o].at = "idle"
    BY <1>3 DEF ReplayRefused, CanReplay
  <2> QED BY <1>2, <1>3, <2>1, <2>2, ReplayMoves DEF ReplayRefused, IInv, TypeOK
<1>4. CASE ReplayAsks(o, i)
  <2>1. replay' = [ replay EXCEPT ![o] = [ at |-> "ask", id |-> i, payload |-> p ] ]
    BY <1>1, <1>4 DEF ReplayAsks
  <2>2. i \in Nat
    BY LenProperties DEF IInv, TypeOK, Ids
  <2>3. /\ replay' \in [ Operators -> [ at : { "idle", "ask", "save", "mark" }, id : Nat,
                                        payload : Payloads \cup {NoPayload} ] ]
        /\ \A u \in Operators : u # o => replay'[u] = replay[u]
        /\ replay'[o].at = "ask" /\ replay'[o].id = i /\ replay'[o].payload = p
    BY <2>1, <2>2 DEF IInv, TypeOK
  <2>4. Settleable(p)
    BY <1>1, <1>4 DEF ReplayAsks, Settleable
  <2> QED BY <1>2, <1>4, <2>3, <2>4, ReplayMoves DEF ReplayAsks
<1> QED BY <1>3, <1>4

\* The locals of a replay that goes on, or ends.
LEMMA ReplayTypes ==
  ASSUME TypeOK, NEW o \in Operators
  PROVE  /\ ReplayEnds(o) =>
              /\ replay' \in [ Operators -> [ at : { "idle", "ask", "save", "mark" }, id : Nat,
                                             payload : Payloads \cup {NoPayload} ] ]
              /\ \A u \in Operators : u # o => replay'[u] = replay[u]
              /\ replay'[o].at = "idle"
         /\ \A at \in { "save", "mark" } : ReplayAt(o, at) =>
              /\ replay' \in [ Operators -> [ at : { "idle", "ask", "save", "mark" }, id : Nat,
                                             payload : Payloads \cup {NoPayload} ] ]
              /\ \A u \in Operators : u # o => replay'[u] = replay[u]
              /\ replay'[o].at = at /\ replay'[o].id = replay[o].id
              /\ replay'[o].payload = replay[o].payload
<1>1. replay \in [ Operators -> [ at : { "idle", "ask", "save", "mark" }, id : Nat,
                                 payload : Payloads \cup {NoPayload} ] ]
  BY DEF TypeOK
<1>2. NotReplaying \in [ at : { "idle", "ask", "save", "mark" }, id : Nat,
                        payload : Payloads \cup {NoPayload} ]
  BY DEF NotReplaying
<1>3. ASSUME ReplayEnds(o)
      PROVE  /\ replay' \in [ Operators -> [ at : { "idle", "ask", "save", "mark" }, id : Nat,
                                             payload : Payloads \cup {NoPayload} ] ]
             /\ \A u \in Operators : u # o => replay'[u] = replay[u]
             /\ replay'[o].at = "idle"
  <2>1. replay' = [ replay EXCEPT ![o] = NotReplaying ]
    BY <1>3 DEF ReplayEnds
  <2>2. replay'[o].at = "idle"
    BY <1>1, <2>1 DEF NotReplaying
  <2> QED BY <1>1, <1>2, <2>1, <2>2
<1>4. ASSUME NEW at \in { "save", "mark" }, ReplayAt(o, at)
      PROVE  /\ replay' \in [ Operators -> [ at : { "idle", "ask", "save", "mark" }, id : Nat,
                                             payload : Payloads \cup {NoPayload} ] ]
             /\ \A u \in Operators : u # o => replay'[u] = replay[u]
             /\ replay'[o].at = at /\ replay'[o].id = replay[o].id
             /\ replay'[o].payload = replay[o].payload
  BY <1>1, <1>4 DEF ReplayAt
<1> QED BY <1>3, <1>4

\* Task and repository were asked for: the payload is settled, or set aside.
LEMMA ReplaySettlesStep ==
  ASSUME IInv, NEW o \in Operators, ReplayUnknown(o) \/ ReplaySettles(o) PROVE IInv'
<1>1. PICK p \in Payloads : p = replay[o].payload /\ Settleable(p)
  BY DEF ReplayUnknown, ReplaySettles, IInv, LocalsOK
<1>2. TypeOK /\ replay[o].id \in Ids /\ replays \in 0..MaxReplays
  BY DEF ReplayUnknown, ReplaySettles, IInv, TypeOK
<1>3. CASE ReplayUnknown(o)
  <2>1. Ingests(p) /\ ReplayEnds(o)
    BY <1>1, <1>3 DEF ReplayUnknown, Ingests
  <2> QED BY <1>2, <1>3, <2>1, ReplayTypes, ReplayMoves DEF ReplayUnknown, bounds
<1>4. CASE ReplaySettles(o)
  <2>1. Ingests(p) /\ Settle(p)
    BY <1>1, <1>4 DEF ReplaySettles, Ingests
  <2>2. CASE Counts(p)
    <3>1. ReplayAt(o, "save") /\ p \notin signals /\ p \in signals'
      BY <1>1, <1>4, <2>1, <2>2 DEF ReplaySettles, Settle, Counts, IsCounted
    <3> QED BY <1>1, <1>2, <1>4, <2>1, <3>1, ReplayTypes, ReplayMoves DEF ReplaySettles, bounds
  <2>3. CASE ~Counts(p) /\ p \in signals
    <3>1. ReplayAt(o, "mark") /\ p \in signals'
      BY <1>1, <1>4, <2>1, <2>3 DEF ReplaySettles, Settle, memory
    <3> QED BY <1>1, <1>2, <1>4, <2>1, <3>1, ReplayTypes, ReplayMoves DEF ReplaySettles, bounds
  <2>4. CASE ~Counts(p) /\ p \notin signals
    <3>1. ReplayEnds(o)
      BY <1>1, <1>4, <2>4 DEF ReplaySettles
    <3> QED BY <1>2, <1>4, <2>1, <3>1, ReplayTypes, ReplayMoves DEF ReplaySettles, bounds
  <2> QED BY <2>2, <2>3, <2>4
<1> QED BY <1>3, <1>4

\* The row of a replayed signal: nobody else stores it.
LEMMA ReplaySavesStep == ASSUME IInv, NEW o \in Operators, ReplaySaves(o) PROVE IInv'
<1>1. PICK p \in Payloads : p = replay[o].payload /\ Settleable(p)
  BY DEF ReplaySaves, IInv, LocalsOK
<1>2. /\ UNCHANGED << acked, consumer, memory, replays, edits, disturbances, restarted >>
      /\ signals' = signals
      /\ rows' = [ rows EXCEPT ![p] = @ + 1 ] \/ rows' = rows
      /\ ReplayAt(o, "mark")
  BY <1>1 DEF ReplaySaves, bounds, memory
<1>3. /\ replay' \in [ Operators -> [ at : { "idle", "ask", "save", "mark" }, id : Nat,
                                      payload : Payloads \cup {NoPayload} ] ]
      /\ \A u \in Operators : u # o => replay'[u] = replay[u]
      /\ replay'[o].at = "mark" /\ replay'[o].id = replay[o].id
      /\ replay'[o].payload = replay[o].payload
  BY <1>2, ReplayTypes DEF IInv
<1>4. ReplaySavesRow(o, p)
  BY <1>1 DEF ReplaySaves, ReplaySavesRow
<1>5. /\ p \in signals /\ (~restarted => rows[p] = 0)
      /\ \A t \in Streams : ~SavesRow(t, p)
      /\ \A u \in Operators : ReplaySavesRow(u, p) => u = o
  BY <1>4 DEF IInv, SaversOK
<1>6. /\ MemoryTypes' /\ Ids' = Ids
      /\ KeysOK' /\ FailuresAccounted' /\ ReplayedIsCounted'
      /\ \A q \in Payloads : Kept(q)' = Kept(q)
  BY <1>2, MemoryRests
<1>7. rows' \in [ Payloads -> Nat ] /\ \A q \in Payloads : q # p => rows'[q] = rows[q]
  <2>1. rows \in [ Payloads -> Nat ]
    BY DEF IInv, TypeOK
  <2> QED BY <1>2, <2>1
<1>8. TypeOK'
  <2>1. \A u \in Operators : replay'[u].at # "idle" => replay'[u].id \in Ids'
    BY <1>3, <1>6 DEF ReplaySaves, IInv, TypeOK
  <2> QED BY <1>2, <1>3, <1>6, <1>7, <2>1 DEF IInv, TypeOK, MemoryTypes
<1>9. LocalsOK'
  BY <1>1, <1>2, <1>3 DEF IInv, LocalsOK, Settleable
<1>10. RowsOK'
  <2>1. ~restarted => rows'[p] <= 1
    BY <1>2, <1>5 DEF IInv, TypeOK
  <2> QED BY <1>2, <1>5, <1>7, <2>1 DEF IInv, RowsOK
<1>11. SaversOK'
  <2>1. \A q \in Payloads : \A t \in Streams : SavesRow(t, q)' = SavesRow(t, q)
    BY <1>2 DEF SavesRow
  <2>2. \A q \in Payloads : \A u \in Operators :
          ReplaySavesRow(u, q)' => ReplaySavesRow(u, q) /\ u # o
    BY <1>3 DEF ReplaySavesRow
  <2>3. \A t \in Streams : ~SavesRow(t, p)'
    BY <1>5, <2>1
  <2>4. \A u \in Operators : ~ReplaySavesRow(u, p)'
    BY <1>5, <2>2
  <2> QED BY <1>2, <1>7, <2>1, <2>2, <2>3, <2>4 DEF IInv, SaversOK
<1>12. KeptOK'
  <2>1. \A m \in Messages : Kept(PayloadOf[m])' = Kept(PayloadOf[m])
    <3>1. SUFFICES ASSUME NEW m \in Messages PROVE Kept(PayloadOf[m])' = Kept(PayloadOf[m])
      OBVIOUS
    <3>2. PICK q \in Payloads : q = PayloadOf[m]
      BY OutcomeAssumption
    <3> QED BY <1>6, <3>2
  <2>2. ASSUME ~restarted, NEW t \in Streams, consumer'[t].at # "idle"
        PROVE  Kept(PayloadOf[consumer[t].for])'
    <3>1. PICK m \in Messages : m = consumer[t].for
      BY <1>2, <2>2 DEF IInv, LocalsOK
    <3>2. Kept(PayloadOf[m])'
      BY <1>2, <2>1, <2>2, <3>1 DEF IInv, KeptOK
    <3> QED BY <1>2, <3>1, <3>2 DEF Kept
  <2>3. ASSUME ~restarted, NEW m \in acked PROVE Kept(PayloadOf[m])'
    BY <2>1, <2>3 DEF IInv, TypeOK, KeptOK
  <2> QED BY <1>2, <2>2, <2>3 DEF KeptOK
<1>13. MarksOK'
  BY <1>1, <1>2, <1>3, <1>5, <1>6 DEF IInv, MarksOK
<1> QED BY <1>6, <1>8, <1>9, <1>10, <1>11, <1>12, <1>13 DEF IInv

-----------------------------------------------------------------------------
(* Marks, corrections and deletions *)

\* One event of the quarantine is edited, its payload stays what it was, and it
\* is marked as counted with a signal if at all.
LEMMA EditStep ==
  ASSUME IInv, NEW i \in Ids, NEW e \in QuarantinedEvent,
         e.payload = quarantine[i].payload,
         e.counted = quarantine[i].counted \/ e.counted \in signals,
         quarantine' = [ quarantine EXCEPT ![i] = e ] \/ quarantine' = quarantine,
         UNCHANGED << acked, consumer, rows, signals, failures, deadLetters,
                      replays, disturbances, restarted >>,
         edits' \in 0..MaxEdits,
         replay' = replay \/ \E o \in Operators : ReplayEnds(o)
  PROVE  IInv'
<1>1. /\ quarantine' \in Seq(QuarantinedEvent) /\ Len(quarantine)' = Len(quarantine)
      /\ Len(quarantine) \in Nat
      /\ \A j \in Ids : quarantine'[j] = IF j = i /\ quarantine' # quarantine THEN e ELSE quarantine[j]
  <2>1. quarantine \in Seq(QuarantinedEvent) /\ Len(quarantine) \in Nat
    BY LenProperties DEF IInv, TypeOK
  <2>2. CASE quarantine' = quarantine
    BY <2>1, <2>2
  <2>3. CASE quarantine' = [ quarantine EXCEPT ![i] = e ] /\ quarantine' # quarantine
    <3>1. i \in 1..Len(quarantine)
      BY DEF Ids
    <3> QED BY <2>1, <2>3, <3>1, ExceptSeq DEF Ids
  <2> QED BY <2>2, <2>3
<1>2. /\ Ids' = Ids
      /\ \A j \in Ids : quarantine'[j].payload = quarantine[j].payload
      /\ \A j \in Ids : \/ quarantine'[j].counted = quarantine[j].counted
                        \/ quarantine'[j].counted \in signals
  BY <1>1 DEF Ids
<1>3. /\ replay' \in [ Operators -> [ at : { "idle", "ask", "save", "mark" }, id : Nat,
                                      payload : Payloads \cup {NoPayload} ] ]
      /\ \A o \in Operators : replay'[o] = replay[o] \/ replay'[o].at = "idle"
  BY ReplayTypes DEF IInv, TypeOK
<1>4. TypeOK'
  BY <1>1, <1>2, <1>3 DEF IInv, TypeOK
<1>5. LocalsOK' /\ KeysOK' /\ RowsOK'
  BY <1>3 DEF IInv, LocalsOK, KeysOK, RowsOK, Settleable
<1>6. SaversOK'
  <2>1. \A q \in Payloads : \A t \in Streams : SavesRow(t, q)' = SavesRow(t, q)
    BY DEF SavesRow
  <2>2. \A q \in Payloads : \A u \in Operators : ReplaySavesRow(u, q)' => ReplaySavesRow(u, q)
    BY <1>3 DEF ReplaySavesRow
  <2> QED BY <2>1, <2>2 DEF IInv, SaversOK
<1>7. \A p \in Payloads : EventsOf(p)' = EventsOf(p)
  BY <1>2 DEF EventsOf
<1>8. FailuresAccounted'
  BY <1>7 DEF IInv, FailuresAccounted, EventsOf
<1>9. \A m \in Messages : Kept(PayloadOf[m])' = Kept(PayloadOf[m])
  BY <1>2 DEF Kept
<1>10. KeptOK'
  <2>1. ASSUME ~restarted, NEW t \in Streams, consumer'[t].at # "idle"
        PROVE  Kept(PayloadOf[consumer[t].for])'
    <3>1. PICK m \in Messages : m = consumer[t].for
      BY <2>1 DEF IInv, LocalsOK
    <3>2. Kept(PayloadOf[m])'
      BY <1>9, <2>1, <3>1 DEF IInv, KeptOK
    <3> QED BY <3>1, <3>2 DEF Kept
  <2>2. ASSUME ~restarted, NEW m \in acked PROVE Kept(PayloadOf[m])'
    BY <1>9, <2>2 DEF IInv, TypeOK, KeptOK
  <2> QED BY <2>1, <2>2 DEF KeptOK
<1>11. MarksOK'
  BY <1>2, <1>3 DEF IInv, MarksOK, ReplayedIsCounted
<1> QED BY <1>4, <1>5, <1>6, <1>8, <1>10, <1>11 DEF IInv

\* The replay marks its event, operators correct, mark and delete events.
LEMMA QuarantineStep ==
  ASSUME IInv,
         \/ \E o \in Operators : MarksReplayed(o)
         \/ \E i \in Ids : (\E p \in Corrections : Corrects(i, p)) \/ MarksByHand(i) \/ Deletes(i)
  PROVE  IInv'
<1>1. \A i \in Ids : quarantine[i] \in QuarantinedEvent
  BY ElementOfSeq DEF IInv, TypeOK, Ids
<1>2. ASSUME NEW o \in Operators, MarksReplayed(o) PROVE IInv'
  <2>1. PICK i \in Ids : i = replay[o].id
    BY <1>2 DEF MarksReplayed, IInv, TypeOK
  <2>2. PICK p \in Payloads : p = replay[o].payload /\ p \in signals
    BY <1>2 DEF MarksReplayed, IInv, LocalsOK, MarksOK
  <2> DEFINE e == [ quarantine[i] EXCEPT !.replayed = TRUE, !.counted = p ]
  <2>3. /\ e \in QuarantinedEvent /\ e.payload = quarantine[i].payload /\ e.counted = p
    BY <1>1 DEF QuarantinedEvent
  <2>4. quarantine' = [ quarantine EXCEPT ![i] = e ] \/ quarantine' = quarantine
    BY <1>2, <2>1, <2>2 DEF MarksReplayed
  <2>5. edits' \in 0..MaxEdits /\ ReplayEnds(o)
        /\ UNCHANGED << acked, consumer, rows, signals, failures, deadLetters,
                        replays, disturbances, restarted >>
    BY <1>2 DEF MarksReplayed, bounds, IInv, TypeOK
  <2> HIDE DEF e
  <2> QED BY <2>2, <2>3, <2>4, <2>5, EditStep
<1>3. ASSUME NEW i \in Ids, (\E p \in Corrections : Corrects(i, p)) \/ MarksByHand(i) \/ Deletes(i)
      PROVE  IInv'
  <2>1. PICK e \in QuarantinedEvent :
          /\ e.payload = quarantine[i].payload /\ e.counted = quarantine[i].counted
          /\ quarantine' = [ quarantine EXCEPT ![i] = e ]
    <3>1. CASE \E p \in Corrections : Corrects(i, p)
      <4>1. PICK p \in Corrections : Corrects(i, p)
        BY <3>1
      <4> DEFINE e == [ quarantine[i] EXCEPT !.corrected = p ]
      <4>2. e \in QuarantinedEvent /\ e.payload = quarantine[i].payload
            /\ e.counted = quarantine[i].counted
        BY <1>1, OutcomeAssumption DEF QuarantinedEvent
      <4>3. quarantine' = [ quarantine EXCEPT ![i] = e ]
        BY <4>1 DEF Corrects
      <4> HIDE DEF e
      <4> QED BY <4>2, <4>3
    <3>2. CASE MarksByHand(i)
      <4> DEFINE e == [ quarantine[i] EXCEPT !.replayed = TRUE ]
      <4>1. e \in QuarantinedEvent /\ e.payload = quarantine[i].payload
            /\ e.counted = quarantine[i].counted
        BY <1>1 DEF QuarantinedEvent
      <4>2. quarantine' = [ quarantine EXCEPT ![i] = e ]
        BY <3>2 DEF MarksByHand
      <4> HIDE DEF e
      <4> QED BY <4>1, <4>2
    <3>3. CASE Deletes(i)
      <4> DEFINE e == [ quarantine[i] EXCEPT !.deleted = TRUE ]
      <4>1. e \in QuarantinedEvent /\ e.payload = quarantine[i].payload
            /\ e.counted = quarantine[i].counted
        BY <1>1 DEF QuarantinedEvent
      <4>2. quarantine' = [ quarantine EXCEPT ![i] = e ]
        BY <3>3 DEF Deletes
      <4> HIDE DEF e
      <4> QED BY <4>1, <4>2
    <3> QED BY <1>3, <3>1, <3>2, <3>3
  <2>2. edits' \in 0..MaxEdits
    BY <1>3, OutcomeAssumption DEF Corrects, MarksByHand, Deletes, Edited, IInv, TypeOK
  <2>3. UNCHANGED << acked, consumer, replay, rows, signals, failures, deadLetters,
                     replays, disturbances, restarted >>
    BY <1>3 DEF Corrects, MarksByHand, Deletes, Edited
  <2> QED BY <2>1, <2>2, <2>3, EditStep
<1> QED BY <1>2, <1>3

\* A restart forgets everything but the rows and the acknowledgements.
LEMMA RestartStep == ASSUME IInv, Restart PROVE IInv'
<1>1. /\ consumer' = [ s \in Streams |-> NotConsuming ]
      /\ replay' = [ o \in Operators |-> NotReplaying ]
      /\ signals' = {} /\ quarantine' = << >> /\ restarted' = TRUE
      /\ failures' = [ p \in Payloads |-> 0 ] /\ deadLetters' = [ p \in Payloads |-> 0 ]
      /\ UNCHANGED << acked, rows, replays, edits >>
      /\ disturbances' \in 0..MaxDisturbances
  BY OutcomeAssumption DEF Restart, Disturbed, IInv, TypeOK
<1>2. Ids' = {} /\ quarantine' \in Seq(QuarantinedEvent)
  BY <1>1, EmptySeq DEF Ids
<1>3. /\ \A s \in Streams : consumer'[s].at = "idle"
      /\ \A o \in Operators : replay'[o].at = "idle"
  BY <1>1 DEF NotConsuming, NotReplaying
<1>4. TypeOK'
  <2>1. failures' \in [ Payloads -> 0..MaxAttempts - 1 ]
    <3>1. 0 \in 0..MaxAttempts - 1
      BY OutcomeAssumption
    <3> QED BY <1>1, <3>1
  <2>2. /\ consumer' \in [ Streams -> [ at : { "idle", "save", "ack" }, for : Messages \cup {NoMessage} ] ]
        /\ replay' \in [ Operators -> [ at : { "idle", "ask", "save", "mark" }, id : Nat,
                                       payload : Payloads \cup {NoPayload} ] ]
    BY <1>1 DEF NotConsuming, NotReplaying
  <2>3. deadLetters' \in [ Payloads -> Nat ]
    BY <1>1
  <2> QED BY <1>1, <1>2, <1>3, <2>1, <2>2, <2>3 DEF IInv, TypeOK
<1>5. LocalsOK' /\ KeysOK' /\ RowsOK' /\ SaversOK' /\ KeptOK' /\ MarksOK'
  BY <1>1, <1>2, <1>3 DEF LocalsOK, KeysOK, RowsOK, SaversOK, SavesRow, ReplaySavesRow,
                          KeptOK, MarksOK, ReplayedIsCounted
<1>6. FailuresAccounted'
  <2>1. SUFFICES ASSUME NEW p \in Payloads
                 PROVE  Cardinality({ i \in Ids' : quarantine'[i].payload = p })
                          = (MaxAttempts - 1) * deadLetters'[p] + failures'[p]
    BY DEF FailuresAccounted
  <2>2. { i \in Ids' : quarantine'[i].payload = p } = {}
    BY <1>2
  <2>3. deadLetters'[p] = 0 /\ failures'[p] = 0
    BY <1>1
  <2>4. (MaxAttempts - 1) * 0 + 0 = 0
    BY OutcomeAssumption
  <2>5. Cardinality({}) = 0
    BY FS_EmptySet
  <2> QED BY <2>2, <2>3, <2>4, <2>5
<1> QED BY <1>4, <1>5, <1>6 DEF IInv

\* Every step preserves the invariant.
LEMMA InvNext == IInv /\ [Next]_vars => IInv'
<1>1. SUFFICES ASSUME IInv, [Next]_vars PROVE IInv'
  OBVIOUS
<1>2. ASSUME NEW s \in Streams, Consume(s) \/ AckLost(s) PROVE IInv'
  BY <1>1, <1>2, ConsumerStep
<1>3. CASE Operate
  <2>1. ASSUME NEW o \in Operators, Replay(o) PROVE IInv'
    <3>1. ASSUME NEW i \in Ids, ReplayRefused(o, i) \/ ReplayAsks(o, i) PROVE IInv'
      BY <1>1, <3>1, ReplayBegins
    <3>2. CASE ReplayUnknown(o) \/ ReplaySettles(o)
      BY <1>1, <3>2, ReplaySettlesStep
    <3>3. CASE ReplaySaves(o)
      BY <1>1, <3>3, ReplaySavesStep
    <3>4. CASE MarksReplayed(o)
      BY <1>1, <3>4, QuarantineStep
    <3> QED BY <2>1, <3>1, <3>2, <3>3, <3>4 DEF Replay
  <2>2. ASSUME NEW i \in Ids, (\E p \in Corrections : Corrects(i, p)) \/ MarksByHand(i) \/ Deletes(i)
        PROVE  IInv'
    BY <1>1, <2>2, QuarantineStep
  <2> QED BY <1>3, <2>1, <2>2 DEF Operate
<1>4. CASE Restart
  BY <1>1, <1>4, RestartStep
<1>5. CASE UNCHANGED vars
  <2>1. UNCHANGED << acked, consumer, replay, rows, signals, quarantine, failures, deadLetters,
                     replays, edits, disturbances, restarted >>
    BY <1>5 DEF vars, memory, bounds
  <2>2. TypeOK' /\ LocalsOK' /\ KeysOK' /\ RowsOK'
    BY <1>1, <2>1 DEF IInv, TypeOK, LocalsOK, KeysOK, RowsOK, Ids
  <2>3. SaversOK' /\ KeptOK' /\ FailuresAccounted' /\ MarksOK'
    BY <1>1, <2>1 DEF IInv, SaversOK, SavesRow, ReplaySavesRow, KeptOK, Kept,
                      FailuresAccounted, MarksOK, ReplayedIsCounted, Ids
  <2> QED BY <2>2, <2>3 DEF IInv
<1> QED BY <1>1, <1>2, <1>3, <1>4, <1>5 DEF Next, Quiet

\* The invariant holds of every reachable state.
THEOREM Invariant == Spec => []IInv
<1>1. Init => IInv
  BY InvInit
<1>2. IInv /\ [Next]_vars => IInv'
  BY InvNext
<1> QED BY <1>1, <1>2, PTL DEF Spec

\* Every variable keeps its type.
THEOREM TypeCorrect == Spec => []TypeOK
<1>1. IInv => TypeOK
  BY DEF IInv
<1> QED BY <1>1, Invariant, PTL

\* One signal for an event, and one row of one process, however its messages,
\* their redeliveries and its replays interleave.
THEOREM EventsCountOnce == Spec => []CountedOnce
<1>1. IInv => CountedOnce
  BY DEF IInv, TypeOK, KeysOK, RowsOK, CountedOnce
<1> QED BY <1>1, Invariant, PTL

\* What a consumer acknowledged is kept by a process that does not restart.
THEOREM AcknowledgedIsKept == Spec => []AckedIsKept
<1>1. IInv => AckedIsKept
  BY DEF IInv, KeptOK, Kept, AckedIsKept
<1> QED BY <1>1, Invariant, PTL

\* The quarantined events, the dead letters and the failures that are being
\* counted balance.
THEOREM FailuresBalance == Spec => []FailuresAccounted
<1>1. IInv => FailuresAccounted
  BY DEF IInv
<1> QED BY <1>1, Invariant, PTL

\* What a replay marked as replayed was counted.
THEOREM ReplayedCounts == Spec => []ReplayedIsCounted
<1>1. IInv => ReplayedIsCounted
  BY DEF IInv, MarksOK
<1> QED BY <1>1, Invariant, PTL

=============================================================================
