-------------------------- MODULE LiveTrackProofs ----------------------------
(***************************************************************************)
(* Proofs about the way of an event to the clients: how it is accepted       *)
(* (Ingest), for any events, keys and number of requests and polls, and how  *)
(* the objects it changed reach the connections (LiveStream), for any        *)
(* instances, clients, objects and deployments.                              *)
(***************************************************************************)
EXTENDS Ingest, LiveStream, FiniteSetTheorems, SequenceTheorems, TLAPS

USE IngestAssumption, StreamAssumption

-----------------------------------------------------------------------------
(* The acceptance of events.                                                 *)

LEMMA IdleAt == Idle.at = "idle"
BY DEF Idle

LEMMA IngestRequestAtStep ==
  ASSUME IngestTypeOK, NEW h \in Handlers, req[h].at = "publish"
  PROVE  /\ req[h] \in PublishType /\ req[h].key \in Keys /\ req[h].event \in EventsOf
         /\ req[h].ingest \in 1..MaxAccepted
         /\ Entry(req[h].key, req[h].event, req[h].ingest) \in Entries
<1>1. req[h] \in PublishType
  BY IdleAt DEF IngestTypeOK
<1> QED BY <1>1 DEF PublishType, Entry, Entries

\* What accepting a set of events does to the counters.
LEMMA EventsAccepted ==
  ASSUME IngestTypeOK, NEW es \in SUBSET EventsOf, AcceptEvents(es)
  PROVE  /\ accepted' \in 0..MaxAccepted /\ accepted' = accepted + Cardinality(es)
         /\ IsFiniteSet(es) /\ Cardinality(es) \in Nat
         /\ events' = events \cup {e.id : e \in es} /\ events' \subseteq Ids
         /\ times' \in [Ids -> Nat]
<1>1. \A s \in SUBSET EventsOf : IsFiniteSet(s) /\ Cardinality(s) \in Nat
  BY FS_Subset, FS_CardinalityType DEF EventsOf
<1>2. \A i \in Ids : Cardinality({e \in es : e.id = i}) \in Nat
  BY <1>1
<1>3. accepted' = accepted + Cardinality(es) /\ accepted' <= MaxAccepted
  BY DEF AcceptEvents
<1>4. events' = events \cup {e.id : e \in es} /\ events' \subseteq Ids
  BY DEF AcceptEvents, IngestTypeOK, EventsOf
<1>5. times' \in [Ids -> Nat]
  <2> DEFINE n(i) == Cardinality({e \in es : e.id = i})
  <2>1. times' = [i \in Ids |-> times[i] + n(i)]
    BY DEF AcceptEvents
  <2>2. \A i \in Ids : n(i) \in Nat /\ times[i] \in Nat
    BY <1>2 DEF IngestTypeOK
  <2> HIDE DEF n
  <2> QED BY <2>1, <2>2
<1> QED BY <1>1, <1>3, <1>4, <1>5 DEF IngestTypeOK

LEMMA NewFields ==
  ASSUME IngestTypeOK, NEW h \in Handlers, NEW key \in Keys, NEW e \in EventsOf, IngestNew(h, key, e)
  PROVE  /\ req' \in [Handlers -> {Idle, [at |-> "poll"]} \cup PublishType]
         /\ req'[h].at = "publish" /\ req'[h].key = key /\ req[h] = Idle
         /\ \A g \in Handlers \ {h} : req'[g] = req[g]
         /\ raced \subseteq raced' /\ raced' \subseteq raced \cup {key}
         /\ \A g \in Handlers : req[g].at = "publish" /\ req[g].key = key => key \in raced'
<1> DEFINE x == [at |-> "publish", key |-> key, event |-> e, ingest |-> accepted']
<1>1. accepted' \in 1..MaxAccepted
  <2>1. AcceptEvents({e}) /\ {e} \in SUBSET EventsOf
    BY DEF IngestNew
  <2>2. Cardinality({e}) = 1
    BY FS_Singleton
  <2> QED BY <2>1, <2>2, EventsAccepted DEF IngestTypeOK
<1>2. x \in PublishType /\ x.at = "publish" /\ x.key = key
  BY <1>1 DEF PublishType
<1>3. req' = [req EXCEPT ![h] = x] /\ req[h] = Idle
  BY DEF IngestNew
<1> HIDE DEF x
<1>4. /\ req' \in [Handlers -> {Idle, [at |-> "poll"]} \cup PublishType]
      /\ req'[h] = x /\ \A g \in Handlers \ {h} : req'[g] = req[g]
  BY <1>2, <1>3 DEF IngestTypeOK
<1>5. raced' = raced \cup {r.key : r \in {q \in Range(req) : q.at = "publish" /\ q.key = key}}
  BY DEF IngestNew
<1>6. \A g \in Handlers : req[g] \in Range(req)
  BY DEF Range, IngestTypeOK
<1> QED BY <1>2, <1>3, <1>4, <1>5, <1>6

-----------------------------------------------------------------------------
LEMMA IngestTypeInit == IngestInit => IngestTypeOK
BY DEF IngestInit, IngestTypeOK, Never

LEMMA IngestTypeStep == IngestTypeOK /\ [IngestNext]_ingestVars => IngestTypeOK'
<1> SUFFICES ASSUME IngestTypeOK, [IngestNext]_ingestVars PROVE IngestTypeOK'
  OBVIOUS
<1>1. ASSUME NEW key \in Keys, NEW e \in EventsOf, IngestKnown(key, e) PROVE IngestTypeOK'
  <2>1. PICK d \in idempotency :
          /\ d.key = key
          /\ IF Refused(d, e)
             THEN refused' = refused \cup {[key |-> key, event |-> e]} /\ UNCHANGED answers
             ELSE answers' = answers \cup {Entry(key, e, d.ingest)} /\ UNCHANGED refused
    BY <1>1 DEF IngestKnown
  <2>2. Entry(key, e, d.ingest) \in Entries
    BY DEF IngestTypeOK, Entries, Entry
  <2>3. answers' \subseteq Entries /\ refused' \subseteq [key : Keys, event : EventsOf]
    BY <2>1, <2>2 DEF IngestTypeOK
  <2> QED BY <1>1, <2>3 DEF IngestKnown, IngestTypeOK
<1>2. ASSUME NEW h \in Handlers, NEW key \in Keys, NEW e \in EventsOf, IngestNew(h, key, e) PROVE IngestTypeOK'
  <2>1. AcceptEvents({e}) /\ {e} \in SUBSET EventsOf
    BY <1>2 DEF IngestNew
  <2>2. accepted' \in 0..MaxAccepted /\ events' \subseteq Ids /\ times' \in [Ids -> Nat]
    BY <2>1, EventsAccepted
  <2>3. req' \in [Handlers -> {Idle, [at |-> "poll"]} \cup PublishType] /\ raced' \subseteq Keys
    BY <1>2, NewFields DEF IngestTypeOK
  <2> QED BY <1>2, <2>2, <2>3 DEF IngestNew, IngestTypeOK
<1>3. ASSUME NEW h \in Handlers, IngestPublished(h) PROVE IngestTypeOK'
  <2> DEFINE n == Entry(req[h].key, req[h].event, req[h].ingest)
  <2>1. n \in Entries /\ n.key = req[h].key
    BY <1>3, IngestRequestAtStep DEF IngestPublished, Entry
  <2>2. idempotency' = {d \in idempotency : d.key # req[h].key} \cup {n} /\ answers' = answers \cup {n}
    BY <1>3 DEF IngestPublished, Remember
  <2> HIDE DEF n
  <2>3. /\ idempotency' \subseteq Entries /\ answers' \subseteq Entries
        /\ \A d, e \in idempotency' : d.key = e.key => d = e
    BY <2>1, <2>2 DEF IngestTypeOK
  <2>4. req' \in [Handlers -> {Idle, [at |-> "poll"]} \cup PublishType]
    BY <1>3 DEF IngestPublished, IngestTypeOK
  <2> QED BY <1>3, <2>3, <2>4 DEF IngestPublished, IngestTypeOK
<1>4. ASSUME NEW h \in Handlers, Poll(h) \/ PollFails(h) PROVE IngestTypeOK'
  <2>1. req' \in [Handlers -> {Idle, [at |-> "poll"]} \cup PublishType]
    BY <1>4 DEF Poll, PollFails, IngestTypeOK
  <2> QED BY <1>4, <2>1 DEF Poll, PollFails, IngestTypeOK
<1>5. ASSUME NEW es \in SUBSET EventsOf, IngestBatch(es) PROVE IngestTypeOK'
  <2>1. accepted' \in 0..MaxAccepted /\ events' \subseteq Ids /\ times' \in [Ids -> Nat]
    BY <1>5, EventsAccepted DEF IngestBatch
  <2> QED BY <1>5, <2>1 DEF IngestBatch, IngestTypeOK
<1>6. ASSUME NEW h \in Handlers, NEW es \in Distinct, PollAnswered(h, es) PROVE IngestTypeOK'
  <2>1. AcceptEvents(New(es)) /\ New(es) \in SUBSET EventsOf
    BY <1>6 DEF PollAnswered, New, Distinct
  <2>2. accepted' \in 0..MaxAccepted /\ events' \subseteq Ids /\ times' \in [Ids -> Nat]
    BY <2>1, EventsAccepted
  <2>3. polled' \in [Ids -> Nat]
    <3> DEFINE n(i) == IF \E e \in New(es) : e.id = i THEN 1 ELSE 0
    <3>1. polled' = [i \in Ids |-> polled[i] + n(i)]
      BY <1>6 DEF PollAnswered
    <3>2. \A i \in Ids : n(i) \in Nat /\ polled[i] \in Nat
      BY DEF IngestTypeOK
    <3> HIDE DEF n
    <3> QED BY <3>1, <3>2
  <2>4. req' \in [Handlers -> {Idle, [at |-> "poll"]} \cup PublishType]
    BY <1>6 DEF PollAnswered, IngestTypeOK
  <2> QED BY <1>6, <2>2, <2>3, <2>4 DEF PollAnswered, IngestTypeOK
<1>7. CASE UNCHANGED ingestVars
  BY <1>7 DEF ingestVars, IngestTypeOK
<1> QED BY <1>1, <1>2, <1>3, <1>4, <1>5, <1>6, <1>7 DEF IngestNext

(* Every variable has its type: a key has one remembered answer, and no      *)
(* counter passes the number of acceptances allowed.                         *)
THEOREM IngestTypeCorrect == IngestSpec => []IngestTypeOK
BY IngestTypeInit, IngestTypeStep, PTL DEF IngestSpec

-----------------------------------------------------------------------------
(* The keys.                                                                 *)

\* A request under a key nobody else has used at the same time finds no answer
\* remembered, and is the only one.
Unanswered ==
  \A h \in Handlers : req[h].at = "publish" /\ req[h].key \notin raced =>
    /\ \A d \in idempotency : d.key # req[h].key
    /\ \A g \in Handlers \ {h} : req[g].at = "publish" => req[g].key # req[h].key

\* The answers under such a key are the remembered one.
Remembered ==
  /\ \A r \in answers : r.key \notin raced => r \in idempotency
  /\ \A r \in refused : r.key \notin raced => \E d \in idempotency : d.key = r.key /\ d.event # r.event

KeyInv == IngestTypeOK /\ Unanswered /\ Remembered

\* A step that leaves the keys alone and takes up no request.
LEMMA KeysAlone ==
  ASSUME KeyInv, IngestTypeOK', UNCHANGED <<idempotency, answers, refused, raced>>,
         \A h \in Handlers : req'[h].at = "publish" => req'[h] = req[h]
  PROVE  KeyInv'
<1>1. Unanswered'
  BY DEF KeyInv, Unanswered
<1>2. Remembered'
  BY DEF KeyInv, Remembered
<1> QED BY <1>1, <1>2 DEF KeyInv

LEMMA KeyStep == KeyInv /\ [IngestNext]_ingestVars => KeyInv'
<1> SUFFICES ASSUME KeyInv, [IngestNext]_ingestVars PROVE KeyInv'
  OBVIOUS
<1>0. IngestTypeOK /\ Unanswered /\ Remembered /\ IngestTypeOK'
  BY IngestTypeStep DEF KeyInv
<1>1. ASSUME NEW key \in Keys, NEW e \in EventsOf, IngestKnown(key, e) PROVE KeyInv'
  <2>1. PICK d \in idempotency :
          /\ d.key = key
          /\ IF Refused(d, e)
             THEN refused' = refused \cup {[key |-> key, event |-> e]} /\ UNCHANGED answers
             ELSE answers' = answers \cup {Entry(key, e, d.ingest)} /\ UNCHANGED refused
    BY <1>1 DEF IngestKnown
  <2>2. UNCHANGED <<idempotency, req, raced>>
    BY <1>1 DEF IngestKnown
  <2>3. Unanswered'
    BY <1>0, <2>2 DEF Unanswered
  <2>4. CASE Refused(d, e)
    <3>1. refused' = refused \cup {[key |-> key, event |-> e]} /\ answers' = answers /\ d.event # e
      BY <2>1, <2>4 DEF Refused
    <3>2. Remembered'
      BY <1>0, <2>1, <2>2, <3>1 DEF Remembered
    <3> QED BY <1>0, <2>3, <3>2 DEF KeyInv
  <2>5. CASE ~Refused(d, e)
    <3>1. answers' = answers \cup {Entry(key, e, d.ingest)} /\ refused' = refused /\ d.event = e
      BY <2>1, <2>5 DEF Refused
    <3>2. Entry(key, e, d.ingest) = d
      BY <1>0, <2>1, <3>1 DEF Entry, IngestTypeOK, Entries
    <3>3. Remembered'
      BY <1>0, <2>2, <3>1, <3>2 DEF Remembered
    <3> QED BY <1>0, <2>3, <3>3 DEF KeyInv
  <2> QED BY <2>4, <2>5
<1>2. ASSUME NEW h \in Handlers, NEW key \in Keys, NEW e \in EventsOf, IngestNew(h, key, e) PROVE KeyInv'
  <2>1. UNCHANGED <<idempotency, answers, refused>> /\ \A d \in idempotency : d.key # key
    BY <1>2 DEF IngestNew
  <2>2. /\ req'[h].at = "publish" /\ req'[h].key = key
        /\ \A g \in Handlers \ {h} : req'[g] = req[g]
        /\ raced \subseteq raced'
        /\ \A g \in Handlers : req[g].at = "publish" /\ req[g].key = key => key \in raced'
    BY <1>0, <1>2, NewFields
  <2>3. Remembered'
    BY <1>0, <2>1, <2>2 DEF Remembered
  <2>4. ASSUME NEW g \in Handlers, req'[g].at = "publish", req'[g].key \notin raced'
        PROVE  /\ \A d \in idempotency' : d.key # req'[g].key
               /\ \A k \in Handlers \ {g} : req'[k].at = "publish" => req'[k].key # req'[g].key
    <3>1. CASE g = h
      BY <2>1, <2>2, <2>4, <3>1
    <3>2. CASE g # h
      <4>1. req'[g] = req[g] /\ req[g].key \notin raced /\ req[g].key # key
        BY <2>2, <2>4, <3>2
      <4>2. /\ \A d \in idempotency : d.key # req[g].key
            /\ \A k \in Handlers \ {g} : req[k].at = "publish" => req[k].key # req[g].key
        BY <1>0, <2>4, <4>1 DEF Unanswered
      <4> QED BY <2>1, <2>2, <4>1, <4>2
    <3> QED BY <3>1, <3>2
  <2> QED BY <1>0, <2>3, <2>4 DEF KeyInv, Unanswered
<1>3. ASSUME NEW h \in Handlers, IngestPublished(h) PROVE KeyInv'
  <2> DEFINE n == Entry(req[h].key, req[h].event, req[h].ingest)
  <2>1. req[h].at = "publish" /\ n.key = req[h].key
    BY <1>3 DEF IngestPublished, Entry
  <2>2. idempotency' = {d \in idempotency : d.key # req[h].key} \cup {n} /\ answers' = answers \cup {n}
    BY <1>3 DEF IngestPublished, Remember
  <2>3. UNCHANGED <<refused, raced>>
    BY <1>3 DEF IngestPublished
  <2>4. req'[h] = Idle /\ \A g \in Handlers \ {h} : req'[g] = req[g]
    BY <1>0, <1>3 DEF IngestPublished, IngestTypeOK
  <2> HIDE DEF n
  <2>5. \A d \in idempotency : d.key \notin raced => d \in idempotency'
    BY <1>0, <2>1, <2>2 DEF Unanswered
  <2>6. Remembered'
    BY <1>0, <2>2, <2>3, <2>5 DEF Remembered
  <2>7. ASSUME NEW g \in Handlers, req'[g].at = "publish", req'[g].key \notin raced'
        PROVE  /\ \A d \in idempotency' : d.key # req'[g].key
               /\ \A k \in Handlers \ {g} : req'[k].at = "publish" => req'[k].key # req'[g].key
    <3>1. g # h /\ req'[g] = req[g]
      BY <2>4, <2>7, IdleAt
    <3>2. /\ \A d \in idempotency : d.key # req[g].key
          /\ \A k \in Handlers \ {g} : req[k].at = "publish" => req[k].key # req[g].key
      BY <1>0, <2>3, <2>7, <3>1 DEF Unanswered
    <3>3. \A k \in Handlers \ {g} : req'[k].at = "publish" => req'[k] = req[k]
      BY <2>4, IdleAt
    <3> QED BY <2>1, <2>2, <3>1, <3>2, <3>3
  <2> QED BY <1>0, <2>6, <2>7 DEF KeyInv, Unanswered
<1>4. ASSUME NEW h \in Handlers, Poll(h) \/ PollFails(h) \/ \E es \in Distinct : PollAnswered(h, es) PROVE KeyInv'
  <2>1. UNCHANGED <<idempotency, answers, refused, raced>>
    BY <1>4 DEF Poll, PollFails, PollAnswered
  <2>2. req'[h].at \in {"poll", "idle"} /\ \A g \in Handlers \ {h} : req'[g] = req[g]
    BY <1>0, <1>4, IdleAt DEF Poll, PollFails, PollAnswered, IngestTypeOK
  <2> QED BY <1>0, <2>1, <2>2, KeysAlone
<1>5. ASSUME NEW es \in SUBSET EventsOf, IngestBatch(es) PROVE KeyInv'
  BY <1>0, <1>5, KeysAlone DEF IngestBatch
<1>6. CASE UNCHANGED ingestVars
  BY <1>0, <1>6, KeysAlone DEF ingestVars
<1> QED BY <1>1, <1>2, <1>3, <1>4, <1>5, <1>6 DEF IngestNext

LEMMA KeysAlways == IngestSpec => []KeyInv
<1>1. IngestInit => KeyInv
  <2>1. IngestInit => Unanswered /\ Remembered
    BY DEF IngestInit, Idle, Unanswered, Remembered
  <2> QED BY <2>1, IngestTypeInit DEF KeyInv
<1> QED BY <1>1, KeyStep, PTL DEF IngestSpec

(* No two events are answered 202 under one key, but for requests that       *)
(* overlapped.                                                               *)
THEOREM OneEventPerKey == IngestSpec => []KeyNamesOneEvent
<1>1. KeyInv => KeyNamesOneEvent
  BY DEF KeyInv, Remembered, IngestTypeOK, KeyNamesOneEvent
<1> QED BY <1>1, KeysAlways, PTL

(* A retry gets the first ingest id and was never refused.                   *)
THEOREM RetriesGetTheFirst == IngestSpec => []RetryGetsFirstResult
<1>1. KeyInv => RetryGetsFirstResult
  <2> SUFFICES ASSUME KeyInv, NEW r \in answers, NEW s \in answers,
                      r.key = s.key, r.event = s.event, r.key \notin raced
               PROVE  r.ingest = s.ingest /\ [key |-> r.key, event |-> r.event] \notin refused
    BY DEF RetryGetsFirstResult
  <2>1. r \in idempotency /\ s \in idempotency
    BY DEF KeyInv, Remembered
  <2>2. \A d \in idempotency : d.key = r.key => d = r
    BY <2>1 DEF KeyInv, IngestTypeOK
  <2>3. \A q \in refused : q.key = r.key => q.event # r.event
    BY <2>2 DEF KeyInv, Remembered
  <2> QED BY <2>1, <2>2, <2>3
<1> QED BY <1>1, KeysAlways, PTL

-----------------------------------------------------------------------------
(* The polls.                                                                *)

PollInv == IngestTypeOK /\ PolledOnce /\ \A i \in Ids : polled[i] > 0 => i \in events

LEMMA PollStep == PollInv /\ [IngestNext]_ingestVars => PollInv'
<1> SUFFICES ASSUME PollInv, [IngestNext]_ingestVars PROVE PollInv'
  OBVIOUS
<1>0. IngestTypeOK /\ IngestTypeOK'
  BY IngestTypeStep DEF PollInv
<1>1. CASE polled' = polled /\ events \subseteq events'
  BY <1>0, <1>1 DEF PollInv, PolledOnce
<1>2. ASSUME NEW h \in Handlers, NEW es \in Distinct, PollAnswered(h, es) PROVE PollInv'
  <2>1. AcceptEvents(New(es)) /\ New(es) \in SUBSET EventsOf
    BY <1>2 DEF PollAnswered, New, Distinct
  <2>2. events' = events \cup {e.id : e \in New(es)}
    BY <1>0, <2>1, EventsAccepted
  <2>3. ASSUME NEW i \in Ids PROVE polled'[i] <= 1 /\ (polled'[i] > 0 => i \in events')
    <3>1. polled[i] \in Nat /\ polled[i] <= 1 /\ (polled[i] > 0 => i \in events)
      BY DEF PollInv, IngestTypeOK, PolledOnce
    <3>2. CASE \E e \in New(es) : e.id = i
      <4>1. polled'[i] = polled[i] + 1
        BY <1>2, <3>2 DEF PollAnswered
      <4>2. i \notin events /\ i \in events'
        BY <2>2, <3>2 DEF New
      <4> QED BY <3>1, <4>1, <4>2
    <3>3. CASE ~\E e \in New(es) : e.id = i
      <4>1. polled'[i] = polled[i] + 0
        BY <1>2, <3>3 DEF PollAnswered
      <4> QED BY <2>2, <3>1, <4>1
    <3> QED BY <3>2, <3>3
  <2> QED BY <1>0, <2>3 DEF PollInv, PolledOnce
<1>3. ASSUME NEW h \in Handlers, NEW key \in Keys, NEW e \in EventsOf, IngestNew(h, key, e)
      PROVE  polled' = polled /\ events \subseteq events'
  BY <1>3 DEF IngestNew, AcceptEvents
<1>4. ASSUME NEW es \in SUBSET EventsOf, IngestBatch(es) PROVE polled' = polled /\ events \subseteq events'
  BY <1>4 DEF IngestBatch, AcceptEvents
<1>5. ASSUME NEW key \in Keys, NEW e \in EventsOf, IngestKnown(key, e) PROVE polled' = polled /\ events \subseteq events'
  BY <1>5 DEF IngestKnown
<1>6. ASSUME NEW h \in Handlers, IngestPublished(h) \/ Poll(h) \/ PollFails(h)
      PROVE  polled' = polled /\ events \subseteq events'
  BY <1>6 DEF IngestPublished, Poll, PollFails
<1>7. CASE UNCHANGED ingestVars
  BY <1>1, <1>7 DEF ingestVars
<1> QED BY <1>1, <1>2, <1>3, <1>4, <1>5, <1>6, <1>7 DEF IngestNext

(* Overlapping polls accept an event of the provider once.                   *)
THEOREM ProviderEventsOnce == IngestSpec => []PolledOnce
<1>1. IngestInit => PollInv
  BY IngestTypeInit DEF IngestInit, PollInv, PolledOnce, Never
<1>2. PollInv => PolledOnce
  BY DEF PollInv
<1> QED BY <1>1, <1>2, PollStep, PTL DEF IngestSpec

-----------------------------------------------------------------------------
(* The live stream.                                                          *)

\* Adding a message at the end, and taking one away.
LEMMA AppendFields ==
  ASSUME NEW s \in Seq(Messages), NEW x \in Messages
  PROVE  /\ Append(s, x) \in Seq(Messages) /\ Len(s) \in Nat
         /\ DOMAIN s = 1..Len(s) /\ DOMAIN Append(s, x) = 1..(Len(s) + 1)
         /\ \A n \in 1..Len(s) : Append(s, x)[n] = s[n]
         /\ Append(s, x)[Len(s) + 1] = x
         /\ Range(Append(s, x)) = Range(s) \cup {x}
<1>1. /\ Append(s, x) \in Seq(Messages) /\ Len(s) \in Nat
      /\ DOMAIN s = 1..Len(s) /\ DOMAIN Append(s, x) = 1..(Len(s) + 1)
      /\ \A n \in 1..Len(s) : Append(s, x)[n] = s[n]
      /\ Append(s, x)[Len(s) + 1] = x
  OBVIOUS
<1>2. Range(Append(s, x)) = Range(s) \cup {x}
  BY <1>1 DEF Range
<1> QED BY <1>1, <1>2

LEMMA WithoutFields ==
  ASSUME NEW s \in Seq(Messages), NEW k \in 1..Len(s)
  PROVE  /\ Without(s, k) \in Seq(Messages)
         /\ DOMAIN Without(s, k) = 1..(Len(s) - 1)
         /\ \A n \in 1..(Len(s) - 1) : Without(s, k)[n] = s[IF n < k THEN n ELSE n + 1]
         /\ Range(Without(s, k)) = {s[n] : n \in (1..Len(s)) \ {k}}
<1> DEFINE t == SubSeq(s, 1, k - 1)
           u == SubSeq(s, k + 1, Len(s))
<1>0. Len(s) \in Nat /\ \A n \in 1..Len(s) : s[n] \in Messages
  OBVIOUS
<1>1. t \in Seq(Messages) /\ Len(t) = k - 1 /\ \A n \in 1..(k - 1) : t[n] = s[n]
  <2>1. \A n \in 1..(k - 1) : s[n] \in Messages
    BY <1>0
  <2> QED BY <1>0, <2>1, SubSeqProperties
<1>2. u \in Seq(Messages) /\ Len(u) = Len(s) - k /\ \A n \in 1..(Len(s) - k) : u[n] = s[k + n]
  <2>1. \A n \in (k + 1)..Len(s) : s[n] \in Messages
    BY <1>0
  <2>2. /\ u \in Seq(Messages)
        /\ Len(u) = IF k + 1 <= Len(s) THEN Len(s) - (k + 1) + 1 ELSE 0
        /\ \A n \in 1..(Len(s) - (k + 1) + 1) : u[n] = s[k + 1 + n - 1]
    BY <1>0, <2>1, SubSeqProperties
  <2> QED BY <1>0, <2>2
<1> HIDE DEF t, u
<1>3. /\ t \o u \in Seq(Messages) /\ Len(t \o u) = Len(s) - 1
      /\ \A n \in 1..(Len(s) - 1) : (t \o u)[n] = IF n <= k - 1 THEN t[n] ELSE u[n - (k - 1)]
  <2>1. /\ t \o u \in Seq(Messages) /\ Len(t \o u) = Len(t) + Len(u)
        /\ \A n \in 1..(Len(t) + Len(u)) : (t \o u)[n] = IF n <= Len(t) THEN t[n] ELSE u[n - Len(t)]
    BY <1>1, <1>2, ConcatProperties
  <2>2. Len(t) + Len(u) = Len(s) - 1
    BY <1>0, <1>1, <1>2
  <2> QED BY <1>1, <2>1, <2>2
<1>4. Without(s, k) = t \o u
  BY DEF Without, t, u
<1>5. ASSUME NEW n \in 1..(Len(s) - 1) PROVE Without(s, k)[n] = s[IF n < k THEN n ELSE n + 1]
  <2>1. CASE n < k
    BY <1>0, <1>1, <1>3, <1>4, <2>1
  <2>2. CASE ~(n < k)
    <3>1. n - (k - 1) \in 1..(Len(s) - k) /\ k + (n - (k - 1)) = n + 1 /\ ~(n <= k - 1)
      BY <1>0, <2>2
    <3> QED BY <1>2, <1>3, <1>4, <2>2, <3>1
  <2> QED BY <2>1, <2>2
<1>6. Without(s, k) \in Seq(Messages) /\ DOMAIN Without(s, k) = 1..(Len(s) - 1)
  BY <1>0, <1>3, <1>4
<1>7. Range(Without(s, k)) = {s[n] : n \in (1..Len(s)) \ {k}}
  <2>1. ASSUME NEW n \in 1..(Len(s) - 1) PROVE (IF n < k THEN n ELSE n + 1) \in (1..Len(s)) \ {k}
    BY <1>0
  <2>2. ASSUME NEW n \in (1..Len(s)) \ {k} PROVE \E j \in 1..(Len(s) - 1) : n = IF j < k THEN j ELSE j + 1
    <3>1. CASE n < k
      BY <1>0, <3>1
    <3>2. CASE n > k
      <4>1. n - 1 \in 1..(Len(s) - 1) /\ n = IF n - 1 < k THEN n - 1 ELSE n - 1 + 1
        BY <1>0, <3>2
      <4> QED BY <4>1
    <3> QED BY <1>0, <3>1, <3>2
  <2> DEFINE w == Without(s, k)
  <2>3. /\ DOMAIN w = 1..(Len(s) - 1)
        /\ \A n \in 1..(Len(s) - 1) : w[n] = s[IF n < k THEN n ELSE n + 1]
    BY <1>5, <1>6
  <2> HIDE DEF w
  <2>4. ASSUME NEW x \in Range(w) PROVE x \in {s[n] : n \in (1..Len(s)) \ {k}}
    BY <2>1, <2>3, <2>4 DEF Range
  <2>5. ASSUME NEW n \in (1..Len(s)) \ {k} PROVE s[n] \in Range(w)
    BY <2>2, <2>3, <2>5 DEF Range
  <2> QED BY <2>4, <2>5 DEF w
<1> QED BY <1>5, <1>6, <1>7

\* What connections have.
LEMMA ConnFields ==
  ASSUME TypeOK, NEW c \in Clients
  PROVE  /\ conn[c].at \in {"joining", "live", "ended"} => conn[c] # NoConn
         /\ conn[c] # NoConn =>
              /\ conn[c] \in Connections
              /\ conn[c].at \in {"joining", "live", "ended"} /\ conn[c].home \in Instances
              /\ conn[c].open \in BOOLEAN /\ conn[c].chosen \in Versions /\ conn[c].since \in Versions
BY DEF TypeOK, NoConn, Connections

\* What an emission writes.
LEMMA EmitFields ==
  ASSUME TypeOK, NEW i \in Instances, NEW x \in Messages, Emit(i, x)
  PROVE  /\ sent' \in [Clients -> Seq(Messages)]
         /\ \A c \in Clients : sent'[c] = IF Subscribed(c, i) THEN Append(sent[c], x) ELSE sent[c]
         /\ \A c \in Clients : Range(sent'[c]) = IF Subscribed(c, i) THEN Range(sent[c]) \cup {x} ELSE Range(sent[c])
<1>1. sent' = [c \in Clients |-> IF Subscribed(c, i) THEN Append(sent[c], x) ELSE sent[c]]
  BY DEF Emit
<1>2. \A c \in Clients : sent[c] \in Seq(Messages)
  BY DEF TypeOK
<1> QED BY <1>1, <1>2, AppendFields

\* The message of an ingest, and of a snapshot.
Delta(i, updated) ==
  [kind |-> "delta", from |-> i, seq |-> sequence'[i],
   versions |-> [o \in Objects |-> IF o \in updated THEN latest'[o] ELSE 0]]

LEMMA IngestFields ==
  ASSUME TypeOK, NEW i \in Instances, NEW updated \in SUBSET Objects, Ingest(i, updated)
  PROVE  /\ latest' \in Versions /\ state' \in [Instances -> Versions] /\ sequence' \in [Instances -> Nat]
         /\ \A o \in Objects : latest'[o] = IF o \in updated THEN latest[o] + 1 ELSE latest[o]
         /\ \A j \in Instances \ {i} : state'[j] = state[j] /\ sequence'[j] = sequence[j]
         /\ \A o \in Objects : state'[i][o] = IF o \in updated THEN latest'[o] ELSE state[i][o]
         /\ sequence'[i] = sequence[i] + 1
         /\ Delta(i, updated) \in Messages
         /\ Delta(i, updated).from = i /\ Delta(i, updated).seq = sequence[i] + 1
         /\ Delta(i, updated).kind = "delta"
         /\ \A o \in Objects : Delta(i, updated).versions[o] = IF o \in updated THEN latest'[o] ELSE 0
         /\ IF deployment.shared
            THEN publishing' = publishing \cup {[at |-> "storing", msg |-> Delta(i, updated)]} /\ sent' = sent
            ELSE Emit(i, Delta(i, updated)) /\ publishing' = publishing
<1>1. /\ latest' = [o \in Objects |-> IF o \in updated THEN latest[o] + 1 ELSE latest[o]]
      /\ latest' \in Versions
  <2>1. latest' = [o \in Objects |-> IF o \in updated THEN latest[o] + 1 ELSE latest[o]]
        /\ \A o \in updated : latest[o] < MaxVersion
    BY DEF Ingest
  <2>2. \A o \in Objects : latest[o] \in 0..MaxVersion
    BY DEF TypeOK, Versions
  <2>3. \A o \in Objects : (IF o \in updated THEN latest[o] + 1 ELSE latest[o]) \in 0..MaxVersion
    BY <2>1, <2>2
  <2> QED BY <2>1, <2>3 DEF Versions
<1>2. \A o \in Objects : latest'[o] \in 0..MaxVersion /\ latest'[o] \in Nat
  BY <1>1 DEF Versions
<1>3. state' = [state EXCEPT ![i] = [o \in Objects |-> IF o \in updated THEN latest'[o] ELSE state[i][o]]]
  BY DEF Ingest
<1>4. /\ \A j \in Instances \ {i} : state'[j] = state[j]
      /\ state'[i] = [o \in Objects |-> IF o \in updated THEN latest'[o] ELSE state[i][o]]
  BY <1>3 DEF TypeOK
<1>5. state' \in [Instances -> Versions]
  <2>1. [o \in Objects |-> IF o \in updated THEN latest'[o] ELSE state[i][o]] \in Versions
    BY <1>2 DEF TypeOK, Versions
  <2> QED BY <1>3, <2>1 DEF TypeOK
<1>6. /\ sequence' \in [Instances -> Nat] /\ sequence'[i] = sequence[i] + 1 /\ sequence'[i] \in Nat
      /\ \A j \in Instances \ {i} : sequence'[j] = sequence[j]
  BY DEF Ingest, TypeOK
<1>7. [o \in Objects |-> IF o \in updated THEN latest'[o] ELSE 0] \in Versions
  BY <1>2 DEF Versions
<1>8. /\ Delta(i, updated) \in Messages
      /\ Delta(i, updated).from = i /\ Delta(i, updated).seq = sequence[i] + 1
      /\ Delta(i, updated).kind = "delta"
      /\ \A o \in Objects : Delta(i, updated).versions[o] = IF o \in updated THEN latest'[o] ELSE 0
  BY <1>6, <1>7 DEF Delta, Messages
<1>9. IF deployment.shared
      THEN publishing' = publishing \cup {[at |-> "storing", msg |-> Delta(i, updated)]} /\ sent' = sent
      ELSE Emit(i, Delta(i, updated)) /\ publishing' = publishing
  <2>1. Publish(Delta(i, updated))
    BY DEF Ingest, Delta
  <2> QED BY <1>8, <2>1 DEF Publish
<1> QED BY <1>1, <1>4, <1>5, <1>6, <1>8, <1>9

\* A connection that is made, on a slow deployment and otherwise.
LEMMA ConnectFields ==
  ASSUME TypeOK, NEW c \in Clients, NEW i \in Instances, Connect(c, i)
  PROVE  /\ conn[c] = NoConn /\ conn' \in [Clients -> {NoConn} \cup Connections]
         /\ \A d \in Clients \ {c} : conn'[d] = conn[d] /\ sent'[d] = sent[d]
         /\ conn'[c] \in Connections /\ conn'[c] # NoConn
         /\ conn'[c].home = i /\ conn'[c].open
         /\ conn'[c].chosen = state[i] /\ conn'[c].since = latest
         /\ IF deployment.slow
            THEN conn'[c].at = "joining" /\ UNCHANGED <<sequence, sent>>
            ELSE /\ conn'[c].at = "live" /\ sent' = [sent EXCEPT ![c] = <<Snapshot(i, state[i])>>]
                 /\ sequence' = [sequence EXCEPT ![i] = @ + 1]
         /\ UNCHANGED <<deployment, latest, state, publishing, relays, listening, ready, faults>>
<1> DEFINE x == [at |-> IF deployment.slow THEN "joining" ELSE "live", home |-> i, open |-> TRUE,
                 chosen |-> state[i], since |-> latest]
<1>1. x \in Connections /\ x # NoConn
  BY DEF Connections, NoConn, TypeOK
<1>2. conn[c] = NoConn /\ conn' = [conn EXCEPT ![c] = x]
  BY DEF Connect
<1>3. /\ IF deployment.slow THEN UNCHANGED <<sequence, sent>>
         ELSE /\ sent' = [sent EXCEPT ![c] = <<Snapshot(i, state[i])>>]
              /\ sequence' = [sequence EXCEPT ![i] = @ + 1]
      /\ UNCHANGED <<deployment, latest, state, publishing, relays, listening, ready, faults>>
  BY DEF Connect, bus
<1>4. x.home = i /\ x.open /\ x.chosen = state[i] /\ x.since = latest
      /\ x.at = IF deployment.slow THEN "joining" ELSE "live"
  OBVIOUS
<1> HIDE DEF x
<1>5. /\ conn' \in [Clients -> {NoConn} \cup Connections] /\ conn'[c] = x
      /\ \A d \in Clients \ {c} : conn'[d] = conn[d]
  BY <1>1, <1>2 DEF TypeOK
<1>6. \A d \in Clients \ {c} : sent'[d] = sent[d]
  BY <1>3 DEF TypeOK
<1> QED BY <1>1, <1>2, <1>3, <1>4, <1>5, <1>6

LEMMA SnapshotFields ==
  ASSUME TypeOK, NEW i \in Instances, NEW v \in Versions, sequence' = [sequence EXCEPT ![i] = @ + 1]
  PROVE  /\ sequence' \in [Instances -> Nat] /\ sequence'[i] = sequence[i] + 1
         /\ \A j \in Instances \ {i} : sequence'[j] = sequence[j]
         /\ Snapshot(i, v) \in Messages
         /\ Snapshot(i, v).from = i /\ Snapshot(i, v).seq = sequence[i] + 1
         /\ Snapshot(i, v).kind = "snapshot" /\ Snapshot(i, v).versions = v
<1>1. /\ sequence' \in [Instances -> Nat] /\ sequence'[i] = sequence[i] + 1 /\ sequence'[i] \in Nat
      /\ \A j \in Instances \ {i} : sequence'[j] = sequence[j]
  BY DEF TypeOK
<1> QED BY <1>1 DEF Snapshot, Messages

\* A connection that has read its evidence, and one whose client goes.
LEMMA EvidenceFields ==
  ASSUME TypeOK, NEW c \in Clients, EvidenceRead(c)
  PROVE  LET i == conn[c].home
             v == conn[c].chosen
         IN /\ conn[c].at = "joining" /\ conn[c] # NoConn /\ i \in Instances /\ v \in Versions
            /\ conn' \in [Clients -> {NoConn} \cup Connections]
            /\ \A d \in Clients \ {c} : conn'[d] = conn[d] /\ sent'[d] = sent[d]
            /\ conn'[c] # NoConn /\ conn'[c].at = "live" /\ conn'[c].home = i
            /\ conn'[c].open = conn[c].open /\ conn'[c].since = conn[c].since
            /\ sequence' = [sequence EXCEPT ![i] = @ + 1]
            /\ sent'[c] = IF conn[c].open THEN Append(sent[c], Snapshot(i, v)) ELSE sent[c]
            /\ sent' \in [Clients -> Seq(Messages)]
            /\ UNCHANGED <<deployment, latest, state, publishing, relays, listening, ready, faults>>
<1> DEFINE i == conn[c].home
           v == conn[c].chosen
           x == [conn[c] EXCEPT !.at = "live"]
<1>1. conn[c].at = "joining" /\ sequence' = [sequence EXCEPT ![i] = @ + 1] /\ conn' = [conn EXCEPT ![c] = x]
      /\ UNCHANGED <<deployment, latest, state, publishing, relays, listening, ready, faults>>
  BY DEF EvidenceRead, bus
<1>2. conn[c] # NoConn /\ conn[c] \in Connections /\ i \in Instances /\ v \in Versions
  BY <1>1, ConnFields
<1>3. /\ x \in Connections /\ x # NoConn /\ x.at = "live" /\ x.home = i
      /\ x.open = conn[c].open /\ x.since = conn[c].since
  BY <1>2 DEF Connections, NoConn
<1>4. sent' = IF conn[c].open THEN [sent EXCEPT ![c] = Append(sent[c], Snapshot(i, v))] ELSE sent
  BY DEF EvidenceRead
<1> HIDE DEF x, i, v
<1>5. Snapshot(i, v) \in Messages
  BY <1>1, <1>2, SnapshotFields
<1>6. Append(sent[c], Snapshot(i, v)) \in Seq(Messages)
  BY <1>5, AppendFields DEF TypeOK
<1>7. /\ conn' \in [Clients -> {NoConn} \cup Connections] /\ conn'[c] = x
      /\ \A d \in Clients \ {c} : conn'[d] = conn[d]
  BY <1>1, <1>3 DEF TypeOK
<1>8. /\ sent' \in [Clients -> Seq(Messages)]
      /\ sent'[c] = IF conn[c].open THEN Append(sent[c], Snapshot(i, v)) ELSE sent[c]
      /\ \A d \in Clients \ {c} : sent'[d] = sent[d]
  BY <1>4, <1>6 DEF TypeOK
<1>9. /\ conn[c].at = "joining" /\ conn[c] # NoConn /\ i \in Instances /\ v \in Versions
      /\ conn'[c] # NoConn /\ conn'[c].at = "live" /\ conn'[c].home = i
      /\ conn'[c].open = conn[c].open /\ conn'[c].since = conn[c].since
  BY <1>1, <1>2, <1>3, <1>7
<1> QED BY <1>1, <1>7, <1>8, <1>9 DEF i, v

LEMMA CloseFields ==
  ASSUME TypeOK, NEW c \in Clients, Close(c)
  PROVE  /\ conn[c] # NoConn /\ conn' \in [Clients -> {NoConn} \cup Connections]
         /\ \A d \in Clients \ {c} : conn'[d] = conn[d]
         /\ conn'[c] # NoConn /\ ~conn'[c].open /\ conn'[c].home = conn[c].home
         /\ conn'[c].at \in {"joining", "ended"} /\ (conn'[c].at = "joining" => conn[c].at = "joining")
         /\ UNCHANGED <<deployment, latest, state, sequence, publishing, relays, listening, ready, sent, faults>>
<1> DEFINE x == [conn[c] EXCEPT !.open = FALSE, !.at = IF @ = "live" THEN "ended" ELSE @]
<1>1. conn[c].at \in {"joining", "live"} /\ conn' = [conn EXCEPT ![c] = x]
      /\ UNCHANGED <<deployment, latest, state, sequence, publishing, relays, listening, ready, sent, faults>>
  BY DEF Close, objects, bus
<1>2. conn[c] # NoConn /\ conn[c] \in Connections
  BY <1>1, ConnFields
<1>3. /\ x \in Connections /\ x # NoConn /\ ~x.open /\ x.home = conn[c].home
      /\ x.at \in {"joining", "ended"} /\ (x.at = "joining" => conn[c].at = "joining")
  BY <1>1, <1>2 DEF Connections, NoConn
<1> HIDE DEF x
<1> QED BY <1>1, <1>2, <1>3 DEF TypeOK

\* A publication that is stored, and one that ends with its local delivery.
LEMMA StoreFields ==
  ASSUME TypeOK, NEW p \in publishing, Store(p)
  PROVE  LET q == [at |-> "stored", msg |-> p.msg]
         IN /\ p.at = "storing" /\ p.msg \in Messages /\ p.msg.from \in Instances
            /\ publishing' = (publishing \ {p}) \cup {q}
            /\ publishing' \subseteq [at : {"storing", "stored"}, msg : Messages]
            /\ relays' \in [Instances -> Seq(Messages)]
            /\ \A i \in Instances : relays'[i] = IF listening[i] THEN Append(relays[i], p.msg) ELSE relays[i]
            /\ UNCHANGED <<deployment, latest, state, sequence, listening, ready, conn, sent, faults>>
<1>1. p \in [at : {"storing", "stored"}, msg : Messages] /\ p.msg \in Messages /\ p.msg.from \in Instances
  BY DEF TypeOK, Messages
<1>2. [p EXCEPT !.at = "stored"] = [at |-> "stored", msg |-> p.msg]
  BY <1>1
<1>3. publishing' = (publishing \ {p}) \cup {[at |-> "stored", msg |-> p.msg]} /\ p.at = "storing"
  BY <1>2 DEF Store
<1>4. publishing' \subseteq [at : {"storing", "stored"}, msg : Messages]
  <2>1. [at |-> "stored", msg |-> p.msg] \in [at : {"storing", "stored"}, msg : Messages]
    BY <1>1
  <2> QED BY <1>3, <2>1 DEF TypeOK
<1>5. relays' = [i \in Instances |-> IF listening[i] THEN Append(relays[i], p.msg) ELSE relays[i]]
  BY DEF Store
<1>6. \A i \in Instances : Append(relays[i], p.msg) \in Seq(Messages) /\ relays[i] \in Seq(Messages)
  BY <1>1, AppendFields DEF TypeOK
<1>7. UNCHANGED <<deployment, latest, state, sequence, listening, ready, conn, sent, faults>>
  BY DEF Store, objects, streams
<1> QED BY <1>1, <1>3, <1>4, <1>5, <1>6, <1>7

LEMMA PublishedFields ==
  ASSUME TypeOK, NEW p \in publishing, Published(p) \/ PublishFails(p)
  PROVE  /\ p.msg \in Messages /\ p.msg.from \in Instances /\ Emit(p.msg.from, p.msg)
         /\ publishing' = publishing \ {p} /\ ready' \in [Instances -> BOOLEAN]
         /\ faults' \in 0..MaxFaults /\ faults \in Nat
         /\ (Published(p) => p.at = "stored" /\ faults' = faults) /\ (PublishFails(p) => faults' = faults + 1)
         /\ UNCHANGED <<deployment, latest, state, sequence, relays, listening, conn>>
<1>1. p.msg \in Messages /\ p.msg.from \in Instances /\ faults \in Nat
  BY DEF TypeOK, Messages
<1>2. ready' \in [Instances -> BOOLEAN]
  BY <1>1 DEF Published, PublishFails, TypeOK
<1>3. faults' \in 0..MaxFaults
  BY <1>1 DEF Published, PublishFails, TypeOK
<1> QED BY <1>1, <1>2, <1>3 DEF Published, PublishFails, objects

LEMMA RelayedFields ==
  ASSUME TypeOK, NEW i \in Instances, NEW k \in 1..PoolMax, k <= Len(relays[i]), Relayed(i, k) \/ RelayFails(i, k)
  PROVE  /\ relays[i] \in Seq(Messages) /\ k \in 1..Len(relays[i])
         /\ relays[i][k] \in Messages /\ relays[i][k] \in Range(relays[i])
         /\ relays' \in [Instances -> Seq(Messages)] /\ relays'[i] = Without(relays[i], k)
         /\ \A j \in Instances \ {i} : relays'[j] = relays[j]
         /\ ready' \in [Instances -> BOOLEAN] /\ faults' \in 0..MaxFaults /\ faults \in Nat
         /\ RelayFails(i, k) => sent' = sent /\ faults' = faults + 1
         /\ Relayed(i, k) => /\ faults' = faults
                             /\ relays[i][k].from = i => sent' = sent
                             /\ relays[i][k].from # i => Emit(i, relays[i][k])
         /\ UNCHANGED <<deployment, latest, state, sequence, publishing, listening, conn>>
<1>1. relays[i] \in Seq(Messages) /\ k \in 1..Len(relays[i]) /\ faults \in Nat
  BY DEF TypeOK
<1>2. relays[i][k] \in Messages /\ relays[i][k] \in Range(relays[i])
  BY <1>1 DEF Range
<1>3. relays' = [relays EXCEPT ![i] = Without(relays[i], k)]
  BY DEF Relayed, RelayFails
<1>4. Without(relays[i], k) \in Seq(Messages)
  BY <1>1, WithoutFields
<1>5. ready' \in [Instances -> BOOLEAN]
  BY DEF Relayed, RelayFails, TypeOK
<1>6. faults' \in 0..MaxFaults
  BY <1>1 DEF Relayed, RelayFails, TypeOK
<1>7. /\ RelayFails(i, k) => sent' = sent /\ faults' = faults + 1
      /\ Relayed(i, k) => /\ faults' = faults
                          /\ relays[i][k].from = i => sent' = sent
                          /\ relays[i][k].from # i => Emit(i, relays[i][k])
      /\ UNCHANGED <<deployment, latest, state, sequence, publishing, listening, conn>>
  BY DEF Relayed, RelayFails, objects, streams
<1> QED BY <1>1, <1>2, <1>3, <1>4, <1>5, <1>6, <1>7 DEF TypeOK

LEMMA StreamTypeInit == Init => TypeOK
<1> SUFFICES ASSUME Init PROVE TypeOK
  OBVIOUS
<1>1. Nothing \in Versions
  BY DEF Nothing, Versions
<1>2. deployment.shared \in BOOLEAN
  BY DEF Init
<1> QED BY <1>1, <1>2 DEF Init, TypeOK

LEMMA StreamTypeStep == TypeOK /\ [Next]_vars => TypeOK'
<1> SUFFICES ASSUME TypeOK, [Next]_vars PROVE TypeOK'
  OBVIOUS
<1>1. ASSUME NEW i \in Instances, NEW updated \in SUBSET Objects, Ingest(i, updated) PROVE TypeOK'
  <2>1. publishing' \subseteq [at : {"storing", "stored"}, msg : Messages]
    BY <1>1, IngestFields DEF TypeOK
  <2>2. sent' \in [Clients -> Seq(Messages)]
    BY <1>1, IngestFields, EmitFields DEF TypeOK
  <2> QED BY <1>1, <2>1, <2>2, IngestFields DEF Ingest, TypeOK
<1>2. ASSUME NEW p \in publishing, Store(p) PROVE TypeOK'
  BY <1>2, StoreFields DEF TypeOK
<1>3. ASSUME NEW p \in publishing, Published(p) \/ PublishFails(p) PROVE TypeOK'
  BY <1>3, PublishedFields, EmitFields DEF TypeOK
<1>4. ASSUME NEW i \in Instances, NEW k \in 1..PoolMax, k <= Len(relays[i]), Relayed(i, k) \/ RelayFails(i, k)
      PROVE  TypeOK'
  <2>1. sent' \in [Clients -> Seq(Messages)]
    <3>1. sent' = sent \/ Emit(i, relays[i][k])
      BY <1>4, RelayedFields
    <3>2. relays[i][k] \in Messages
      BY <1>4, RelayedFields
    <3> QED BY <3>1, <3>2, EmitFields DEF TypeOK
  <2> QED BY <1>4, <2>1, RelayedFields DEF TypeOK
<1>5. ASSUME NEW i \in Instances, ListenerFails(i) PROVE TypeOK'
  BY <1>5 DEF ListenerFails, TypeOK, objects, streams
<1>6. ASSUME NEW c \in Clients, NEW i \in Instances, Connect(c, i) PROVE TypeOK'
  <2>1. CASE deployment.slow
    BY <1>6, <2>1, ConnectFields DEF TypeOK
  <2>2. CASE ~deployment.slow
    <3>1. state[i] \in Versions /\ sequence' = [sequence EXCEPT ![i] = @ + 1]
      BY <1>6, <2>2, ConnectFields DEF TypeOK
    <3>2. Snapshot(i, state[i]) \in Messages /\ sequence' \in [Instances -> Nat]
      BY <3>1, SnapshotFields
    <3>3. <<Snapshot(i, state[i])>> \in Seq(Messages)
      BY <3>2
    <3>4. sent' \in [Clients -> Seq(Messages)]
      <4>1. sent' = [sent EXCEPT ![c] = <<Snapshot(i, state[i])>>]
        BY <1>6, <2>2, ConnectFields
      <4> QED BY <3>3, <4>1 DEF TypeOK
    <3> QED BY <1>6, <3>2, <3>4, ConnectFields DEF TypeOK
  <2> QED BY <2>1, <2>2
<1>7. ASSUME NEW c \in Clients, EvidenceRead(c) PROVE TypeOK'
  <2>1. /\ conn' \in [Clients -> {NoConn} \cup Connections] /\ sent' \in [Clients -> Seq(Messages)]
        /\ conn[c].home \in Instances /\ conn[c].chosen \in Versions
        /\ sequence' = [sequence EXCEPT ![conn[c].home] = @ + 1]
        /\ UNCHANGED <<deployment, latest, state, publishing, relays, listening, ready, faults>>
    BY <1>7, EvidenceFields
  <2>2. sequence' \in [Instances -> Nat]
    BY <2>1, SnapshotFields
  <2> QED BY <2>1, <2>2 DEF TypeOK
<1>8. ASSUME NEW c \in Clients, Close(c) PROVE TypeOK'
  BY <1>8, CloseFields DEF TypeOK
<1>9. CASE UNCHANGED vars
  BY <1>9 DEF vars, objects, bus, streams, TypeOK
<1> QED BY <1>1, <1>2, <1>3, <1>4, <1>5, <1>6, <1>7, <1>8, <1>9 DEF Next

(* Every variable has its type: messages and connections have the fields of  *)
(* what they are.                                                            *)
THEOREM StreamTypeCorrect == Spec => []TypeOK
<1> QED BY StreamTypeInit, StreamTypeStep, PTL DEF Spec

-----------------------------------------------------------------------------
(* The echo.  A delta is named by its instance and number.  It is on its way *)
(* to a connection in one form at most: its publication awaits the database, *)
(* or a notification of another instance is handled, or it was sent.         *)
Id(m) == <<m.from, m.seq>>
Unrepeated(s) == \A m, n \in DOMAIN s : m # n => Id(s[m]) # Id(s[n])
Absent(x, s) == \A y \in Range(s) : Id(y) # Id(x)
Numbered(x) == x.seq <= sequence[x.from]

AllNumbered ==
  /\ \A c \in Clients : \A x \in Range(sent[c]) : Numbered(x)
  /\ \A i \in Instances : \A x \in Range(relays[i]) : Numbered(x)
  /\ \A p \in publishing : Numbered(p.msg)

SentOnce == \A c \in Clients : Unrepeated(sent[c]) /\ (conn[c] = NoConn => sent[c] = <<>>)
RelayedOnce == \A i \in Instances : Unrepeated(relays[i])
PublishedOnce == \A p, q \in publishing : Id(p.msg) = Id(q.msg) => p = q

PublishingUnsent ==
  \A p \in publishing, c \in Clients :
    p.at = "storing" \/ (conn[c] # NoConn /\ conn[c].home = p.msg.from) => Absent(p.msg, sent[c])

StoringUnrelayed ==
  \A p \in publishing, i \in Instances : p.at = "storing" => Absent(p.msg, relays[i])

RelaysUnsent ==
  \A c \in Clients : conn[c] # NoConn =>
    \A x \in Range(relays[conn[c].home]) : x.from # conn[c].home => Absent(x, sent[c])

EchoInv ==
  /\ AllNumbered
  /\ SentOnce /\ RelayedOnce /\ PublishedOnce
  /\ PublishingUnsent /\ StoringUnrelayed /\ RelaysUnsent

LEMMA DistinctAppend ==
  ASSUME NEW s \in Seq(Messages), NEW x \in Messages, Unrepeated(s), Absent(x, s)
  PROVE  Unrepeated(Append(s, x))
<1>1. /\ DOMAIN s = 1..Len(s) /\ Len(s) \in Nat /\ DOMAIN Append(s, x) = 1..(Len(s) + 1)
      /\ \A n \in 1..Len(s) : Append(s, x)[n] = s[n]
      /\ Append(s, x)[Len(s) + 1] = x
  BY AppendFields
<1>2. \A n \in 1..Len(s) : Id(s[n]) # Id(x)
  BY <1>1 DEF Absent, Range
<1> DEFINE t == Append(s, x)
<1> HIDE DEF t
<1>3. ASSUME NEW m \in 1..(Len(s) + 1), NEW n \in 1..(Len(s) + 1), m # n, Id(t[m]) = Id(t[n]) PROVE FALSE
  <2>1. CASE m \in 1..Len(s) /\ n \in 1..Len(s)
    BY <1>1, <1>3, <2>1 DEF Unrepeated, t
  <2>2. CASE m = Len(s) + 1
    BY <1>1, <1>2, <1>3, <2>2 DEF t
  <2>3. CASE n = Len(s) + 1
    BY <1>1, <1>2, <1>3, <2>3 DEF t
  <2> QED BY <1>1, <2>1, <2>2, <2>3
<1> QED BY <1>1, <1>3 DEF Unrepeated, t

LEMMA DistinctWithout ==
  ASSUME NEW s \in Seq(Messages), NEW k \in 1..Len(s), Unrepeated(s)
  PROVE  /\ Unrepeated(Without(s, k)) /\ Range(Without(s, k)) \subseteq Range(s)
         /\ Absent(s[k], Without(s, k))
<1> DEFINE t == Without(s, k)
           at(n) == IF n < k THEN n ELSE n + 1
<1>1. /\ DOMAIN t = 1..(Len(s) - 1) /\ Len(s) \in Nat /\ DOMAIN s = 1..Len(s)
      /\ \A n \in 1..(Len(s) - 1) : t[n] = s[at(n)]
      /\ Range(t) = {s[n] : n \in (1..Len(s)) \ {k}}
  BY WithoutFields
<1>2. \A n \in 1..(Len(s) - 1) : at(n) \in 1..Len(s)
  BY <1>1
<1>3. \A m, n \in 1..(Len(s) - 1) : m # n => at(m) # at(n)
  BY <1>1
<1> HIDE DEF t, at
<1>4. Unrepeated(t)
  BY <1>1, <1>2, <1>3 DEF Unrepeated
<1>5. Range(t) \subseteq Range(s)
  BY <1>1 DEF Range
<1>6. Absent(s[k], t)
  BY <1>1 DEF Absent, Unrepeated
<1> QED BY <1>4, <1>5, <1>6 DEF t

\* A step that makes a new message: it is published, or appended to what some
\* connections are sent.
LEMMA EchoNew ==
  ASSUME TypeOK, EchoInv, NEW i \in Instances, NEW m \in Messages,
         m.from = i, m.seq = sequence[i] + 1, sequence'[i] = sequence[i] + 1,
         \A j \in Instances \ {i} : sequence'[j] = sequence[j],
         relays' = relays,
         \/ /\ publishing' = publishing
            /\ \A c \in Clients : sent'[c] = sent[c] \/ sent'[c] = Append(sent[c], m)
         \/ /\ publishing' = publishing \cup {[at |-> "storing", msg |-> m]}
            /\ sent' = sent,
         \A c \in Clients : /\ conn'[c] = NoConn => conn[c] = NoConn /\ sent'[c] = sent[c]
                            /\ conn'[c] # NoConn => conn'[c].home \in Instances
                            /\ conn'[c] # NoConn /\ conn[c] # NoConn => conn'[c].home = conn[c].home
  PROVE  EchoInv'
<1>1. ASSUME NEW x \in Messages, Numbered(x) PROVE Numbered(x)' /\ Id(x) # Id(m)
  <2>1. x.from \in Instances /\ x.seq \in Nat /\ sequence[x.from] \in Nat /\ sequence[i] \in Nat
    BY DEF Messages, TypeOK
  <2> QED BY <1>1, <2>1 DEF Numbered, Id
<1>2. Numbered(m)'
  BY DEF Numbered, TypeOK
<1>3. /\ \A c \in Clients : sent[c] \in Seq(Messages) /\ Range(sent[c]) \subseteq Messages
      /\ \A j \in Instances : relays[j] \in Seq(Messages) /\ Range(relays[j]) \subseteq Messages
      /\ \A p \in publishing : p.msg \in Messages
  BY DEF TypeOK, Range
<1>4. /\ \A c \in Clients : Absent(m, sent[c]) 
      /\ \A j \in Instances : Absent(m, relays[j])
      /\ \A p \in publishing : Id(p.msg) # Id(m)
  BY <1>1, <1>3 DEF EchoInv, AllNumbered, Absent
<1>5. \A c \in Clients : Range(sent'[c]) \subseteq Range(sent[c]) \cup {m}
  <2> SUFFICES ASSUME NEW c \in Clients PROVE Range(sent'[c]) \subseteq Range(sent[c]) \cup {m}
    OBVIOUS
  <2>1. sent'[c] = sent[c] \/ sent'[c] = Append(sent[c], m)
    OBVIOUS
  <2>2. Range(Append(sent[c], m)) = Range(sent[c]) \cup {m}
    BY <1>3, AppendFields
  <2> QED BY <2>1, <2>2
<1>6. \A p \in publishing' : p \in publishing \/ (p.msg = m /\ sent' = sent)
  OBVIOUS
<1>7. AllNumbered'
  BY <1>1, <1>2, <1>3, <1>5, <1>6 DEF EchoInv, AllNumbered
<1>8. SentOnce'
  <2> SUFFICES ASSUME NEW c \in Clients PROVE Unrepeated(sent'[c]) /\ (conn'[c] = NoConn => sent'[c] = <<>>)
    BY DEF SentOnce
  <2>1. Unrepeated(sent'[c])
    BY <1>3, <1>4, DistinctAppend DEF EchoInv, SentOnce
  <2> QED BY <2>1 DEF EchoInv, SentOnce
<1>9. RelayedOnce' /\ PublishedOnce'
  BY <1>4 DEF EchoInv, RelayedOnce, PublishedOnce
<1>10. PublishingUnsent'
  <2> SUFFICES ASSUME NEW p \in publishing', NEW c \in Clients,
                      p.at = "storing" \/ (conn'[c] # NoConn /\ conn'[c].home = p.msg.from)
               PROVE  Absent(p.msg, sent'[c])
    BY DEF PublishingUnsent, Absent
  <2>1. CASE p.msg = m /\ sent' = sent
    BY <1>4, <2>1
  <2>2. CASE p \in publishing
    <3>1. CASE conn[c] = NoConn
      <4>1. Range(sent[c]) = {}
        BY <3>1 DEF EchoInv, SentOnce, Range
      <4> QED BY <1>4, <1>5, <2>2, <4>1 DEF Absent
    <3>2. CASE conn[c] # NoConn
      <4>1. Absent(p.msg, sent[c])
        BY <2>2, <3>2 DEF EchoInv, PublishingUnsent
      <4> QED BY <1>4, <1>5, <2>2, <4>1 DEF Absent
    <3> QED BY <3>1, <3>2
  <2> QED BY <1>6, <2>1, <2>2
<1>11. StoringUnrelayed'
  BY <1>4 DEF EchoInv, StoringUnrelayed, Absent
<1>12. RelaysUnsent'
  <2> SUFFICES ASSUME NEW c \in Clients, conn'[c] # NoConn,
                      NEW x \in Range(relays[conn'[c].home]), x.from # conn'[c].home
               PROVE  Absent(x, sent'[c])
    BY DEF RelaysUnsent, Absent
  <2>1. CASE conn[c] = NoConn
    <3>1. Range(sent[c]) = {}
      BY <2>1 DEF EchoInv, SentOnce, Range
    <3>2. sent'[c] = sent[c] \/ Range(sent'[c]) \subseteq {m}
      BY <1>5, <3>1
    <3>3. CASE conn'[c].home \in Instances
      BY <1>4, <3>1, <3>2, <3>3 DEF Absent
    <3> QED BY <3>3
  <2>2. CASE conn[c] # NoConn
    <3>1. Absent(x, sent[c]) /\ conn[c].home \in Instances
      BY <2>2, ConnFields DEF EchoInv, RelaysUnsent
    <3>2. Id(x) # Id(m)
      BY <1>4, <2>2, <3>1 DEF Absent
    <3> QED BY <1>5, <3>1, <3>2 DEF Absent
  <2> QED BY <2>1, <2>2
<1> QED BY <1>7, <1>8, <1>9, <1>10, <1>11, <1>12 DEF EchoInv

\* A step in which publications and notifications only end, and nothing is sent.
RelaysLess ==
  \A i \in Instances : Unrepeated(relays'[i]) /\ Range(relays'[i]) \subseteq Range(relays[i])

LEMMA EchoLess ==
  ASSUME TypeOK, EchoInv, UNCHANGED <<sequence, sent>>, publishing' \subseteq publishing, RelaysLess,
         \A c \in Clients : /\ conn'[c] = NoConn => conn[c] = NoConn
                            /\ conn'[c] # NoConn => conn'[c].home \in Instances
                            /\ conn'[c] # NoConn /\ conn[c] # NoConn => conn'[c].home = conn[c].home
  PROVE  EchoInv'
<1>0. \A c \in Clients : conn[c] = NoConn => Range(sent[c]) = {}
  BY DEF EchoInv, SentOnce, Range
<1>1. AllNumbered'
  BY DEF EchoInv, AllNumbered, Numbered, RelaysLess
<1>2. SentOnce' /\ RelayedOnce' /\ PublishedOnce'
  BY DEF EchoInv, SentOnce, RelayedOnce, PublishedOnce, RelaysLess, Unrepeated
<1>3. PublishingUnsent'
  <2> SUFFICES ASSUME NEW p \in publishing, NEW c \in Clients,
                      p.at = "storing" \/ (conn'[c] # NoConn /\ conn'[c].home = p.msg.from)
               PROVE  Absent(p.msg, sent[c])
    BY DEF PublishingUnsent, Absent
  <2>1. CASE conn[c] = NoConn
    BY <1>0, <2>1 DEF Absent
  <2>2. CASE conn[c] # NoConn
    BY <2>2 DEF EchoInv, PublishingUnsent
  <2> QED BY <2>1, <2>2
<1>4. StoringUnrelayed'
  BY DEF EchoInv, StoringUnrelayed, RelaysLess, Absent
<1>5. RelaysUnsent'
  <2> SUFFICES ASSUME NEW c \in Clients, conn'[c] # NoConn,
                      NEW x \in Range(relays'[conn'[c].home]), x.from # conn'[c].home
               PROVE  Absent(x, sent[c])
    BY DEF RelaysUnsent, Absent
  <2>1. CASE conn[c] = NoConn
    BY <1>0, <2>1 DEF Absent
  <2>2. CASE conn[c] # NoConn
    <3>1. x \in Range(relays[conn[c].home]) /\ x.from # conn[c].home
      BY <2>2 DEF RelaysLess
    <3> QED BY <2>2, <3>1 DEF EchoInv, RelaysUnsent
  <2> QED BY <2>1, <2>2
<1> QED BY <1>1, <1>2, <1>3, <1>4, <1>5 DEF EchoInv

\* A step that hands a message that was under way to the connections of an
\* instance.
LEMMA EchoEmitted ==
  ASSUME TypeOK, EchoInv, NEW i \in Instances, NEW m \in Messages, Emit(i, m),
         UNCHANGED <<sequence, conn>>, publishing' \subseteq publishing, RelaysLess, Numbered(m),
         \A c \in Clients : conn[c] # NoConn /\ conn[c].home = i => Absent(m, sent[c]),
         \A p \in publishing' : p.at = "storing" \/ p.msg.from = i => Id(p.msg) # Id(m),
         \A x \in Range(relays'[i]) : x.from # i => Id(x) # Id(m)
  PROVE  EchoInv'
<1>1. \A c \in Clients :
        /\ sent[c] \in Seq(Messages)
        /\ sent'[c] = IF Subscribed(c, i) THEN Append(sent[c], m) ELSE sent[c]
        /\ Range(sent'[c]) = IF Subscribed(c, i) THEN Range(sent[c]) \cup {m} ELSE Range(sent[c])
  BY EmitFields DEF TypeOK
<1>2. \A c \in Clients : Subscribed(c, i) => conn[c] # NoConn /\ conn[c].home = i
  BY ConnFields DEF Subscribed
<1>3. AllNumbered'
  BY <1>1 DEF EchoInv, AllNumbered, Numbered, RelaysLess
<1>4. SentOnce'
  <2> SUFFICES ASSUME NEW c \in Clients PROVE Unrepeated(sent'[c]) /\ (conn[c] = NoConn => sent'[c] = <<>>)
    BY DEF SentOnce
  <2>1. CASE Subscribed(c, i)
    BY <1>1, <1>2, <2>1, DistinctAppend DEF EchoInv, SentOnce
  <2>2. CASE ~Subscribed(c, i)
    BY <1>1, <2>2 DEF EchoInv, SentOnce
  <2> QED BY <2>1, <2>2
<1>5. RelayedOnce' /\ PublishedOnce' /\ StoringUnrelayed'
  BY DEF EchoInv, RelayedOnce, PublishedOnce, StoringUnrelayed, RelaysLess, Absent
<1>6. PublishingUnsent'
  <2> SUFFICES ASSUME NEW p \in publishing', NEW c \in Clients,
                      p.at = "storing" \/ (conn[c] # NoConn /\ conn[c].home = p.msg.from)
               PROVE  Absent(p.msg, sent'[c])
    BY DEF PublishingUnsent, Absent
  <2>1. Absent(p.msg, sent[c])
    BY DEF EchoInv, PublishingUnsent
  <2>2. Subscribed(c, i) => Id(p.msg) # Id(m)
    BY <1>2
  <2> QED BY <1>1, <2>1, <2>2 DEF Absent
<1>7. RelaysUnsent'
  <2> SUFFICES ASSUME NEW c \in Clients, conn[c] # NoConn,
                      NEW x \in Range(relays'[conn[c].home]), x.from # conn[c].home
               PROVE  Absent(x, sent'[c])
    BY DEF RelaysUnsent, Absent
  <2>1. Absent(x, sent[c])
    BY ConnFields DEF EchoInv, RelaysUnsent, RelaysLess
  <2>2. Subscribed(c, i) => Id(x) # Id(m)
    BY <1>2
  <2> QED BY <1>1, <2>1, <2>2 DEF Absent
<1> QED BY <1>3, <1>4, <1>5, <1>6, <1>7 DEF EchoInv

LEMMA EchoStored ==
  ASSUME TypeOK, EchoInv, NEW p \in publishing, Store(p)
  PROVE  EchoInv'
<1> DEFINE q == [at |-> "stored", msg |-> p.msg]
<1>1. /\ p.at = "storing" /\ p.msg \in Messages /\ publishing' = (publishing \ {p}) \cup {q}
      /\ \A i \in Instances : relays'[i] = IF listening[i] THEN Append(relays[i], p.msg) ELSE relays[i]
      /\ UNCHANGED <<sequence, conn, sent>>
  BY StoreFields
<1>2. q.at = "stored" /\ q.msg = p.msg
  OBVIOUS
<1> HIDE DEF q
<1>3. \A i \in Instances : relays[i] \in Seq(Messages)
  BY DEF TypeOK
<1>4. \A i \in Instances : Range(relays'[i]) \subseteq Range(relays[i]) \cup {p.msg}
  BY <1>1, <1>3, AppendFields
<1>5. \A i \in Instances : Absent(p.msg, relays[i])
  BY <1>1 DEF EchoInv, StoringUnrelayed
<1>6. \A c \in Clients : Absent(p.msg, sent[c])
  BY <1>1 DEF EchoInv, PublishingUnsent
<1>7. \A r \in publishing' : \E s \in publishing : s.msg = r.msg /\ (r.at = "storing" => s = r /\ s # p)
  BY <1>1, <1>2
<1>8. AllNumbered'
  BY <1>1, <1>4, <1>7 DEF EchoInv, AllNumbered, Numbered
<1>9. SentOnce'
  BY <1>1 DEF EchoInv, SentOnce
<1>10. RelayedOnce'
  BY <1>1, <1>3, <1>5, DistinctAppend DEF EchoInv, RelayedOnce
<1>11. PublishedOnce'
  BY <1>1, <1>2 DEF EchoInv, PublishedOnce
<1>12. PublishingUnsent'
  <2> SUFFICES ASSUME NEW r \in publishing', NEW c \in Clients,
                      r.at = "storing" \/ (conn[c] # NoConn /\ conn[c].home = r.msg.from)
               PROVE  Absent(r.msg, sent[c])
    BY <1>1 DEF PublishingUnsent, Absent
  <2>1. PICK s \in publishing : s.msg = r.msg /\ (r.at = "storing" => s = r)
    BY <1>7
  <2> QED BY <2>1 DEF EchoInv, PublishingUnsent
<1>13. StoringUnrelayed'
  <2> SUFFICES ASSUME NEW r \in publishing', NEW i \in Instances, r.at = "storing"
               PROVE  Absent(r.msg, relays'[i])
    BY DEF StoringUnrelayed, Absent
  <2>1. r \in publishing /\ r # p
    BY <1>7
  <2>2. Id(r.msg) # Id(p.msg) /\ Absent(r.msg, relays[i])
    BY <2>1 DEF EchoInv, PublishedOnce, StoringUnrelayed
  <2> QED BY <1>4, <2>2 DEF Absent
<1>14. RelaysUnsent'
  <2> SUFFICES ASSUME NEW c \in Clients, conn[c] # NoConn,
                      NEW x \in Range(relays'[conn[c].home]), x.from # conn[c].home
               PROVE  Absent(x, sent[c])
    BY <1>1 DEF RelaysUnsent, Absent
  <2>1. conn[c].home \in Instances
    BY ConnFields
  <2> QED BY <1>4, <1>6, <2>1 DEF EchoInv, RelaysUnsent
<1> QED BY <1>8, <1>9, <1>10, <1>11, <1>12, <1>13, <1>14 DEF EchoInv

LEMMA EchoStep == TypeOK /\ EchoInv /\ [Next]_vars => EchoInv'
<1> SUFFICES ASSUME TypeOK, EchoInv, [Next]_vars PROVE EchoInv'
  OBVIOUS
<1>0. /\ \A c \in Clients : conn[c] # NoConn => conn[c].home \in Instances
      /\ relays' = relays => RelaysLess
  BY ConnFields DEF EchoInv, RelayedOnce, RelaysLess
<1>1. ASSUME NEW i \in Instances, NEW updated \in SUBSET Objects, Ingest(i, updated) PROVE EchoInv'
  <2> DEFINE m == Delta(i, updated)
  <2>1. /\ m \in Messages /\ m.from = i /\ m.seq = sequence[i] + 1 /\ sequence'[i] = sequence[i] + 1
        /\ \A j \in Instances \ {i} : sequence'[j] = sequence[j]
        /\ IF deployment.shared THEN publishing' = publishing \cup {[at |-> "storing", msg |-> m]} /\ sent' = sent
           ELSE Emit(i, m) /\ publishing' = publishing
    BY <1>1, IngestFields
  <2>2. relays' = relays /\ conn' = conn
    BY <1>1 DEF Ingest
  <2> HIDE DEF m
  <2>3. \/ /\ publishing' = publishing
           /\ \A c \in Clients : /\ sent'[c] = sent[c] \/ sent'[c] = Append(sent[c], m)
                                 /\ conn[c] = NoConn => sent'[c] = sent[c]
        \/ publishing' = publishing \cup {[at |-> "storing", msg |-> m]} /\ sent' = sent
    <3>1. CASE deployment.shared
      BY <2>1, <3>1
    <3>2. CASE ~deployment.shared
      <4>1. \A c \in Clients : Subscribed(c, i) => conn[c] # NoConn
        BY ConnFields DEF Subscribed
      <4> QED BY <2>1, <3>2, <4>1, EmitFields
    <3> QED BY <3>1, <3>2
  <2> QED BY <1>0, <2>1, <2>2, <2>3, EchoNew
<1>2. ASSUME NEW p \in publishing, Store(p) PROVE EchoInv'
  BY <1>2, EchoStored
<1>3. ASSUME NEW p \in publishing, Published(p) \/ PublishFails(p) PROVE EchoInv'
  <2> DEFINE i == p.msg.from
  <2>1. /\ p.msg \in Messages /\ i \in Instances /\ Emit(i, p.msg) /\ publishing' = publishing \ {p}
        /\ UNCHANGED <<sequence, relays, conn>>
    BY <1>3, PublishedFields
  <2>2. Numbered(p.msg)
    BY DEF EchoInv, AllNumbered
  <2>3. \A c \in Clients : conn[c] # NoConn /\ conn[c].home = i => Absent(p.msg, sent[c])
    BY DEF EchoInv, PublishingUnsent
  <2>4. \A q \in publishing' : Id(q.msg) # Id(p.msg)
    BY <2>1 DEF EchoInv, PublishedOnce
  <2>5. \A x \in Range(relays'[i]) : x.from # i => Id(x) # Id(p.msg)
    BY DEF Id
  <2> QED BY <1>0, <2>1, <2>2, <2>3, <2>4, <2>5, EchoEmitted
<1>4. ASSUME NEW i \in Instances, NEW k \in 1..PoolMax, k <= Len(relays[i]), Relayed(i, k) \/ RelayFails(i, k)
      PROVE  EchoInv'
  <2> DEFINE m == relays[i][k]
  <2>1. /\ relays[i] \in Seq(Messages) /\ k \in 1..Len(relays[i]) /\ m \in Messages /\ m \in Range(relays[i])
        /\ relays'[i] = Without(relays[i], k) /\ \A j \in Instances \ {i} : relays'[j] = relays[j]
        /\ sent' = sent \/ (m.from # i /\ Emit(i, m))
        /\ UNCHANGED <<sequence, publishing, conn>>
    BY <1>4, RelayedFields
  <2> HIDE DEF m
  <2>2. /\ Unrepeated(relays'[i]) /\ Range(relays'[i]) \subseteq Range(relays[i])
        /\ Absent(m, relays'[i])
    BY <2>1, DistinctWithout DEF EchoInv, RelayedOnce, m
  <2>3. RelaysLess
    BY <2>1, <2>2 DEF RelaysLess, EchoInv, RelayedOnce
  <2>4. CASE sent' = sent
    BY <1>0, <2>1, <2>3, <2>4, EchoLess
  <2>5. CASE m.from # i /\ Emit(i, m)
    <3>1. Numbered(m)
      BY <2>1 DEF EchoInv, AllNumbered
    <3>2. \A c \in Clients : conn[c] # NoConn /\ conn[c].home = i => Absent(m, sent[c])
      BY <2>1, <2>5 DEF EchoInv, RelaysUnsent
    <3>3. ASSUME NEW p \in publishing', p.at = "storing" \/ p.msg.from = i PROVE Id(p.msg) # Id(m)
      <4>1. CASE p.at = "storing"
        BY <2>1, <3>3, <4>1 DEF EchoInv, StoringUnrelayed, Absent
      <4>2. CASE p.msg.from = i
        BY <2>5, <4>2 DEF Id
      <4> QED BY <3>3, <4>1, <4>2
    <3>4. \A x \in Range(relays'[i]) : Id(x) # Id(m)
      BY <2>2 DEF Absent
    <3> QED BY <2>1, <2>3, <2>5, <3>1, <3>2, <3>3, <3>4, EchoEmitted
  <2> QED BY <2>1, <2>4, <2>5
<1>5. ASSUME NEW i \in Instances, ListenerFails(i) PROVE EchoInv'
  BY <1>0, <1>5, EchoLess DEF ListenerFails, objects, streams
<1>6. ASSUME NEW c \in Clients, NEW i \in Instances, Connect(c, i) PROVE EchoInv'
  <2>1. /\ conn[c] = NoConn /\ conn'[c] # NoConn /\ conn'[c].home = i
        /\ \A d \in Clients \ {c} : conn'[d] = conn[d] /\ sent'[d] = sent[d]
        /\ publishing' = publishing /\ relays' = relays
    BY <1>6, ConnectFields
  <2>2. \A d \in Clients : /\ conn'[d] = NoConn => conn[d] = NoConn /\ sent'[d] = sent[d]
                           /\ conn'[d] # NoConn => conn'[d].home \in Instances
                           /\ conn'[d] # NoConn /\ conn[d] # NoConn => conn'[d].home = conn[d].home
    BY <1>0, <2>1
  <2>3. CASE deployment.slow
    <3>1. UNCHANGED <<sequence, sent>>
      BY <1>6, <2>3, ConnectFields
    <3> QED BY <1>0, <2>1, <2>2, <3>1, EchoLess
  <2>4. CASE ~deployment.slow
    <3> DEFINE m == Snapshot(i, state[i])
    <3>1. sequence' = [sequence EXCEPT ![i] = @ + 1] /\ state[i] \in Versions /\ sent' = [sent EXCEPT ![c] = <<m>>]
      BY <1>6, <2>4, ConnectFields DEF TypeOK
    <3>2. /\ m \in Messages /\ m.from = i /\ m.seq = sequence[i] + 1 /\ sequence'[i] = sequence[i] + 1
          /\ \A j \in Instances \ {i} : sequence'[j] = sequence[j]
      BY <3>1, SnapshotFields
    <3> HIDE DEF m
    <3>3. sent[c] = <<>> /\ Append(<<>>, m) = <<m>>
      BY <2>1 DEF EchoInv, SentOnce
    <3>4. sent'[c] = Append(sent[c], m)
      BY <3>1, <3>3 DEF TypeOK
    <3>5. \A d \in Clients : sent'[d] = sent[d] \/ sent'[d] = Append(sent[d], m)
      BY <2>1, <3>4
    <3> QED BY <2>1, <2>2, <3>2, <3>5, EchoNew
  <2> QED BY <2>3, <2>4
<1>7. ASSUME NEW c \in Clients, EvidenceRead(c) PROVE EchoInv'
  <2> DEFINE i == conn[c].home
             m == Snapshot(i, conn[c].chosen)
  <2>1. /\ conn[c] # NoConn /\ i \in Instances /\ conn[c].chosen \in Versions
        /\ \A d \in Clients \ {c} : conn'[d] = conn[d] /\ sent'[d] = sent[d]
        /\ conn'[c] # NoConn /\ conn'[c].home = i
        /\ sequence' = [sequence EXCEPT ![i] = @ + 1]
        /\ sent'[c] = sent[c] \/ sent'[c] = Append(sent[c], m)
        /\ publishing' = publishing /\ relays' = relays
    BY <1>7, EvidenceFields
  <2> HIDE DEF i
  <2>2. /\ m \in Messages /\ m.from = i /\ m.seq = sequence[i] + 1 /\ sequence'[i] = sequence[i] + 1
        /\ \A j \in Instances \ {i} : sequence'[j] = sequence[j]
    <3>1. i \in Instances /\ conn[c].chosen \in Versions /\ sequence' = [sequence EXCEPT ![i] = @ + 1]
      BY <2>1
    <3> QED BY <3>1, SnapshotFields
  <2> HIDE DEF m
  <2>3. \A d \in Clients : sent'[d] = sent[d] \/ sent'[d] = Append(sent[d], m)
    BY <2>1
  <2>4. \A d \in Clients : /\ conn'[d] = NoConn => conn[d] = NoConn /\ sent'[d] = sent[d]
                           /\ conn'[d] # NoConn => conn'[d].home \in Instances
                           /\ conn'[d] # NoConn /\ conn[d] # NoConn => conn'[d].home = conn[d].home
    BY <1>0, <2>1 DEF i
  <2> QED BY <2>1, <2>2, <2>3, <2>4, EchoNew
<1>8. ASSUME NEW c \in Clients, Close(c) PROVE EchoInv'
  <2>1. /\ conn[c] # NoConn /\ conn'[c] # NoConn /\ conn'[c].home = conn[c].home
        /\ \A d \in Clients \ {c} : conn'[d] = conn[d]
        /\ UNCHANGED <<sequence, sent, publishing, relays>>
    BY <1>8, CloseFields
  <2>2. \A d \in Clients : /\ conn'[d] = NoConn => conn[d] = NoConn
                           /\ conn'[d] # NoConn => conn'[d].home \in Instances
                           /\ conn'[d] # NoConn /\ conn[d] # NoConn => conn'[d].home = conn[d].home
    BY <1>0, <2>1
  <2> QED BY <1>0, <2>1, <2>2, EchoLess
<1>9. CASE UNCHANGED vars
  BY <1>0, <1>9, EchoLess DEF vars, objects, bus, streams
<1> QED BY <1>1, <1>2, <1>3, <1>4, <1>5, <1>6, <1>7, <1>8, <1>9 DEF Next

(* An instance suppresses the echo of its own events: no connection is sent  *)
(* a message twice, however inserts, notifications and selects race.         *)
THEOREM NoMessageTwice == Spec => []NoEcho
<1>1. Init => EchoInv
  <2> SUFFICES ASSUME Init PROVE EchoInv
    OBVIOUS
  <2>1. /\ \A c \in Clients : conn[c] = NoConn /\ sent[c] = <<>>
        /\ \A i \in Instances : relays[i] = <<>>
        /\ publishing = {} /\ Range(<<>>) = {} /\ Unrepeated(<<>>)
    BY DEF Init, Range, Unrepeated
  <2> QED BY <2>1 DEF EchoInv, AllNumbered, SentOnce, RelayedOnce, PublishedOnce, PublishingUnsent,
                      StoringUnrelayed, RelaysUnsent
<1>2. EchoInv => NoEcho
  BY DEF EchoInv, SentOnce, Unrepeated, NoEcho, Id
<1> QED BY <1>1, <1>2, StreamTypeInit, StreamTypeStep, EchoStep, PTL DEF Spec

-----------------------------------------------------------------------------
(* What reaches a connection.  No message is newer than the objects; without *)
(* errors every instance of a shared bus listens; and an instance that drops *)
(* the notification of its own delta has handed that delta to its            *)
(* connections, or is about to.                                              *)
Bounded ==
  /\ \A i \in Instances, o \in Objects : \A x \in Range(relays[i]) : x.versions[o] <= latest[o]
  /\ \A p \in publishing, o \in Objects : p.msg.versions[o] <= latest[o]

AllListening == deployment.shared /\ faults = 0 => \A i \in Instances : listening[i]

OwnKnown(c, o) ==
  \A x \in Range(relays[conn[c].home]) :
    x.from = conn[c].home /\ x.versions[o] > conn[c].since[o] => x.versions[o] \in Coming(c, o)

Reaches(c, o) ==
  Connected(c) =>
    /\ LocalReaches(c, o) /\ OwnKnown(c, o)
    /\ deployment.shared /\ faults = 0 => FanOutReaches(c, o)

ReachInv == Bounded /\ AllListening /\ \A c \in Clients, o \in Objects : Reaches(c, o)

\* Coming, of the messages sent, the connection and the publications.
Comes(o, s, k, ps) ==
  {x.versions[o] : x \in Range(s)}
    \cup (IF k.at = "joining" THEN {k.chosen[o]} ELSE {})
    \cup {p.msg.versions[o] : p \in {q \in ps : q.msg.from = k.home}}

LEMMA ComingIs ==
  ASSUME NEW c \in Clients, NEW o \in Objects
  PROVE  /\ Coming(c, o) = Comes(o, sent[c], conn[c], publishing)
         /\ Coming(c, o)' = Comes(o, sent'[c], conn'[c], publishing')
<1>1. Coming(c, o) = Comes(o, sent[c], conn[c], publishing)
  <2>1. {sent[c][n].versions[o] : n \in DOMAIN sent[c]} = {x.versions[o] : x \in Range(sent[c])}
    BY DEF Range
  <2> QED BY <2>1 DEF Coming, Comes
<1>2. Coming(c, o)' = Comes(o, sent'[c], conn'[c], publishing')
  <2>1. {sent'[c][n].versions[o] : n \in DOMAIN sent'[c]} = {x.versions[o] : x \in Range(sent'[c])}
    BY DEF Range
  <2> QED BY <2>1 DEF Coming, Comes
<1> QED BY <1>1, <1>2

LEMMA ComesGrows ==
  ASSUME NEW o \in Objects, NEW s, NEW t, NEW k, NEW l, NEW ps, NEW qs,
         l.home = k.home, Range(s) \subseteq Range(t),
         k.at = "joining" =>
           (l.at = "joining" /\ l.chosen = k.chosen) \/ \E x \in Range(t) : x.versions[o] = k.chosen[o],
         \A p \in ps : p.msg.from = k.home => p.msg \in Range(t) \/ \E q \in qs : q.msg = p.msg
  PROVE  Comes(o, s, k, ps) \subseteq Comes(o, t, l, qs)
<1>1. \A x \in Range(t) : x.versions[o] \in Comes(o, t, l, qs)
  BY DEF Comes
<1>2. \A q \in qs : q.msg.from = l.home => q.msg.versions[o] \in Comes(o, t, l, qs)
  BY DEF Comes
<1>3. \A p \in ps : p.msg.from = k.home => p.msg.versions[o] \in Comes(o, t, l, qs)
  BY <1>1, <1>2
<1>4. k.at = "joining" => k.chosen[o] \in Comes(o, t, l, qs)
  BY <1>1 DEF Comes
<1> QED BY <1>1, <1>3, <1>4 DEF Comes

\* FromAfar, of the publications and of the notifications at the connection's
\* instance.
Afar(o, ps, s) == {p.msg.versions[o] : p \in {q \in ps : q.at = "storing"}} \cup {x.versions[o] : x \in Range(s)}

LEMMA FromAfarIs ==
  ASSUME NEW c \in Clients, NEW o \in Objects
  PROVE  /\ FromAfar(c, o) = Afar(o, publishing, relays[conn[c].home])
         /\ FromAfar(c, o)' = Afar(o, publishing', relays'[conn'[c].home])
<1>1. ASSUME NEW s PROVE {s[n].versions[o] : n \in DOMAIN s} = {x.versions[o] : x \in Range(s)}
  BY DEF Range
<1> QED BY <1>1 DEF FromAfar, Afar

\* A step that leaves a connection and the object alone, and keeps what comes.
LEMMA ReachKept ==
  ASSUME TypeOK, NEW c \in Clients, NEW o \in Objects, Reaches(c, o), Connected(c),
         conn'[c].home = conn[c].home, conn'[c].since = conn[c].since,
         state'[conn[c].home][o] = state[conn[c].home][o], latest'[o] = latest[o],
         deployment' = deployment, faults' = 0 => faults = 0,
         Coming(c, o) \subseteq Coming(c, o)',
         \A x \in Range(relays'[conn[c].home]) :
           \/ x \in Range(relays[conn[c].home])
           \/ x.from # conn[c].home \/ x.versions[o] \in Coming(c, o)',
         deployment.shared /\ faults' = 0 =>
           \A v \in FromAfar(c, o) : v > conn[c].since[o] => v \in FromAfar(c, o)' \cup Coming(c, o)'
  PROVE  Reaches(c, o)'
<1>1. LocalReaches(c, o)'
  BY DEF Reaches, LocalReaches
<1>2. OwnKnown(c, o)'
  BY DEF Reaches, OwnKnown
<1>3. ASSUME deployment.shared, faults' = 0 PROVE FanOutReaches(c, o)'
  BY <1>3 DEF Reaches, FanOutReaches
<1> QED BY <1>1, <1>2, <1>3 DEF Reaches

\* Who is connected gets what its instance emits.
LEMMA ConnectedFields ==
  ASSUME TypeOK, NEW c \in Clients, Connected(c)
  PROVE  /\ conn[c] # NoConn /\ conn[c].home \in Instances /\ conn[c].since \in Versions
         /\ \A i \in Instances : Subscribed(c, i) <=> conn[c].home = i
BY ConnFields DEF Connected, Subscribed

\* Nothing changes for a connection whose messages and instance are as before.
LEMMA ReachAlone ==
  ASSUME TypeOK, NEW c \in Clients, NEW o \in Objects, Reaches(c, o),
         conn'[c] = conn[c], sent'[c] = sent[c],
         UNCHANGED <<deployment, latest, state, publishing, relays>>, faults' = 0 => faults = 0
  PROVE  Reaches(c, o)'
<1>1. CASE ~Connected(c)
  BY <1>1 DEF Reaches, Connected
<1>2. CASE Connected(c)
  <2>1. Coming(c, o)' = Coming(c, o) /\ FromAfar(c, o)' = FromAfar(c, o)
    BY ComingIs, FromAfarIs
  <2> QED BY <1>2, <2>1, ReachKept
<1> QED BY <1>1, <1>2

LEMMA ReachIngest ==
  ASSUME TypeOK, ReachInv, NEW i \in Instances, NEW updated \in SUBSET Objects, Ingest(i, updated)
  PROVE  ReachInv'
<1> DEFINE m == Delta(i, updated)
<1>1. /\ m \in Messages /\ m.from = i
      /\ \A o \in Objects : latest'[o] = IF o \in updated THEN latest[o] + 1 ELSE latest[o]
      /\ \A o \in Objects : state'[i][o] = IF o \in updated THEN latest'[o] ELSE state[i][o]
      /\ \A j \in Instances \ {i} : state'[j] = state[j]
      /\ \A o \in Objects : m.versions[o] = IF o \in updated THEN latest'[o] ELSE 0
      /\ IF deployment.shared THEN publishing' = publishing \cup {[at |-> "storing", msg |-> m]} /\ sent' = sent
         ELSE Emit(i, m) /\ publishing' = publishing
  BY IngestFields
<1>2. UNCHANGED <<deployment, relays, listening, conn, faults>>
  BY DEF Ingest
<1> HIDE DEF m
<1>3. \A o \in Objects : latest[o] \in Nat /\ latest[o] <= latest'[o] /\ m.versions[o] <= latest'[o]
  <2> SUFFICES ASSUME NEW o \in Objects
               PROVE  latest[o] \in Nat /\ latest[o] <= latest'[o] /\ m.versions[o] <= latest'[o]
    OBVIOUS
  <2>1. latest[o] \in Nat
    BY DEF TypeOK, Versions
  <2>2. latest'[o] = latest[o] + 1 \/ latest'[o] = latest[o]
    BY <1>1
  <2>3. m.versions[o] = latest'[o] \/ m.versions[o] = 0
    BY <1>1
  <2> QED BY <2>1, <2>2, <2>3
<1>4. \A p \in publishing' : p \in publishing \/ (p.msg = m /\ p.at = "storing")
  BY <1>1
<1>5. Bounded'
  <2>1. ASSUME NEW x \in Messages, NEW o \in Objects, x.versions[o] <= latest[o] PROVE x.versions[o] <= latest'[o]
    <3>1. x.versions[o] \in Nat
      BY DEF Messages, Versions
    <3> QED BY <1>1, <1>3, <2>1, <3>1
  <2>2. /\ \A j \in Instances : Range(relays[j]) \subseteq Messages
        /\ \A p \in publishing : p.msg \in Messages
    BY DEF TypeOK, Range
  <2> QED BY <1>2, <1>3, <1>4, <2>1, <2>2 DEF ReachInv, Bounded
<1>6. AllListening'
  BY <1>2 DEF ReachInv, AllListening
<1>7. ASSUME NEW c \in Clients, NEW o \in Objects, Connected(c) PROVE Reaches(c, o)'
  <2>1. /\ conn[c] # NoConn /\ conn[c].home \in Instances /\ (Subscribed(c, i) <=> conn[c].home = i)
        /\ sent[c] \in Seq(Messages)
    BY <1>7, ConnectedFields DEF TypeOK
  <2>2. publishing \subseteq publishing' /\ Range(sent[c]) \subseteq Range(sent'[c])
    <3>1. CASE deployment.shared
      BY <1>1, <3>1
    <3>2. CASE ~deployment.shared
      BY <1>1, <3>2, EmitFields
    <3> QED BY <3>1, <3>2
  <2>3. Coming(c, o) \subseteq Coming(c, o)'
    BY <1>2, <2>2, ComingIs, ComesGrows
  <2>4. conn[c].home = i => m.versions[o] \in Coming(c, o)'
    <3> SUFFICES ASSUME conn[c].home = i PROVE m.versions[o] \in Coming(c, o)'
      OBVIOUS
    <3>1. CASE deployment.shared
      <4>1. [at |-> "storing", msg |-> m] \in publishing'
        BY <1>1, <3>1
      <4> QED BY <1>1, <1>2, <4>1, ComingIs DEF Comes
    <3>2. CASE ~deployment.shared
      <4>1. m \in Range(sent'[c])
        BY <1>1, <2>1, <3>2, EmitFields
      <4> QED BY <4>1, ComingIs DEF Comes
    <3> QED BY <3>1, <3>2
  <2>5. LocalReaches(c, o)'
    <3>1. CASE conn[c].home = i /\ o \in updated
      <4>1. state'[i][o] = m.versions[o]
        BY <1>1, <3>1
      <4>2. state'[conn'[c].home][o] \in Coming(c, o)'
        BY <1>2, <2>4, <3>1, <4>1
      <4> QED BY <4>2 DEF LocalReaches
    <3>2. CASE ~(conn[c].home = i /\ o \in updated)
      <4>1. state'[conn[c].home][o] = state[conn[c].home][o]
        <5>1. CASE conn[c].home = i
          <6>1. o \notin updated
            BY <3>2, <5>1
          <6>2. state'[i][o] = state[i][o]
            BY <1>1, <6>1
          <6> QED BY <5>1, <6>2
        <5>2. CASE conn[c].home # i
          BY <1>1, <2>1, <5>2
        <5> QED BY <5>1, <5>2
      <4> QED BY <1>2, <1>7, <2>3, <4>1 DEF ReachInv, Reaches, LocalReaches
    <3> QED BY <3>1, <3>2
  <2>6. OwnKnown(c, o)'
    BY <1>2, <1>7, <2>3 DEF ReachInv, Reaches, OwnKnown
  <2>7. ASSUME deployment.shared, faults = 0 PROVE FanOutReaches(c, o)'
    <3>1. publishing' = publishing \cup {[at |-> "storing", msg |-> m]}
      BY <1>1, <2>7
    <3>2. FromAfar(c, o) \subseteq FromAfar(c, o)'
      <4> DEFINE s == relays[conn[c].home]
      <4>1. FromAfar(c, o) = Afar(o, publishing, s)
        BY FromAfarIs
      <4>2. FromAfar(c, o)' = Afar(o, publishing', s)
        BY <1>2, FromAfarIs
      <4> HIDE DEF s
      <4> QED BY <2>2, <4>1, <4>2 DEF Afar
    <3>3. CASE o \in updated
      <4>1. m.versions[o] = latest'[o]
        BY <1>1, <3>3
      <4> DEFINE q == [at |-> "storing", msg |-> m]
      <4>2. q \in publishing' /\ q.at = "storing" /\ q.msg = m
        BY <3>1
      <4> HIDE DEF q
      <4>3. m.versions[o] \in FromAfar(c, o)'
        BY <4>2, FromAfarIs DEF Afar
      <4> QED BY <4>1, <4>3 DEF FanOutReaches
    <3>4. CASE o \notin updated
      <4>1. latest'[o] = latest[o]
        BY <1>1, <3>4
      <4> QED BY <1>2, <1>7, <2>3, <2>7, <3>2, <4>1 DEF ReachInv, Reaches, FanOutReaches
    <3> QED BY <3>3, <3>4
  <2> QED BY <1>2, <2>5, <2>6, <2>7 DEF Reaches
<1>8. ASSUME NEW c \in Clients, NEW o \in Objects, ~Connected(c) PROVE Reaches(c, o)'
  BY <1>2, <1>8 DEF Reaches, Connected
<1> QED BY <1>5, <1>6, <1>7, <1>8 DEF ReachInv

LEMMA ReachStored ==
  ASSUME TypeOK, ReachInv, NEW p \in publishing, Store(p)
  PROVE  ReachInv'
<1> DEFINE q == [at |-> "stored", msg |-> p.msg]
<1>1. /\ p.at = "storing" /\ p.msg \in Messages /\ publishing' = (publishing \ {p}) \cup {q}
      /\ \A i \in Instances : relays'[i] = IF listening[i] THEN Append(relays[i], p.msg) ELSE relays[i]
      /\ UNCHANGED <<deployment, latest, state, listening, conn, sent, faults>>
  BY StoreFields
<1>2. q.at = "stored" /\ q.msg = p.msg
  OBVIOUS
<1> HIDE DEF q
<1>3. \A i \in Instances : Range(relays'[i]) = IF listening[i] THEN Range(relays[i]) \cup {p.msg} ELSE Range(relays[i])
  <2> SUFFICES ASSUME NEW i \in Instances
               PROVE  Range(relays'[i]) = IF listening[i] THEN Range(relays[i]) \cup {p.msg} ELSE Range(relays[i])
    OBVIOUS
  <2>1. relays[i] \in Seq(Messages)
    BY DEF TypeOK
  <2>2. Range(Append(relays[i], p.msg)) = Range(relays[i]) \cup {p.msg}
    BY <1>1, <2>1, AppendFields
  <2> QED BY <1>1, <2>2
<1>4. Bounded'
  <2>1. \A i \in Instances, o \in Objects : \A x \in Range(relays'[i]) : x.versions[o] <= latest[o]
    BY <1>3 DEF ReachInv, Bounded
  <2>2. \A r \in publishing', o \in Objects : r.msg.versions[o] <= latest[o]
    BY <1>1, <1>2 DEF ReachInv, Bounded
  <2> QED BY <1>1, <2>1, <2>2 DEF Bounded
<1>5. AllListening'
  BY <1>1 DEF ReachInv, AllListening
<1>6. ASSUME NEW c \in Clients, NEW o \in Objects, Connected(c) PROVE Reaches(c, o)'
  <2> DEFINE h == conn[c].home
  <2>1. h \in Instances
    BY <1>6, ConnectedFields
  <2>2. \A r \in publishing : \E s \in publishing' : s.msg = r.msg
    BY <1>1, <1>2
  <2>3. Coming(c, o) \subseteq Coming(c, o)'
    BY <1>1, <2>2, ComingIs, ComesGrows
  <2>4. p.msg.from = h => p.msg.versions[o] \in Coming(c, o)'
    BY <1>1, <1>2, ComingIs DEF Comes
  <2>5. \A x \in Range(relays'[h]) : x \in Range(relays[h]) \/ x.from # h \/ x.versions[o] \in Coming(c, o)'
    BY <1>3, <2>1, <2>4
  <2>6. deployment.shared /\ faults = 0 => FromAfar(c, o) \subseteq FromAfar(c, o)'
    <3> SUFFICES ASSUME deployment.shared, faults = 0 PROVE FromAfar(c, o) \subseteq FromAfar(c, o)'
      OBVIOUS
    <3>1. Range(relays'[h]) = Range(relays[h]) \cup {p.msg}
      BY <1>3, <2>1 DEF ReachInv, AllListening
    <3>2. \A r \in publishing : r = p \/ r \in publishing'
      BY <1>1
    <3>3. FromAfar(c, o)' = Afar(o, publishing', relays'[h])
      BY <1>1, FromAfarIs
    <3> HIDE DEF h
    <3>4. FromAfar(c, o) = Afar(o, publishing, relays[h])
      BY FromAfarIs DEF h
    <3> QED BY <3>1, <3>2, <3>3, <3>4 DEF Afar
  <2> QED BY <1>1, <1>6, <2>3, <2>5, <2>6, ReachKept DEF ReachInv
<1>7. ASSUME NEW c \in Clients, NEW o \in Objects, ~Connected(c) PROVE Reaches(c, o)'
  BY <1>1, <1>7 DEF Reaches, Connected
<1> QED BY <1>4, <1>5, <1>6, <1>7 DEF ReachInv

LEMMA ReachPublished ==
  ASSUME TypeOK, ReachInv, NEW p \in publishing, Published(p) \/ PublishFails(p)
  PROVE  ReachInv'
<1> DEFINE i == p.msg.from
<1>1. /\ p.msg \in Messages /\ i \in Instances /\ Emit(i, p.msg) /\ publishing' = publishing \ {p}
      /\ faults \in Nat /\ (faults' = 0 => p.at = "stored" /\ faults = 0)
      /\ UNCHANGED <<deployment, latest, state, relays, listening, conn>>
  <2>1. /\ p.msg \in Messages /\ i \in Instances /\ Emit(i, p.msg) /\ publishing' = publishing \ {p}
        /\ faults \in Nat /\ (Published(p) => p.at = "stored" /\ faults' = faults) /\ (PublishFails(p) => faults' = faults + 1)
        /\ UNCHANGED <<deployment, latest, state, relays, listening, conn>>
    BY PublishedFields
  <2>2. faults' = 0 => Published(p)
    BY <2>1
  <2> QED BY <2>1, <2>2
<1> HIDE DEF i
<1>2. Bounded' /\ AllListening'
  BY <1>1 DEF ReachInv, Bounded, AllListening
<1>3. ASSUME NEW c \in Clients, NEW o \in Objects, Connected(c) PROVE Reaches(c, o)'
  <2>1. Subscribed(c, i) <=> conn[c].home = i
    BY <1>1, <1>3, ConnectedFields
  <2>2. Range(sent'[c]) = IF conn[c].home = i THEN Range(sent[c]) \cup {p.msg} ELSE Range(sent[c])
    BY <1>1, <2>1, EmitFields
  <2>3. \A r \in publishing : r.msg.from = conn[c].home => r.msg \in Range(sent'[c]) \/ r \in publishing'
    BY <1>1, <2>2 DEF i
  <2>4. Coming(c, o) \subseteq Coming(c, o)'
    BY <1>1, <2>2, <2>3, ComingIs, ComesGrows
  <2>5. faults' = 0 => FromAfar(c, o) \subseteq FromAfar(c, o)'
    BY <1>1, FromAfarIs DEF Afar
  <2> QED BY <1>1, <1>3, <2>4, <2>5, ReachKept DEF ReachInv
<1>4. ASSUME NEW c \in Clients, NEW o \in Objects, ~Connected(c) PROVE Reaches(c, o)'
  BY <1>1, <1>4 DEF Reaches, Connected
<1> QED BY <1>2, <1>3, <1>4 DEF ReachInv

LEMMA ReachRelayed ==
  ASSUME TypeOK, ReachInv, NEW i \in Instances, NEW k \in 1..PoolMax, k <= Len(relays[i]),
         Relayed(i, k) \/ RelayFails(i, k)
  PROVE  ReachInv'
<1> DEFINE m == relays[i][k]
<1>1. /\ relays[i] \in Seq(Messages) /\ k \in 1..Len(relays[i]) /\ m \in Messages /\ m \in Range(relays[i])
      /\ relays'[i] = Without(relays[i], k) /\ \A j \in Instances \ {i} : relays'[j] = relays[j]
      /\ faults \in Nat /\ UNCHANGED <<deployment, latest, state, publishing, listening, conn>>
      /\ sent' = sent \/ Emit(i, m)
      /\ faults' = 0 => faults = 0 /\ (m.from # i => Emit(i, m))
  <2>1. /\ RelayFails(i, k) => sent' = sent /\ faults' = faults + 1
        /\ Relayed(i, k) => /\ faults' = faults
                            /\ m.from = i => sent' = sent
                            /\ m.from # i => Emit(i, m)
        /\ faults \in Nat
    BY RelayedFields
  <2>2. faults' = 0 => Relayed(i, k)
    BY <2>1
  <2> QED BY <2>1, <2>2, RelayedFields
<1>2. \A x \in Range(relays[i]) : x = m \/ x \in Range(relays'[i])
  <2>1. Range(relays'[i]) = {relays[i][n] : n \in (1..Len(relays[i])) \ {k}} /\ DOMAIN relays[i] = 1..Len(relays[i])
    BY <1>1, WithoutFields
  <2> QED BY <2>1 DEF Range
<1>3. \A j \in Instances : Range(relays'[j]) \subseteq Range(relays[j])
  <2>1. Range(relays'[i]) \subseteq Range(relays[i])
    <3>1. Range(relays'[i]) = {relays[i][n] : n \in (1..Len(relays[i])) \ {k}} /\ DOMAIN relays[i] = 1..Len(relays[i])
      BY <1>1, WithoutFields
    <3> QED BY <3>1 DEF Range
  <2> QED BY <1>1, <2>1
<1> HIDE DEF m
<1>4. Bounded' /\ AllListening'
  BY <1>1, <1>3 DEF ReachInv, Bounded, AllListening
<1>5. ASSUME NEW c \in Clients, NEW o \in Objects, Connected(c) PROVE Reaches(c, o)'
  <2> DEFINE h == conn[c].home
  <2>1. h \in Instances /\ (Subscribed(c, i) <=> h = i)
    BY <1>5, ConnectedFields
  <2>2. Range(sent[c]) \subseteq Range(sent'[c]) /\ (Emit(i, m) /\ h = i => m \in Range(sent'[c]))
    <3>1. CASE Emit(i, m)
      BY <1>1, <2>1, <3>1, EmitFields
    <3>2. CASE ~Emit(i, m)
      BY <1>1, <3>2
    <3> QED BY <3>1, <3>2
  <2>3. Coming(c, o) \subseteq Coming(c, o)'
    BY <1>1, <2>2, ComingIs, ComesGrows
  <2>4. ASSUME faults' = 0, h = i, m.versions[o] > conn[c].since[o] PROVE m.versions[o] \in Coming(c, o)'
    <3>1. CASE m.from = i
      <4>1. m.versions[o] \in Coming(c, o)
        BY <1>1, <1>5, <2>4, <3>1 DEF ReachInv, Reaches, OwnKnown
      <4> QED BY <2>3, <4>1
    <3>2. CASE m.from # i
      <4>1. m \in Range(sent'[c])
        BY <1>1, <2>2, <2>4, <3>2
      <4> QED BY <4>1, ComingIs DEF Comes
    <3> QED BY <3>1, <3>2
  <2>5. ASSUME faults' = 0, NEW v \in FromAfar(c, o), v > conn[c].since[o]
        PROVE  v \in FromAfar(c, o)' \cup Coming(c, o)'
    <3>1. FromAfar(c, o)' = Afar(o, publishing, relays'[h]) /\ FromAfar(c, o) = Afar(o, publishing, relays[h])
      BY <1>1, FromAfarIs
    <3>2. CASE h # i
      BY <1>1, <2>1, <2>5, <3>1, <3>2
    <3>3. CASE h = i
      BY <1>2, <2>4, <2>5, <3>1, <3>3 DEF Afar
    <3> QED BY <3>2, <3>3
  <2> QED BY <1>1, <1>3, <1>5, <2>1, <2>3, <2>5, ReachKept DEF ReachInv
<1>6. ASSUME NEW c \in Clients, NEW o \in Objects, ~Connected(c) PROVE Reaches(c, o)'
  BY <1>1, <1>6 DEF Reaches, Connected
<1> QED BY <1>4, <1>5, <1>6 DEF ReachInv

LEMMA ReachConnected ==
  ASSUME TypeOK, ReachInv, NEW c \in Clients, NEW i \in Instances, Connect(c, i)
  PROVE  ReachInv'
<1>1. /\ conn'[c].home = i /\ conn'[c].chosen = state[i] /\ conn'[c].since = latest
      /\ \A d \in Clients \ {c} : conn'[d] = conn[d] /\ sent'[d] = sent[d]
      /\ UNCHANGED <<deployment, latest, state, publishing, relays, listening, faults>>
  BY ConnectFields
<1>2. Bounded' /\ AllListening'
  BY <1>1 DEF ReachInv, Bounded, AllListening
<1>3. ASSUME NEW d \in Clients \ {c}, NEW o \in Objects PROVE Reaches(d, o)'
  BY <1>1, <1>3, ReachAlone DEF ReachInv
<1>4. ASSUME NEW o \in Objects PROVE Reaches(c, o)'
  <2>1. state[i][o] \in Coming(c, o)'
    <3>1. CASE deployment.slow
      <4>1. conn'[c].at = "joining"
        BY <3>1, ConnectFields
      <4> QED BY <1>1, <4>1, ComingIs DEF Comes
    <3>2. CASE ~deployment.slow
      <4>1. sent' = [sent EXCEPT ![c] = <<Snapshot(i, state[i])>>]
        BY <3>2, ConnectFields
      <4>2. Snapshot(i, state[i]).versions = state[i]
        BY DEF Snapshot
      <4>3. sent'[c] = <<Snapshot(i, state[i])>>
        BY <4>1 DEF TypeOK
      <4> HIDE DEF Snapshot
      <4>4. Snapshot(i, state[i]) \in Range(sent'[c])
        BY <4>3 DEF Range
      <4> QED BY <4>2, <4>4, ComingIs DEF Comes
    <3> QED BY <3>1, <3>2
  <2>2. LocalReaches(c, o)'
    <3>1. state'[conn'[c].home][o] \in Coming(c, o)'
      BY <1>1, <2>1
    <3> QED BY <3>1 DEF LocalReaches
  <2>3. latest[o] \in Nat /\ \A x \in Range(relays[i]) : x.versions[o] \in Nat /\ x.versions[o] <= latest[o]
    <3>1. Range(relays[i]) \subseteq Messages
      BY DEF TypeOK, Range
    <3>2. \A x \in Messages : x.versions[o] \in Nat
      BY DEF Messages, Versions
    <3>3. latest[o] \in Nat
      BY DEF TypeOK, Versions
    <3> QED BY <3>1, <3>2, <3>3 DEF ReachInv, Bounded
  <2>4. OwnKnown(c, o)'
    BY <1>1, <2>3 DEF OwnKnown
  <2>5. FanOutReaches(c, o)'
    BY <1>1, <2>3 DEF FanOutReaches
  <2> QED BY <2>2, <2>4, <2>5 DEF Reaches
<1> QED BY <1>2, <1>3, <1>4 DEF ReachInv

LEMMA ReachEvidence ==
  ASSUME TypeOK, ReachInv, NEW c \in Clients, EvidenceRead(c)
  PROVE  ReachInv'
<1> DEFINE i == conn[c].home
           v == conn[c].chosen
           m == Snapshot(i, v)
<1>1. /\ conn[c] # NoConn /\ conn[c].home \in Instances /\ conn[c].chosen \in Versions /\ conn[c].at = "joining"
      /\ \A d \in Clients \ {c} : conn'[d] = conn[d] /\ sent'[d] = sent[d]
      /\ conn'[c].at = "live" /\ conn'[c].home = conn[c].home /\ conn'[c].open = conn[c].open
      /\ conn'[c].since = conn[c].since
      /\ sequence' = [sequence EXCEPT ![conn[c].home] = @ + 1]
      /\ sent'[c] = IF conn[c].open THEN Append(sent[c], m) ELSE sent[c]
      /\ UNCHANGED <<deployment, latest, state, publishing, relays, listening, faults>>
  BY EvidenceFields
<1>2. m \in Messages /\ m.versions = conn[c].chosen
  <2>1. i \in Instances /\ v \in Versions /\ sequence' = [sequence EXCEPT ![i] = @ + 1]
    BY <1>1
  <2> HIDE DEF i, v
  <2>2. m \in Messages /\ m.versions = v
    BY <2>1, SnapshotFields
  <2> QED BY <2>2 DEF v
<1> HIDE DEF m
<1>3. Bounded' /\ AllListening'
  BY <1>1 DEF ReachInv, Bounded, AllListening
<1>4. ASSUME NEW d \in Clients \ {c}, NEW o \in Objects PROVE Reaches(d, o)'
  BY <1>1, <1>4, ReachAlone DEF ReachInv
<1>5. ASSUME NEW o \in Objects, conn[c].open PROVE Reaches(c, o)'
  <2>1. Range(sent'[c]) = Range(sent[c]) \cup {m} /\ Connected(c)
    BY <1>1, <1>2, <1>5, AppendFields DEF TypeOK, Connected
  <2>2. \E x \in Range(sent'[c]) : x.versions[o] = conn[c].chosen[o]
    BY <1>2, <2>1
  <2>3. Coming(c, o) \subseteq Coming(c, o)'
    BY <1>1, <2>1, <2>2, ComingIs, ComesGrows
  <2>4. FromAfar(c, o)' = FromAfar(c, o)
    BY <1>1, FromAfarIs
  <2> QED BY <1>1, <2>1, <2>3, <2>4, ReachKept DEF ReachInv
<1>6. ASSUME NEW o \in Objects, ~conn[c].open PROVE Reaches(c, o)'
  BY <1>1, <1>6 DEF Reaches, Connected
<1> QED BY <1>3, <1>4, <1>5, <1>6 DEF ReachInv

LEMMA ReachStep == TypeOK /\ ReachInv /\ [Next]_vars => ReachInv'
<1> SUFFICES ASSUME TypeOK, ReachInv, [Next]_vars PROVE ReachInv'
  OBVIOUS
<1>1. ASSUME NEW i \in Instances, ListenerFails(i) PROVE ReachInv'
  <2>1. faults' # 0 /\ UNCHANGED <<deployment, latest, state, publishing, relays, conn, sent>>
    BY <1>1 DEF ListenerFails, objects, streams, TypeOK
  <2> QED BY <2>1, ReachAlone DEF ReachInv, Bounded, AllListening
<1>2. ASSUME NEW c \in Clients, Close(c) PROVE ReachInv'
  <2>1. /\ ~conn'[c].open /\ \A d \in Clients \ {c} : conn'[d] = conn[d]
        /\ UNCHANGED <<deployment, latest, state, publishing, relays, listening, sent, faults>>
    BY <1>2, CloseFields
  <2>2. ASSUME NEW d \in Clients \ {c}, NEW o \in Objects PROVE Reaches(d, o)'
    BY <2>1, <2>2, ReachAlone DEF ReachInv
  <2>3. \A o \in Objects : Reaches(c, o)'
    BY <2>1 DEF Reaches, Connected
  <2> QED BY <2>1, <2>2, <2>3 DEF ReachInv, Bounded, AllListening
<1>3. CASE UNCHANGED vars
  BY <1>3, ReachAlone DEF ReachInv, Bounded, AllListening, vars, objects, bus, streams
<1> QED BY <1>1, <1>2, <1>3, ReachIngest, ReachStored, ReachPublished, ReachRelayed, ReachConnected,
           ReachEvidence DEF Next

(* No client misses the state of an object its own instance holds, whatever  *)
(* fails; and without errors of a shared bus an update made at any instance  *)
(* after it connected reaches it.                                            *)
THEOREM UpdatesReachClients == Spec => []UpdatesReach
<1>1. Init => ReachInv
  <2> SUFFICES ASSUME Init PROVE ReachInv
    OBVIOUS
  <2>1. /\ \A c \in Clients : conn[c] = NoConn
        /\ \A i \in Instances : Range(relays[i]) = {} /\ listening[i] = deployment.shared
        /\ publishing = {}
    BY DEF Init, Range
  <2>2. \A c \in Clients : ~Connected(c)
    BY <2>1 DEF Connected, NoConn
  <2> QED BY <2>1, <2>2 DEF ReachInv, Bounded, AllListening, Reaches
<1>2. ReachInv => UpdatesReach
  BY DEF ReachInv, Reaches, UpdatesReach
<1> QED BY <1>1, <1>2, StreamTypeInit, StreamTypeStep, ReachStep, PTL DEF Spec

-----------------------------------------------------------------------------
(* What a client shows, without a shared bus and a history database.  Then   *)
(* nothing is under way; a connection has its snapshot first and deltas      *)
(* after it, and the last of them that tells of an object tells of it as its *)
(* instance holds it.                                                        *)
Quiet == ~deployment.shared => publishing = {} /\ \A i \in Instances : relays[i] = <<>>
NoneJoining == ~deployment.slow => \A c \in Clients : conn[c].at # "joining"

Tells(c, o, n) ==
  /\ n = 1 \/ sent[c][n].versions[o] > 0
  /\ \A m \in DOMAIN sent[c] : m > n => sent[c][m].versions[o] = 0
  /\ sent[c][n].versions[o] = state[conn[c].home][o]

Shows(c) ==
  Connected(c) =>
    /\ sent[c] # <<>>
    /\ \A n \in DOMAIN sent[c] : sent[c][n].kind = "snapshot" <=> n = 1
    /\ \A o \in Objects : \E n \in DOMAIN sent[c] : Tells(c, o, n)

ShownInv ==
  /\ Quiet /\ NoneJoining
  /\ ~deployment.shared /\ ~deployment.slow => \A c \in Clients : Shows(c)

LEMMA QuietStep == TypeOK /\ Quiet /\ NoneJoining /\ [Next]_vars => deployment' = deployment /\ Quiet' /\ NoneJoining'
<1> SUFFICES ASSUME TypeOK, Quiet, NoneJoining, [Next]_vars PROVE deployment' = deployment /\ Quiet' /\ NoneJoining'
  OBVIOUS
<1>1. ASSUME NEW i \in Instances, NEW updated \in SUBSET Objects, Ingest(i, updated)
      PROVE  deployment' = deployment /\ Quiet' /\ NoneJoining'
  <2>1. UNCHANGED <<deployment, relays, conn>> /\ (~deployment.shared => publishing' = publishing)
    BY <1>1, IngestFields DEF Ingest
  <2> QED BY <2>1 DEF Quiet, NoneJoining
<1>2. ASSUME NEW p \in publishing, Store(p) \/ Published(p) \/ PublishFails(p)
      PROVE  deployment' = deployment /\ Quiet' /\ NoneJoining'
  <2>1. UNCHANGED <<deployment, conn>> /\ deployment.shared
    BY <1>2 DEF Quiet, Store, Published, PublishFails, objects, streams
  <2> QED BY <2>1 DEF Quiet, NoneJoining
<1>3. ASSUME NEW i \in Instances, NEW k \in 1..PoolMax, k <= Len(relays[i]), Relayed(i, k) \/ RelayFails(i, k)
      PROVE  deployment' = deployment /\ Quiet' /\ NoneJoining'
  <2>1. UNCHANGED <<deployment, conn>> /\ k \in 1..Len(relays[i])
    BY <1>3, RelayedFields
  <2>2. deployment.shared
    BY <2>1 DEF Quiet
  <2> QED BY <2>1, <2>2 DEF Quiet, NoneJoining
<1>4. ASSUME NEW i \in Instances, ListenerFails(i) PROVE deployment' = deployment /\ Quiet' /\ NoneJoining'
  BY <1>4 DEF ListenerFails, objects, streams, Quiet, NoneJoining
<1>5. ASSUME NEW c \in Clients, NEW i \in Instances, Connect(c, i)
      PROVE  deployment' = deployment /\ Quiet' /\ NoneJoining'
  <2>1. /\ UNCHANGED <<deployment, publishing, relays>>
        /\ \A d \in Clients \ {c} : conn'[d] = conn[d]
        /\ ~deployment.slow => conn'[c].at = "live"
    BY <1>5, ConnectFields
  <2> QED BY <2>1 DEF Quiet, NoneJoining
<1>6. ASSUME NEW c \in Clients, EvidenceRead(c) PROVE deployment' = deployment /\ Quiet' /\ NoneJoining'
  <2>1. /\ UNCHANGED <<deployment, publishing, relays>>
        /\ \A d \in Clients \ {c} : conn'[d] = conn[d]
        /\ conn'[c].at = "live"
    BY <1>6, EvidenceFields
  <2> QED BY <2>1 DEF Quiet, NoneJoining
<1>7. ASSUME NEW c \in Clients, Close(c) PROVE deployment' = deployment /\ Quiet' /\ NoneJoining'
  <2>1. /\ UNCHANGED <<deployment, publishing, relays>>
        /\ \A d \in Clients \ {c} : conn'[d] = conn[d]
        /\ conn'[c].at = "joining" => conn[c].at = "joining"
    BY <1>7, CloseFields
  <2> QED BY <2>1 DEF Quiet, NoneJoining
<1>8. CASE UNCHANGED vars
  BY <1>8 DEF vars, objects, bus, streams, Quiet, NoneJoining
<1> QED BY <1>1, <1>2, <1>3, <1>4, <1>5, <1>6, <1>7, <1>8 DEF Next

LEMMA ShowsSame ==
  ASSUME TypeOK, NEW c \in Clients, Shows(c), conn'[c] = conn[c], sent'[c] = sent[c],
         Connected(c) => state'[conn[c].home] = state[conn[c].home]
  PROVE  Shows(c)'
<1>1. Connected(c)' <=> Connected(c)
  BY DEF Connected
<1>2. \A o \in Objects, n \in DOMAIN sent[c] : Connected(c) /\ Tells(c, o, n) => Tells(c, o, n)'
  BY DEF Tells
<1> QED BY <1>1, <1>2 DEF Shows

LEMMA ShowsIngest ==
  ASSUME TypeOK, ~deployment.shared, NEW c \in Clients, Shows(c),
         NEW i \in Instances, NEW updated \in SUBSET Objects, Ingest(i, updated)
  PROVE  Shows(c)'
<1> DEFINE m == Delta(i, updated)
           s == sent[c]
<1>1. /\ m \in Messages /\ m.kind = "delta" /\ Emit(i, m)
      /\ \A o \in Objects : latest'[o] = IF o \in updated THEN latest[o] + 1 ELSE latest[o]
      /\ \A o \in Objects : state'[i][o] = IF o \in updated THEN latest'[o] ELSE state[i][o]
      /\ \A j \in Instances \ {i} : state'[j] = state[j]
      /\ \A o \in Objects : m.versions[o] = IF o \in updated THEN latest'[o] ELSE 0
      /\ conn' = conn
  <2>1. /\ m \in Messages
        /\ m.kind = "delta"
        /\ IF deployment.shared
           THEN publishing' = publishing \cup {[at |-> "storing", msg |-> m]} /\ sent' = sent
           ELSE Emit(i, m) /\ publishing' = publishing
        /\ \A o \in Objects : m.versions[o] = IF o \in updated THEN latest'[o] ELSE 0
    BY IngestFields DEF m
  <2>2. /\ \A o \in Objects : latest'[o] = IF o \in updated THEN latest[o] + 1 ELSE latest[o]
        /\ \A o \in Objects : state'[i][o] = IF o \in updated THEN latest'[o] ELSE state[i][o]
        /\ \A j \in Instances \ {i} : state'[j] = state[j]
    BY IngestFields
  <2>3. conn' = conn
    BY DEF Ingest
  <2> HIDE DEF m
  <2> QED BY <2>1, <2>2, <2>3
<1> HIDE DEF m, s
<1>2. sent'[c] = IF Subscribed(c, i) THEN Append(s, m) ELSE s
  BY <1>1, EmitFields DEF s
<1>3. CASE Connected(c) /\ conn[c].home = i
  <2>1. Subscribed(c, i) /\ s \in Seq(Messages) /\ s # <<>>
    BY <1>3, ConnectedFields DEF Shows, TypeOK, s
  <2>2. sent'[c] = Append(s, m)
    BY <1>2, <2>1
  <2> DEFINE t == sent'[c]
  <2>3. /\ Len(s) \in Nat \ {0} /\ DOMAIN s = 1..Len(s) /\ DOMAIN t = 1..(Len(s) + 1)
        /\ \A n \in 1..Len(s) : t[n] = s[n]
        /\ t[Len(s) + 1] = m
    BY <1>1, <2>1, <2>2, AppendFields
  <2> HIDE DEF t
  <2>4. \A n \in DOMAIN s : s[n].kind = "snapshot" <=> n = 1
    BY <1>3 DEF Shows, s
  <2>5. ASSUME NEW n \in DOMAIN t PROVE t[n].kind = "snapshot" <=> n = 1
    <3>1. CASE n \in 1..Len(s)
      BY <2>3, <2>4, <3>1
    <3>2. CASE n = Len(s) + 1
      BY <1>1, <2>3, <3>2
    <3> QED BY <2>3, <3>1, <3>2
  <2>6. ASSUME NEW o \in Objects PROVE \E n \in DOMAIN t : Tells(c, o, n)'
    <3>1. CASE o \in updated
      <4>1. m.versions[o] = latest'[o] /\ state'[i][o] = latest'[o] /\ latest'[o] = latest[o] + 1
        BY <1>1, <3>1
      <4>2. latest[o] \in Nat
        BY DEF TypeOK, Versions
      <4>3. \A k \in DOMAIN t : ~(k > Len(s) + 1)
        BY <2>3
      <4>4. Len(s) + 1 \in DOMAIN t
        BY <2>3
      <4> QED BY <1>1, <1>3, <2>3, <4>1, <4>2, <4>3, <4>4 DEF Tells, t
    <3>2. CASE o \notin updated
      <4>1. m.versions[o] = 0 /\ state'[i][o] = state[i][o]
        BY <1>1, <3>2
      <4>2. PICK n \in DOMAIN s : Tells(c, o, n)
        BY <1>3 DEF Shows, s
      <4>3. n \in DOMAIN t /\ t[n] = s[n]
        BY <2>3
      <4>4. ASSUME NEW k \in DOMAIN t, k > n PROVE t[k].versions[o] = 0
        <5>1. CASE k \in 1..Len(s)
          BY <2>3, <4>2, <4>4, <5>1 DEF Tells, s
        <5>2. CASE k = Len(s) + 1
          BY <2>3, <4>1, <5>2
        <5> QED BY <2>3, <5>1, <5>2
      <4> QED BY <1>1, <1>3, <4>1, <4>2, <4>3, <4>4 DEF Tells, s, t
    <3> QED BY <3>1, <3>2
  <2>7. t # <<>>
    BY <2>3
  <2> QED BY <2>5, <2>6, <2>7 DEF Shows, t
<1>4. CASE Connected(c) /\ conn[c].home # i
  <2>1. ~Subscribed(c, i) /\ conn[c].home \in Instances \ {i}
    BY <1>4, ConnectedFields
  <2> QED BY <1>1, <1>2, <2>1, ShowsSame DEF s
<1>5. CASE ~Connected(c)
  BY <1>1, <1>5 DEF Shows, Connected
<1> QED BY <1>3, <1>4, <1>5

LEMMA ShowsConnect ==
  ASSUME TypeOK, ~deployment.slow, NEW c \in Clients, NEW i \in Instances, Connect(c, i)
  PROVE  Shows(c)'
<1> DEFINE m == Snapshot(i, state[i])
<1>1. conn'[c].home = i /\ state' = state /\ sent' = [sent EXCEPT ![c] = <<m>>]
  BY ConnectFields
<1>2. m.kind = "snapshot" /\ m.versions = state[i]
  BY DEF Snapshot
<1> HIDE DEF m
<1>3. sent'[c] = <<m>>
  BY <1>1 DEF TypeOK
<1>4. DOMAIN sent'[c] = {1} /\ sent'[c][1] = m /\ sent'[c] # <<>>
  BY <1>3
<1>5. \A o \in Objects : Tells(c, o, 1)'
  BY <1>1, <1>2, <1>4 DEF Tells
<1> QED BY <1>2, <1>4, <1>5 DEF Shows

LEMMA ShownStep == TypeOK /\ ShownInv /\ [Next]_vars => ShownInv'
<1> SUFFICES ASSUME TypeOK, ShownInv, [Next]_vars PROVE ShownInv'
  OBVIOUS
<1>1. deployment' = deployment /\ Quiet' /\ NoneJoining'
  BY QuietStep DEF ShownInv
<1> SUFFICES ASSUME ~deployment.shared, ~deployment.slow, NEW c \in Clients PROVE Shows(c)'
  BY <1>1 DEF ShownInv
<1>2. Shows(c) /\ publishing = {} /\ \A i \in Instances : Len(relays[i]) = 0
  BY DEF ShownInv, Quiet
<1>3. ASSUME NEW i \in Instances, NEW updated \in SUBSET Objects, Ingest(i, updated) PROVE Shows(c)'
  BY <1>2, <1>3, ShowsIngest
<1>4. ASSUME NEW i \in Instances, ListenerFails(i) PROVE Shows(c)'
  BY <1>2, <1>4, ShowsSame DEF ListenerFails, objects, streams
<1>5. ASSUME NEW d \in Clients, NEW i \in Instances, Connect(d, i) PROVE Shows(c)'
  <2>1. CASE d = c
    BY <1>5, <2>1, ShowsConnect
  <2>2. CASE d # c
    BY <1>2, <1>5, <2>2, ConnectFields, ShowsSame
  <2> QED BY <2>1, <2>2
<1>6. ASSUME NEW d \in Clients PROVE ~EvidenceRead(d)
  BY DEF EvidenceRead, ShownInv, NoneJoining
<1>7. ASSUME NEW d \in Clients, Close(d) PROVE Shows(c)'
  <2>1. CASE d = c
    BY <1>7, <2>1, CloseFields DEF Shows, Connected
  <2>2. CASE d # c
    BY <1>2, <1>7, <2>2, CloseFields, ShowsSame
  <2> QED BY <2>1, <2>2
<1>8. CASE UNCHANGED vars
  BY <1>2, <1>8, ShowsSame DEF vars, objects, streams
<1>9. ASSUME NEW k \in 1..PoolMax PROVE ~(k <= 0)
  BY <1>9
<1> QED BY <1>2, <1>3, <1>4, <1>5, <1>6, <1>7, <1>8, <1>9 DEF Next

\* The last snapshot is the first message, and the last message that tells of
\* an object is the one the client shows.
LEMMA ShownIsTold ==
  ASSUME TypeOK, NEW c \in Clients, Connected(c), Shows(c)
  PROVE  Shown(c) = state[conn[c].home]
<1> DEFINE s == sent[c]
<1>1. /\ s \in Seq(Messages) /\ s # <<>> /\ DOMAIN s = 1..Len(s) /\ Len(s) \in Nat /\ 1 \in DOMAIN s
      /\ \A n \in DOMAIN s : s[n] \in Messages
  BY DEF TypeOK, Shows
<1>2. \A n \in DOMAIN s : s[n].kind = "snapshot" <=> n = 1
  BY DEF Shows
<1>3. LastSnapshot(c) = 1
  <2> DEFINE last(n) == s[n].kind = "snapshot" /\ \A m \in DOMAIN s : m > n => s[m].kind = "delta"
  <2>1. \A m \in DOMAIN s : s[m].kind = "snapshot" \/ s[m].kind = "delta"
    BY <1>1 DEF Messages
  <2>2. 1 \in DOMAIN s /\ last(1)
    BY <1>1, <1>2, <2>1
  <2>3. \A n \in DOMAIN s : last(n) => n = 1
    BY <1>2
  <2>4. LastSnapshot(c) = CHOOSE n \in DOMAIN s : last(n)
    BY DEF LastSnapshot
  <2> HIDE DEF last
  <2> QED BY <2>2, <2>3, <2>4
<1>4. ASSUME NEW o \in Objects PROVE Shown(c)[o] = state[conn[c].home][o]
  <2> DEFINE tells == {n \in DOMAIN s : n > 1 /\ s[n].versions[o] > 0} \cup {1}
  <2>1. PICK n \in DOMAIN s : Tells(c, o, n)
    BY DEF Shows
  <2>2. n \in tells
    BY <1>1, <2>1 DEF Tells
  <2>3. \A m \in tells : m <= n
    <3> SUFFICES ASSUME NEW m \in tells, m > n PROVE FALSE
      BY <1>1
    <3>1. m \in DOMAIN s /\ s[m].versions[o] = 0
      BY <1>1, <2>1 DEF Tells
    <3>2. m > 1 /\ s[m].versions[o] > 0
      BY <1>1
    <3> QED BY <3>1, <3>2
  <2>4. \A k \in tells : (\A m \in tells : m <= k) => k = n
    BY <1>1, <2>2, <2>3
  <2>5. Shown(c)[o] = s[CHOOSE k \in tells : \A m \in tells : m <= k].versions[o]
    BY <1>3 DEF Shown
  <2> HIDE DEF tells
  <2>6. (CHOOSE k \in tells : \A m \in tells : m <= k) = n
    BY <2>2, <2>3, <2>4
  <2> QED BY <2>1, <2>5, <2>6 DEF Tells
<1>5. Shown(c) = [o \in Objects |-> Shown(c)[o]]
  BY DEF Shown
<1>6. state[conn[c].home] = [o \in Objects |-> state[conn[c].home][o]]
  BY ConnectedFields DEF TypeOK, Versions
<1> HIDE DEF Shown
<1> QED BY <1>4, <1>5, <1>6

(* Without a shared bus and a history database a client that has read all    *)
(* it was sent shows the objects of its instance, whenever it connected.     *)
THEOREM ClientsShowCurrent == Spec => []ShowsCurrent
<1>1. Init => ShownInv
  <2> SUFFICES ASSUME Init PROVE ShownInv
    OBVIOUS
  <2>1. /\ \A c \in Clients : conn[c] = NoConn
        /\ publishing = {} /\ \A i \in Instances : relays[i] = <<>>
    BY DEF Init
  <2>2. \A c \in Clients : conn[c].at # "joining" /\ ~Connected(c)
    BY <2>1 DEF NoConn, Connected
  <2> QED BY <2>1, <2>2 DEF ShownInv, Quiet, NoneJoining, Shows
<1>2. TypeOK /\ ShownInv => ShowsCurrent
  BY ShownIsTold DEF ShownInv, ShowsCurrent
<1> QED BY <1>1, <1>2, StreamTypeInit, StreamTypeStep, ShownStep, PTL DEF Spec
=============================================================================
