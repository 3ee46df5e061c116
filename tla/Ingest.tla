------------------------------- MODULE Ingest --------------------------------
(***************************************************************************)
(* How canonical events are accepted: single events under an idempotency    *)
(* key, batches, and the poll of a flight data provider.  Accepting is one   *)
(* synchronous step; the answer waits until the deltas are published (with  *)
(* the PostgreSQL stream bus, by the database), and the key of a single     *)
(* event is remembered only then.                                           *)
(***************************************************************************)
EXTENDS Naturals, FiniteSets, Functions

CONSTANTS
  Ids,         \* event ids
  Contents,    \* what an event says; a hash tells any two apart
  Keys,        \* X-Idempotency-Key values
  Handlers,    \* requests and polls that may be in progress at once
  MaxAccepted  \* bound on accepted events

ASSUME IngestAssumption ==
  /\ MaxAccepted \in Nat
  /\ IsFiniteSet([id : Ids, content : Contents])

VARIABLES
  events,      \* state.events: ids accepted so far
  times,       \* how often each id was accepted: its points in the history
  polled,      \* how often each id was accepted from the provider
  idempotency, \* state.idempotency: key -> the event and its ingest id
  accepted,    \* number of acceptances, which serves as the ingest id
  req,         \* what each handler is doing
  answers,     \* 202 answers to single events
  refused,     \* 409 answers to single events
  raced        \* keys of two requests that were in progress at once

ingestVars == <<events, times, polled, idempotency, accepted, req, answers, refused, raced>>

Idle == [at |-> "idle"]
EventsOf == [id : Ids, content : Contents]
Never == [i \in Ids |-> 0]

IngestInit ==
  /\ events = {}
  /\ times = Never
  /\ polled = Never
  /\ idempotency = {}
  /\ accepted = 0
  /\ req = [h \in Handlers |-> Idle]
  /\ answers = {}
  /\ refused = {}
  /\ raced = {}

-----------------------------------------------------------------------------
\* acceptEvent() for each of a set of events: the id is recorded, the object
\* replaced and a history point added, whatever was there before.
AcceptEvents(es) ==
  LET n == [i \in Ids |-> Cardinality({e \in es : e.id = i})]
  IN /\ accepted + Cardinality(es) <= MaxAccepted
     /\ accepted' = accepted + Cardinality(es)
     /\ events' = events \cup {e.id : e \in es}
     /\ times' = [i \in Ids |-> times[i] + n[i]]

Entry(key, e, n) == [key |-> key, event |-> e, ingest |-> n]

\* Mutant: the key is remembered for the event, not for its content.
RefusedById(entry, e) == entry.event.id # e.id

\* The hash of a remembered event tells it from this one.
Refused(entry, e) == entry.event # e

\* Mutant: the answer is not kept for the key.
RememberNothing(key, e, n) ==
  /\ idempotency' = idempotency
  /\ answers' = answers \cup {Entry(key, e, n)}

\* The key is remembered with the answer, over what another request of the
\* same key has left there.
Remember(key, e, n) ==
  /\ idempotency' = {d \in idempotency : d.key # key} \cup {Entry(key, e, n)}
  /\ answers' = answers \cup {Entry(key, e, n)}

\* POST /api/v1/ingest/events with a valid event of an allowed source, under a
\* key that is remembered.
IngestKnown(key, e) ==
  /\ \E d \in idempotency :
       /\ d.key = key
       /\ IF Refused(d, e)
          THEN refused' = refused \cup {[key |-> key, event |-> e]} /\ UNCHANGED answers
          ELSE answers' = answers \cup {Entry(key, e, d.ingest)} /\ UNCHANGED refused
  /\ UNCHANGED <<events, times, polled, idempotency, accepted, req, raced>>

\* The same under any other key: accepted, the answer awaits the publication.
IngestNew(h, key, e) ==
  /\ req[h] = Idle
  /\ \A d \in idempotency : d.key # key
  /\ AcceptEvents({e})
  /\ req' = [req EXCEPT ![h] = [at |-> "publish", key |-> key, event |-> e,
                                ingest |-> accepted']]
  /\ raced' = raced \cup {r.key : r \in {q \in Range(req) : q.at = "publish" /\ q.key = key}}
  /\ UNCHANGED <<polled, idempotency, answers, refused>>

IngestPublished(h) ==
  /\ req[h].at = "publish"
  /\ Remember(req[h].key, req[h].event, req[h].ingest)
  /\ req' = [req EXCEPT ![h] = Idle]
  /\ UNCHANGED <<events, times, polled, accepted, refused, raced>>

\* POST /api/v1/ingest/batches: every valid item is accepted at once, also when
\* the batch has another one of the same id.
IngestBatch(es) ==
  /\ AcceptEvents(es)
  /\ UNCHANGED <<polled, idempotency, req, answers, refused, raced>>

-----------------------------------------------------------------------------
(* refreshFlightDataSource(): the interval starts a poll whether or not the  *)
(* previous one has answered; known events are left out of the answer.       *)

Poll(h) ==
  /\ req[h] = Idle
  /\ req' = [req EXCEPT ![h] = [at |-> "poll"]]
  /\ UNCHANGED <<events, times, polled, idempotency, accepted, answers, refused, raced>>

\* Mutant: the answer is taken as it comes.
NewUnchecked(es) == es

New(es) == {e \in es : e.id \notin events}

PollAnswered(h, es) ==
  /\ req[h].at = "poll"
  /\ AcceptEvents(New(es))
  /\ polled' = [i \in Ids |-> polled[i] + (IF \E e \in New(es) : e.id = i THEN 1 ELSE 0)]
  /\ req' = [req EXCEPT ![h] = Idle]
  /\ UNCHANGED <<idempotency, answers, refused, raced>>

PollFails(h) ==
  /\ req[h].at = "poll"
  /\ req' = [req EXCEPT ![h] = Idle]
  /\ UNCHANGED <<events, times, polled, idempotency, accepted, answers, refused, raced>>

\* The loop over an answer sees what it has accepted itself, so of several
\* events with one id only the first can be new.
Distinct == {es \in SUBSET EventsOf : \A d, e \in es : d.id = e.id => d = e}

IngestNext ==
  \/ \E key \in Keys, e \in EventsOf :
       IngestKnown(key, e) \/ \E h \in Handlers : IngestNew(h, key, e)
  \/ \E h \in Handlers : IngestPublished(h) \/ Poll(h) \/ PollFails(h)
  \/ \E es \in SUBSET EventsOf \ {{}} : IngestBatch(es)
  \/ \E h \in Handlers, es \in Distinct : PollAnswered(h, es)

IngestSpec == IngestInit /\ [][IngestNext]_ingestVars

-----------------------------------------------------------------------------
Entries == [key : Keys, event : EventsOf, ingest : 1..MaxAccepted]
PublishType == [at : {"publish"}, key : Keys, event : EventsOf, ingest : 1..MaxAccepted]

\* Every variable has its type.
IngestTypeOK ==
  /\ events \subseteq Ids
  /\ times \in [Ids -> Nat]
  /\ polled \in [Ids -> Nat]
  /\ idempotency \subseteq Entries
  /\ \A d, e \in idempotency : d.key = e.key => d = e
  /\ accepted \in 0..MaxAccepted
  /\ req \in [Handlers -> {Idle, [at |-> "poll"]} \cup PublishType]
  /\ answers \subseteq Entries
  /\ refused \subseteq [key : Keys, event : EventsOf]
  /\ raced \subseteq Keys

(* The contract: a key that was used with one content is refused with any    *)
(* other.  No two events are answered 202 under one key, unless their        *)
(* requests overlapped: the second finds the key before the first stores it. *)
KeyNamesOneEvent ==
  \A r, s \in answers : r.key = s.key /\ r.key \notin raced => r.event = s.event

(* A retry under the same key gets the first result, the ingest id included, *)
(* and is neither accepted again nor refused, also when polls and batches    *)
(* come between, but for a retry sent before the first request is answered.  *)
RetryGetsFirstResult ==
  \A r, s \in answers :
    r.key = s.key /\ r.event = s.event /\ r.key \notin raced =>
      r.ingest = s.ingest /\ [key |-> r.key, event |-> r.event] \notin refused

(* However many polls overlap, an event of the provider is accepted from     *)
(* them once, whatever requests and batches bring the same id meanwhile.     *)
PolledOnce == \A i \in Ids : polled[i] <= 1

(* The contract: the event id protects against duplicates.  It does not      *)
(* hold: a batch or another key accepts an id again.                         *)
IdAcceptedOnce == \A i \in Ids : times[i] <= 1
=============================================================================
