----------------------------- MODULE LiveStream ------------------------------
(***************************************************************************)
(* The live stream of current tracks.  Every COP API instance keeps its own *)
(* objects in memory; an update becomes a delta that goes through the       *)
(* stream bus to the event streams of its clients, and with the PostgreSQL  *)
(* bus to the other instances as well.  A client gets a snapshot when it    *)
(* connects; a snapshot replaces what it shows, a delta is merged into it.  *)
(***************************************************************************)
EXTENDS Naturals, Sequences

CONSTANTS
  Instances,   \* API processes
  Objects,     \* tracks
  Clients,     \* event stream connections
  Deployments, \* configurations to consider: shared is TRUE with
               \* COP_STREAM_BUS=postgres and FALSE with memory, slow is TRUE
               \* when a snapshot awaits the track history database
  PoolMax,     \* connections of the bus (COP_STREAM_BUS_POOL_MAX)
  MaxVersion,  \* bound on the updates of an object
  MaxFaults    \* bound on errors of the bus

ASSUME StreamAssumption ==
  /\ Deployments \subseteq [shared : BOOLEAN, slow : BOOLEAN]
  /\ PoolMax \in Nat \ {0}
  /\ MaxVersion \in Nat
  /\ MaxFaults \in Nat

VARIABLES
  deployment, \* the configuration all instances run with
  latest,     \* updates of each object so far, at any instance
  state,      \* state.objects of each instance: the update it holds, 0 if none
  sequence,   \* message counter of each instance's broadcaster
  publishing, \* deltas whose publish() awaits the database
  relays,     \* notifications each instance is handling, in their order
  listening,  \* the LISTEN connection of the instance works
  ready,      \* the bus reports ready
  conn,       \* the route handler of each connection
  sent,       \* messages written to each connection
  faults

objects == <<latest, state, sequence>>
bus == <<publishing, relays, listening, ready>>
streams == <<conn, sent>>
vars == <<deployment, objects, bus, streams, faults>>

NoConn == [at |-> "none"]
Nothing == [o \in Objects |-> 0]

Init ==
  /\ deployment \in Deployments
  /\ latest = Nothing
  /\ state = [i \in Instances |-> Nothing]
  /\ sequence = [i \in Instances |-> 0]
  /\ publishing = {}
  /\ relays = [i \in Instances |-> <<>>]
  /\ listening = [i \in Instances |-> deployment.shared]
  /\ ready = [i \in Instances |-> TRUE]
  /\ conn = [c \in Clients |-> NoConn]
  /\ sent = [c \in Clients |-> <<>>]
  /\ faults = 0

-----------------------------------------------------------------------------
(* The broadcaster hands a message to every subscriber of the instance.  A   *)
(* connection is subscribed before its snapshot is read; one that is closed  *)
(* is written nothing.                                                       *)

\* Mutant: the subscription starts with the snapshot.
SubscribedLate(c, i) == conn[c].at = "live" /\ conn[c].home = i /\ conn[c].open

Subscribed(c, i) ==
  conn[c].at \in {"joining", "live"} /\ conn[c].home = i /\ conn[c].open

Emit(i, m) ==
  sent' = [c \in Clients |-> IF Subscribed(c, i) THEN Append(sent[c], m) ELSE sent[c]]

\* Mutant: the delta is made but its publish() is not called in memory mode.
PublishShared(m) ==
  /\ publishing' = IF deployment.shared THEN publishing \cup {[at |-> "storing", msg |-> m]}
                   ELSE publishing
  /\ UNCHANGED sent

\* streamBus.publish(): in memory at once, otherwise after the database.
Publish(m) ==
  IF deployment.shared
  THEN publishing' = publishing \cup {[at |-> "storing", msg |-> m]} /\ UNCHANGED sent
  ELSE Emit(m.from, m) /\ UNCHANGED publishing

\* Accepted events replace their objects, then publishCurrentTracks().
Ingest(i, updated) ==
  /\ \A o \in updated : latest[o] < MaxVersion
  /\ latest' = [o \in Objects |-> IF o \in updated THEN latest[o] + 1 ELSE latest[o]]
  /\ state' = [state EXCEPT ![i] = [o \in Objects |-> IF o \in updated THEN latest'[o] ELSE @[o]]]
  /\ sequence' = [sequence EXCEPT ![i] = @ + 1]
  /\ Publish([kind |-> "delta", from |-> i, seq |-> sequence'[i],
              versions |-> [o \in Objects |-> IF o \in updated THEN latest'[o] ELSE 0]])
  /\ UNCHANGED <<deployment, relays, listening, ready, conn, faults>>

-----------------------------------------------------------------------------
(* PostgresCopStreamBus.publish(): insert the event and notify, then emit to *)
(* the subscribers of this process, also when the database failed.           *)

Store(p) ==
  /\ p.at = "storing"
  /\ publishing' = (publishing \ {p}) \cup {[p EXCEPT !.at = "stored"]}
  /\ relays' = [i \in Instances |->
       IF listening[i] THEN Append(relays[i], p.msg) ELSE relays[i]]
  /\ UNCHANGED <<deployment, objects, listening, ready, streams, faults>>

Published(p) ==
  /\ p.at = "stored"
  /\ publishing' = publishing \ {p}
  /\ ready' = [ready EXCEPT ![p.msg.from] = TRUE]
  /\ Emit(p.msg.from, p.msg)
  /\ UNCHANGED <<deployment, objects, relays, listening, conn, faults>>

\* Mutant: an error ends publish() before the local delivery.
PublishFailsSilently(p) ==
  /\ faults < MaxFaults
  /\ faults' = faults + 1
  /\ publishing' = publishing \ {p}
  /\ ready' = [ready EXCEPT ![p.msg.from] = FALSE]
  /\ UNCHANGED <<deployment, objects, relays, listening, streams>>

PublishFails(p) ==
  /\ faults < MaxFaults
  /\ faults' = faults + 1
  /\ publishing' = publishing \ {p}
  /\ ready' = [ready EXCEPT ![p.msg.from] = FALSE]
  /\ Emit(p.msg.from, p.msg)
  /\ UNCHANGED <<deployment, objects, relays, listening, conn>>

(* handleNotification(): select the event; the selects of the notifications  *)
(* under way may answer in another order.  An instance ignores its own.      *)

\* Mutant: an answer is taken for that of the oldest notification.
WithoutOldest(s, k) == Tail(s)

Without(s, k) == SubSeq(s, 1, k - 1) \o SubSeq(s, k + 1, Len(s))

\* Mutant: the own event is emitted once more.
RelayedWithEcho(i, k) ==
  /\ relays' = [relays EXCEPT ![i] = Without(@, k)]
  /\ ready' = [ready EXCEPT ![i] = TRUE]
  /\ Emit(i, relays[i][k])
  /\ UNCHANGED <<deployment, objects, publishing, listening, conn, faults>>

Relayed(i, k) ==
  /\ relays' = [relays EXCEPT ![i] = Without(@, k)]
  /\ IF relays[i][k].from = i
     THEN UNCHANGED <<ready, sent>>
     ELSE Emit(i, relays[i][k]) /\ ready' = [ready EXCEPT ![i] = TRUE]
  /\ UNCHANGED <<deployment, objects, publishing, listening, conn, faults>>

RelayFails(i, k) ==
  /\ faults < MaxFaults
  /\ faults' = faults + 1
  /\ relays' = [relays EXCEPT ![i] = Without(@, k)]
  /\ ready' = [ready EXCEPT ![i] = FALSE]
  /\ UNCHANGED <<deployment, objects, publishing, listening, streams>>

\* The listener's connection is lost; nothing opens another one.
ListenerFails(i) ==
  /\ listening[i]
  /\ faults < MaxFaults
  /\ faults' = faults + 1
  /\ listening' = [listening EXCEPT ![i] = FALSE]
  /\ ready' = [ready EXCEPT ![i] = FALSE]
  /\ UNCHANGED <<deployment, objects, publishing, relays, streams>>

-----------------------------------------------------------------------------
(* GET /api/v1/stream/cop/live: subscribe, choose the objects, read their    *)
(* conflict evidence, and only then write the snapshot.                      *)

Snapshot(i, versions) ==
  [kind |-> "snapshot", from |-> i, seq |-> sequence'[i], versions |-> versions]

Connect(c, i) ==
  /\ conn[c] = NoConn
  /\ IF deployment.slow
     THEN /\ conn' = [conn EXCEPT ![c] = [at |-> "joining", home |-> i, open |-> TRUE,
                                          chosen |-> state[i], since |-> latest]]
          /\ UNCHANGED <<sequence, sent>>
     ELSE /\ conn' = [conn EXCEPT ![c] = [at |-> "live", home |-> i, open |-> TRUE,
                                          chosen |-> state[i], since |-> latest]]
          /\ sequence' = [sequence EXCEPT ![i] = @ + 1]
          /\ sent' = [sent EXCEPT ![c] = <<Snapshot(i, state[i])>>]
  /\ UNCHANGED <<deployment, latest, state, bus, faults>>

EvidenceRead(c) ==
  /\ conn[c].at = "joining"
  /\ conn' = [conn EXCEPT ![c].at = "live"]
  /\ LET i == conn[c].home
     IN /\ sequence' = [sequence EXCEPT ![i] = @ + 1]
        /\ sent' = IF conn[c].open
                   THEN [sent EXCEPT ![c] = Append(@, Snapshot(i, conn[c].chosen))]
                   ELSE sent
  /\ UNCHANGED <<deployment, latest, state, bus, faults>>

\* The client goes.  The handler that ends the subscription is installed
\* after the snapshot was written.
Close(c) ==
  /\ conn[c].at \in {"joining", "live"}
  /\ conn[c].open
  /\ conn' = [conn EXCEPT ![c].open = FALSE,
                          ![c].at = IF @ = "live" THEN "ended" ELSE @]
  /\ UNCHANGED <<deployment, objects, bus, sent, faults>>

-----------------------------------------------------------------------------
Next ==
  \/ \E i \in Instances, updated \in SUBSET Objects \ {{}} : Ingest(i, updated)
  \/ \E p \in publishing : Store(p) \/ Published(p) \/ PublishFails(p)
  \/ \E i \in Instances, k \in 1..PoolMax :
       k <= Len(relays[i]) /\ (Relayed(i, k) \/ RelayFails(i, k))
  \/ \E i \in Instances : ListenerFails(i)
  \/ \E c \in Clients, i \in Instances : Connect(c, i)
  \/ \E c \in Clients : EvidenceRead(c) \/ Close(c)

Spec == Init /\ [][Next]_vars

-----------------------------------------------------------------------------
Versions == [Objects -> 0..MaxVersion]
Messages == [kind : {"snapshot", "delta"}, from : Instances, seq : Nat, versions : Versions]
Connections == [at : {"joining", "live", "ended"}, home : Instances, open : BOOLEAN,
                chosen : Versions, since : Versions]

\* Every variable has its type.
TypeOK ==
  /\ deployment \in Deployments
  /\ latest \in Versions
  /\ state \in [Instances -> Versions]
  /\ sequence \in [Instances -> Nat]
  /\ publishing \subseteq [at : {"storing", "stored"}, msg : Messages]
  /\ relays \in [Instances -> Seq(Messages)]
  /\ listening \in [Instances -> BOOLEAN]
  /\ ready \in [Instances -> BOOLEAN]
  /\ conn \in [Clients -> {NoConn} \cup Connections]
  /\ sent \in [Clients -> Seq(Messages)]
  /\ faults \in 0..MaxFaults

Connected(c) == conn[c].at \in {"joining", "live"} /\ conn[c].open

(* What a client shows when it has read all it was sent: the last snapshot,  *)
(* and for each object the last delta after it.                              *)
LastSnapshot(c) ==
  CHOOSE n \in DOMAIN sent[c] :
    /\ sent[c][n].kind = "snapshot"
    /\ \A m \in DOMAIN sent[c] : m > n => sent[c][m].kind = "delta"

Shown(c) ==
  [o \in Objects |->
    LET tellsOf == {n \in DOMAIN sent[c] : n > LastSnapshot(c) /\ sent[c][n].versions[o] > 0}
                     \cup {LastSnapshot(c)}
    IN sent[c][CHOOSE n \in tellsOf : \A m \in tellsOf : m <= n].versions[o]]

(* Without a shared bus and a history database a client that has read all   *)
(* it was sent shows exactly the objects of its instance, whenever it        *)
(* connected.                                                                *)
ShowsCurrent ==
  ~deployment.shared /\ ~deployment.slow =>
    \A c \in Clients :
      Connected(c) /\ conn[c].at = "live" => Shown(c) = state[conn[c].home]

(* The versions of an object a connection was sent, or will be.              *)
Coming(c, o) ==
  LET home == conn[c].home
  IN {sent[c][n].versions[o] : n \in DOMAIN sent[c]}
     \cup (IF conn[c].at = "joining" THEN {conn[c].chosen[o]} ELSE {})
     \cup {p.msg.versions[o] : p \in {q \in publishing : q.msg.from = home}}

FromAfar(c, o) ==
  {p.msg.versions[o] : p \in {q \in publishing : q.at = "storing"}}
    \cup {relays[conn[c].home][n].versions[o] : n \in DOMAIN relays[conn[c].home]}

LocalReaches(c, o) == state[conn[c].home][o] \in Coming(c, o) \cup {0}

FanOutReaches(c, o) ==
  latest[o] > conn[c].since[o] => latest[o] \in Coming(c, o) \cup FromAfar(c, o)

(* No client misses the state of an object its own instance holds, neither   *)
(* the one it connected to nor any later one: between the choice of the      *)
(* objects and the snapshot, and when the database of the bus fails.         *)
(* Without errors of a shared bus, an update made at any instance after a    *)
(* client connected reaches it too, however inserts, notifications and       *)
(* selects race.                                                             *)
UpdatesReach ==
  \A c \in Clients, o \in Objects :
    Connected(c) =>
      /\ LocalReaches(c, o)
      /\ deployment.shared /\ faults = 0 => FanOutReaches(c, o)

(* The instance suppresses the echo of its own events: no connection is sent *)
(* a delta twice.                                                            *)
NoEcho ==
  \A c \in Clients : \A m, n \in DOMAIN sent[c] :
    m # n => <<sent[c][m].from, sent[c][m].seq>> # <<sent[c][n].from, sent[c][n].seq>>

(* The contract: "after connecting the server sends the snapshot, then       *)
(* deltas".  It does not hold on a slow deployment.                          *)
DeltasFollowSnapshot ==
  \A c \in Clients : sent[c] # <<>> => Head(sent[c]).kind = "snapshot"

(* The contract: every message carries a monotone sequence.  It does not     *)
(* hold on a shared bus.                                                     *)
SequenceGrows ==
  \A c \in Clients : \A m, n \in DOMAIN sent[c] :
    m < n => sent[c][m].seq < sent[c][n].seq

(* The runbook: the state of the bus is visible in /health/dependencies.  It *)
(* does not hold after ListenerFails.                                        *)
ReadyMeansListening ==
  deployment.shared => \A i \in Instances : ready[i] => listening[i]

(* The contract: the health endpoint returns the number of connected         *)
(* clients, which is the number of subscribers.  It does not hold on a slow  *)
(* deployment.                                                               *)
ClientCount == \A c \in Clients : conn[c].at = "live" => conn[c].open
=============================================================================
