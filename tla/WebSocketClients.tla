--------------------------- MODULE WebSocketClients --------------------------
(***************************************************************************)
(* The WebSocket clients of the API (apps/api/main.py): the connection     *)
(* manager, the endpoint /ws/v1/live, the periodic tick, and the           *)
(* dispatcher that broadcasts every operational event                      *)
(* (services/events/dispatcher.py).                                        *)
(*                                                                         *)
(* Everything here runs on the event loop: a step is what happens between  *)
(* two awaits. A broadcast sends to one client after another and awaits    *)
(* each send; a reconnecting client is sent the events it missed, also one *)
(* at a time, while broadcasts go on and clients come and go.              *)
(***************************************************************************)
EXTENDS Integers, Sequences, FiniteSets, SequencesExt

CONSTANTS
    Sockets,      \* connections; one that has ended is not used again
    Capacity,     \* 100 connections
    Gap,          \* 50 versions behind: a snapshot is sent instead
    ReplayLimit,  \* 50 events are sent to a client that catches up
    MaxVersion,   \* bound: the state version
    MaxStored     \* bound: events stored

ASSUME ClientsAssumption ==
    /\ Capacity \in Nat /\ Gap \in Nat /\ ReplayLimit \in Nat \ {0}
    /\ MaxVersion \in Nat /\ MaxStored \in Nat

VARIABLES
    phase,     \* socket -> how far its endpoint is
    gone,      \* the sockets whose peer can no longer be sent to
    active,    \* active_connections
    version,   \* current_state_manager.state_version
    log,       \* the versions of the store's events, 0 for none
    casts,     \* event -> its broadcast, Periodic -> the periodic one's sends
    catching,  \* socket -> the events its endpoint has still to send
    since,     \* history: socket -> the version it has caught up from
    inbox      \* history: socket -> the events it was sent

clientVars == <<phase, gone, active, version, log, casts, catching, since, inbox>>

Periodic == 0
Behind == -1          \* since, of a client that has asked for nothing yet
Messages == {Periodic} \cup 1 .. MaxStored
Cast == [at : {"none", "queued", "sending"}, todo : Seq(Sockets)]
NoCast == [at |-> "none", todo |-> <<>>]

ClientsTypeOK ==
    /\ phase \in [Sockets -> {"new", "accepting", "open", "closed"}]
    /\ gone \subseteq Sockets
    /\ active \in Seq(Sockets)
    /\ version \in Nat
    /\ log \in Seq(Nat)
    /\ casts \in [Messages -> Cast]
    /\ catching \in [Sockets -> SUBSET (Messages \ {Periodic})]
    /\ since \in [Sockets -> Nat \cup {Behind}]
    /\ inbox \in [Sockets -> SUBSET (Messages \ {Periodic})]

ClientsInit ==
    /\ phase = [s \in Sockets |-> "new"]
    /\ gone = {} /\ active = <<>>
    /\ version = 0 /\ log = <<>>
    /\ casts = [m \in Messages |-> NoCast]
    /\ catching = [s \in Sockets |-> {}]
    /\ since = [s \in Sockets |-> Behind]
    /\ inbox = [s \in Sockets |-> {}]
-----------------------------------------------------------------------------
Listed(s) == s \in Range(active)

(* disconnect: a socket is listed at most once.                             *)
Unlisted(s) ==
    IF Listed(s) THEN RemoveAt(active, CHOOSE i \in DOMAIN active : active[i] = s)
                 ELSE active

(* The limit is tested, then accept is awaited                              *)
Arrive(s) ==
    /\ phase[s] = "new"
    /\ phase' = [phase EXCEPT ![s] =
                     IF Len(active) >= Capacity THEN "closed" ELSE "accepting"]
    /\ UNCHANGED <<gone, active, version, log, casts, catching, since, inbox>>

Accept(s) ==
    /\ phase[s] = "accepting"
    /\ phase' = [phase EXCEPT ![s] = "open"]
    /\ active' = Append(active, s)
    /\ UNCHANGED <<gone, version, log, casts, catching, since, inbox>>

(* accept raises: the endpoint ends before the socket is listed             *)
AcceptFails(s) ==
    /\ phase[s] = "accepting" /\ s \in gone
    /\ phase' = [phase EXCEPT ![s] = "closed"]
    /\ UNCHANGED <<gone, active, version, log, casts, catching, since, inbox>>

(* receive_text raises: WebSocketDisconnect unlists the socket, another     *)
(* exception leaves it to the next broadcast                                *)
EndpointEnds(s) ==
    /\ phase[s] = "open" /\ s \in gone /\ catching[s] = {}
    /\ phase' = [phase EXCEPT ![s] = "closed"]
    /\ active' \in {active, Unlisted(s)}
    /\ UNCHANGED <<gone, version, log, casts, catching, since, inbox>>

(* The peer: external. What it was sent no longer matters.                  *)
PeerLeaves(s) ==
    /\ phase[s] \in {"accepting", "open"} /\ s \notin gone
    /\ gone' = gone \cup {s}
    /\ since' = [since EXCEPT ![s] = Behind]
    /\ inbox' = [inbox EXCEPT ![s] = {}]
    /\ UNCHANGED <<phase, active, version, log, casts, catching>>
-----------------------------------------------------------------------------
(* State changes and events, as the rest of the program makes them. An      *)
(* event carries the version it was made at, or none; once it is stored     *)
(* _on_event_for_websocket becomes a task, unless the bus sheds the event.  *)
NewVersion ==
    /\ version < MaxVersion
    /\ version' = version + 1
    /\ UNCHANGED <<phase, gone, active, log, casts, catching, since, inbox>>

StoreEvent(v, shed) ==
    /\ Len(log) < MaxStored
    /\ log' = Append(log, v)
    /\ casts' = [casts EXCEPT ![Len(log) + 1].at = IF shed THEN "none" ELSE "queued"]
    /\ UNCHANGED <<phase, gone, active, version, catching, since, inbox>>

(* periodic_broadcast has slept and is done with its last message: from      *)
(* there to the first send nothing is awaited.                               *)
PeriodicDue ==
    /\ casts[Periodic].todo = <<>>
    /\ casts' = [casts EXCEPT ![Periodic].todo = active]
    /\ UNCHANGED <<phase, gone, active, version, log, catching, since, inbox>>

(* broadcast iterates over a copy of the list                               *)
StartCast(m) ==
    /\ casts[m].at = "queued"
    /\ casts' = [casts EXCEPT ![m] = [at |-> "sending", todo |-> active]]
    /\ UNCHANGED <<phase, gone, active, version, log, catching, since, inbox>>

(* Mutant: broadcast iterates over the list itself, which a failing send    *)
(* shortens under it: the next client is passed over.                       *)
SendSkipping(m) ==
    LET s == Head(casts[m].todo)
        rest == Tail(casts[m].todo)
    IN  /\ casts[m].todo # <<>>
        /\ IF s \in gone
           THEN /\ active' = Unlisted(s)
                /\ casts' = [casts EXCEPT ![m].todo =
                                 IF rest = <<>> THEN rest ELSE Tail(rest)]
                /\ UNCHANGED inbox
           ELSE /\ inbox' = [inbox EXCEPT ![s] = @ \cup ({m} \ {Periodic})]
                /\ casts' = [casts EXCEPT ![m].todo = rest]
                /\ UNCHANGED active
        /\ UNCHANGED <<phase, gone, version, log, catching, since>>

(* A send that raises unlists the client and the broadcast goes on          *)
Send(m) ==
    LET s == Head(casts[m].todo)
    IN  /\ casts[m].todo # <<>>
        /\ casts' = [casts EXCEPT ![m].todo = Tail(@)]
        /\ IF s \in gone
           THEN active' = Unlisted(s) /\ UNCHANGED inbox
           ELSE inbox' = [inbox EXCEPT ![s] = @ \cup ({m} \ {Periodic})] /\ UNCHANGED active
        /\ UNCHANGED <<phase, gone, version, log, catching, since>>
-----------------------------------------------------------------------------
(* event_store.query(since_version = v, limit): the newest; an event        *)
(* without a version is never found                                         *)
Newer(v) == {i \in DOMAIN log : log[i] > v}

Missed(v) ==
    {i \in Newer(v) : Cardinality({j \in Newer(v) : j > i}) < ReplayLimit}

(* SYNC_STATE of a client that saw version v last: asked for when it has     *)
(* connected again, until it has caught up. With more than the limit *)
(* to send the oldest are left out, and nothing says so: since stays what   *)
(* it was.                                                                  *)
SyncState(s, v) ==
    /\ phase[s] = "open" /\ catching[s] = {} /\ since[s] = Behind
    /\ IF version - v > Gap
       THEN \* the snapshot is one send
            /\ since' = [since EXCEPT ![s] = IF s \in gone THEN @ ELSE version]
            /\ UNCHANGED catching
       ELSE /\ catching' = [catching EXCEPT ![s] = Missed(v)]
            /\ since' = [since EXCEPT ![s] =
                   IF Cardinality(Newer(v)) > ReplayLimit THEN @ ELSE v]
    /\ UNCHANGED <<phase, gone, active, version, log, casts, inbox>>

(* The newest first; a send that raises drops the rest                      *)
SendMissed(s) ==
    /\ catching[s] # {}
    /\ IF s \in gone
       THEN catching' = [catching EXCEPT ![s] = {}] /\ UNCHANGED inbox
       ELSE \E i \in catching[s] :
                /\ \A j \in catching[s] : j <= i
                /\ catching' = [catching EXCEPT ![s] = @ \ {i}]
                /\ inbox' = [inbox EXCEPT ![s] = @ \cup {i}]
    /\ UNCHANGED <<phase, gone, active, version, log, casts, since>>

ClientsNext ==
    \/ NewVersion
    \/ \E v \in 0 .. version, shed \in BOOLEAN : StoreEvent(v, shed)
    \/ PeriodicDue
    \/ \E m \in Messages : StartCast(m) \/ Send(m)
    \/ \E s \in Sockets :
           \/ Arrive(s) \/ Accept(s) \/ AcceptFails(s)
           \/ EndpointEnds(s) \/ PeerLeaves(s) \/ SendMissed(s)
           \/ \E v \in 0 .. version : SyncState(s, v)

ClientsSpec == ClientsInit /\ [][ClientsNext]_clientVars
-----------------------------------------------------------------------------
(* The event was sent to the client or is on its way: in what its endpoint  *)
(* sends, in a broadcast not begun, in one that has the client before it.   *)
Reaches(i, s) ==
    \/ i \in inbox[s]
    \/ i \in catching[s]
    \/ casts[i].at = "queued" /\ Listed(s)
    \/ s \in Range(casts[i].todo)

(* A client that is still there and caught up from a version, or was sent a *)
(* snapshot of one, misses no later event that the bus made a task of: not  *)
(* one stored while it was catching up, and not because another client of   *)
(* the same broadcast has left.                                             *)
NothingMissed ==
    \A s \in Sockets : phase[s] = "open" /\ s \notin gone /\ since[s] # Behind =>
        \A i \in Newer(since[s]) : casts[i].at # "none" => Reaches(i, s)
=============================================================================
