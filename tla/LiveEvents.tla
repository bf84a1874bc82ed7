------------------------------ MODULE LiveEvents ------------------------------
(***************************************************************************)
(* The server process and the streams of server-sent events it holds open: *)
(* server.ts, sse.routes.ts, sseManager.ts, for one tenant.                *)
(*                                                                         *)
(* The process is single threaded: a handler up to its next await is one   *)
(* action. A stream ends when its connection breaks; the process learns of *)
(* it later, from the close event. A shutdown waits for the open           *)
(* connections, and a timer puts an end to the wait. The heartbeat of a    *)
(* stream changes nothing and is left out.                                 *)
(***************************************************************************)
EXTENDS Integers

CONSTANTS
  Streams,          \* connections of terminals
  Locations

VARIABLES
  server,           \* how far the process is in its life
  exitCode,         \* of process.exit, NoCode before
  stream,           \* what the process knows or is yet to learn of each stream
  place,            \* the location a stream is for
  clients,          \* sseManager's streams of each location
  tenantClients     \* sseManager's streams of the tenant

liveVars == <<server, exitCode, stream, place, clients, tenantClients>>

-----------------------------------------------------------------------------

NoCode == -1

\* "closing" waits for connections, "quitting" has closed the database.
LiveTypeOK ==
  /\ server \in {"running", "closing", "quitting", "exited"}
  /\ exitCode \in {NoCode, 0, 1}
  /\ stream \in [Streams -> {"away", "open", "broken"}]
  /\ place \in [Streams -> Locations]
  /\ clients \in [Locations -> SUBSET Streams]
  /\ tenantClients \subseteq Streams

LiveInit ==
  /\ server = "running"
  /\ exitCode = NoCode
  /\ stream = [c \in Streams |-> "away"]
  /\ place \in [Streams -> Locations]
  /\ clients = [l \in Locations |-> {}]
  /\ tenantClients = {}

Up == server # "exited"

-----------------------------------------------------------------------------
(* Streams. *)

RegisterClient(c, l) ==
  /\ clients' = [clients EXCEPT ![l] = @ \cup {c}]
  /\ tenantClients' = tenantClients \cup {c}

Connect(c, l) ==
  /\ server = "running"
  /\ stream[c] = "away"
  /\ stream' = [stream EXCEPT ![c] = "open"]
  /\ place' = [place EXCEPT ![c] = l]
  /\ RegisterClient(c, l)
  /\ UNCHANGED <<server, exitCode>>

\* The terminal or the network closes the connection.
Break(c) ==
  /\ stream[c] = "open"
  /\ stream' = [stream EXCEPT ![c] = "broken"]
  /\ UNCHANGED <<server, exitCode, place, clients, tenantClients>>

\* Mutant: the stream is only taken off its location.
RemoveFromLocation(c, l) ==
  /\ clients' = [clients EXCEPT ![l] = @ \ {c}]
  /\ UNCHANGED tenantClients

RemoveClient(c, l) ==
  /\ clients' = [clients EXCEPT ![l] = @ \ {c}]
  /\ tenantClients' = tenantClients \ {c}

\* A broadcast is written to every stream of a table; a write that fails is logged
\* and takes nobody off it.
Reached(S) == {c \in S : stream[c] = "open"}
BroadcastNotification == Reached(tenantClients)
BroadcastToLocation(l) == Reached(clients[l])

\* The close event; the error event does the same.
Closed(c) ==
  /\ Up
  /\ stream[c] = "broken"
  /\ RemoveClient(c, place[c])
  /\ stream' = [stream EXCEPT ![c] = "away"]
  /\ UNCHANGED <<server, exitCode, place>>

-----------------------------------------------------------------------------
(* The life of the process. *)

\* A new process, which knows nothing of the streams of the last one.
StartServer ==
  /\ server = "exited"
  /\ server' = "running"
  /\ exitCode' = NoCode
  /\ UNCHANGED <<stream, place, clients, tenantClients>>

\* SIGTERM, SIGINT or an uncaught exception; later ones are ignored.
Shutdown ==
  /\ server = "running"
  /\ server' = "closing"
  /\ UNCHANGED <<exitCode, stream, place, clients, tenantClients>>

\* The callback of server.close runs when the last connection has gone; it
\* disconnects the database, which may fail.
CloseServer(failed) ==
  /\ server = "closing"
  /\ \A c \in Streams : stream[c] # "open"
  /\ server' = "quitting"
  /\ exitCode' = IF failed THEN 1 ELSE NoCode
  /\ UNCHANGED <<stream, place, clients, tenantClients>>

\* The end of the process takes its streams and its memory with it.
Exit(code) ==
  /\ server' = "exited"
  /\ exitCode' = code
  /\ stream' = [c \in Streams |-> "away"]
  /\ clients' = [l \in Locations |-> {}]
  /\ tenantClients' = {}
  /\ UNCHANGED place

\* Redis is left, and the process with it.
Quit(failed) ==
  /\ server = "quitting"
  /\ Exit(IF failed \/ exitCode = 1 THEN 1 ELSE 0)

\* Mutant: the timer waits for the connections as well.
TimerWaits == \A c \in Streams : stream[c] = "away"

TimerFires == TRUE

\* The ten seconds are over.
ForceExit ==
  /\ server \in {"closing", "quitting"}
  /\ TimerFires
  /\ Exit(1)

LiveNext ==
  \/ \E c \in Streams, l \in Locations : Connect(c, l)
  \/ \E c \in Streams : Break(c) \/ Closed(c)
  \/ StartServer \/ Shutdown
  \/ \E failed \in BOOLEAN : CloseServer(failed) \/ Quit(failed)
  \/ ForceExit

-----------------------------------------------------------------------------
(* Properties. *)

\* The streams known to a location and to the tenant are the same, those that
\* are open or whose end is not known yet: a broadcast of either kind reaches every
\* open stream it is for and no other, and no dead stream is kept.
StreamsAgree ==
  /\ \A c \in Streams, l \in Locations :
       /\ c \in clients[l] <=> stream[c] # "away" /\ place[c] = l
       /\ c \in tenantClients <=> stream[c] # "away"
       /\ c \in BroadcastToLocation(l) <=> c \in BroadcastNotification /\ place[c] = l

\* A shutdown ends, however many streams their terminals keep open.
ShutdownEnds == server = "closing" ~> server = "exited"
=============================================================================
