---------------------------- MODULE Leaderboard ----------------------------
(***************************************************************************)
(* The leaderboard server, cmd/leaderboard/main.go: a poller that reads    *)
(* the scores and broadcasts the boards it builds from them, and a hub of  *)
(* WebSocket viewers, each served by a handler of its own.  The hub's      *)
(* mutex is held while a board is written to one viewer after the other.   *)
(*                                                                         *)
(* The rows of run_scores belong to others: the actions that read them     *)
(* take them as a parameter.                                               *)
(***************************************************************************)
EXTENDS Ranking

CONSTANTS Viewers,  \* browsers
          NoBoard   \* no board yet

VARIABLES
  conn,     \* viewer -> "none", "open", "stuck" (it stops reading) or "gone"
  handler,  \* viewer -> where handleWS is: "none", "register", "read", "unregister" or "done"
  clients,  \* the hub's connections
  queue,    \* viewers h.send still has to write to; it holds the mutex while there are any
  last,     \* the board of lastJSON, which is the one being sent
  shown     \* viewer -> the board it shows

boardVars == <<conn, handler, clients, queue, last, shown>>

Unlocked == queue = <<>>

LeaderboardInit ==
  /\ conn = [v \in Viewers |-> "none"]
  /\ handler = [v \in Viewers |-> "none"]
  /\ clients = {}
  /\ queue = <<>>
  /\ last = NoBoard
  /\ shown = [v \in Viewers |-> NoBoard]

-----------------------------------------------------------------------------
(* The viewers. *)

Connect(v) ==
  /\ conn[v] = "none"
  /\ conn' = [conn EXCEPT ![v] = "open"]
  /\ handler' = [handler EXCEPT ![v] = "register"]
  /\ UNCHANGED <<clients, queue, last, shown>>

\* A tab that sleeps keeps its connection and no longer reads from it.
Stick(v) ==
  /\ conn[v] = "open"
  /\ conn' = [conn EXCEPT ![v] = "stuck"]
  /\ UNCHANGED <<handler, clients, queue, last, shown>>

Leave(v) ==
  /\ conn[v] \in {"open", "stuck"}
  /\ conn' = [conn EXCEPT ![v] = "gone"]
  /\ UNCHANGED <<handler, clients, queue, last, shown>>

-----------------------------------------------------------------------------
(* handleWS *)

Register(v) ==
  /\ handler[v] = "register" /\ Unlocked
  /\ clients' = clients \cup {v}
  /\ handler' = [handler EXCEPT ![v] = "read"]
  /\ UNCHANGED <<conn, queue, last, shown>>

\* Read returns an error.
ReadFails(v) ==
  /\ handler[v] = "read" /\ conn[v] = "gone"
  /\ handler' = [handler EXCEPT ![v] = "unregister"]
  /\ UNCHANGED <<conn, clients, queue, last, shown>>

Unregister(v) ==
  /\ handler[v] = "unregister" /\ Unlocked
  /\ clients' = clients \ {v}
  /\ handler' = [handler EXCEPT ![v] = "done"]
  /\ UNCHANGED <<conn, queue, last, shown>>

-----------------------------------------------------------------------------
(* poll and hub.send *)

\* The orders in which a map with these keys may be iterated over.
Orders(S) == {q \in [1..Cardinality(S) -> S] : \A i, j \in DOMAIN q : i # j => q[i] # q[j]}

SameJSON_Tiers(board, sameSecond) == board = last

\* The text that is compared holds the tiers and the time of the poll in seconds.
SameJSON(board, sameSecond) == board = last /\ sameSecond

\* A poll of these rows, in the second of the last board or a later one.
PollScores(rows, sameSecond) ==
  /\ Unlocked
  /\ UNCHANGED <<conn, handler, clients, shown>>
  /\ queue' \in Orders(clients)
  /\ \E best \in BestPerTeam(rows) : \E board \in Boards(best) :
       ~SameJSON(board, sameSecond) /\ last' = board

\* Write returns: the viewer has the board, or is gone and no longer a client.
\* It does not return while the viewer does not read.
Write ==
  /\ queue # <<>>
  /\ LET v == Head(queue) IN
     \/ /\ conn[v] = "open"
        /\ shown' = [shown EXCEPT ![v] = last]
        /\ UNCHANGED clients
     \/ /\ conn[v] = "gone"
        /\ clients' = clients \ {v}
        /\ UNCHANGED shown
  /\ queue' = Tail(queue)
  /\ UNCHANGED <<conn, handler, last>>

\* The poller in later and later seconds, with the board it is sending.
Poller(rows) == PollScores(rows, FALSE) \/ Write

Handle(v) == Register(v) \/ ReadFails(v) \/ Unregister(v)

Browse(v) == Connect(v) \/ Stick(v) \/ Leave(v)

LeaderboardNext(rows) ==
  \/ \E v \in Viewers : Browse(v) \/ Handle(v)
  \/ \E sameSecond \in BOOLEAN : PollScores(rows, sameSecond)
  \/ Write

LeaderboardTypeOK ==
  /\ conn \in [Viewers -> {"none", "open", "stuck", "gone"}]
  /\ handler \in [Viewers -> {"none", "register", "read", "unregister", "done"}]
  /\ clients \subseteq Viewers
  /\ \A i, j \in DOMAIN queue : queue[i] \in clients /\ (i # j => queue[i] # queue[j])
=============================================================================
