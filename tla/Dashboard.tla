----------------------------- MODULE Dashboard -----------------------------
(***************************************************************************)
(* The event log and a dashboard that follows it: events/bus.ts, the route  *)
(* /internal/ws of http/app.ts, and the store of apps/dashboard with the    *)
(* guard of the fold it applies events with.                                *)
(*                                                                         *)
(* The n-th event is the number n.  A frame from the daemon is an event or, *)
(* as 0, the `ready` that ends a replay.  Sockets are names: one that was   *)
(* closed at both ends may be used again.                                   *)
(***************************************************************************)
EXTENDS Integers, Sequences, FiniteSets

CONSTANTS
  Socks,      \* names for WebSockets
  MaxEvents,  \* bound: events appended
  MaxDrops,   \* bound: connections lost (a network, a daemon restarting)
  MaxMounts   \* bound: calls of connect()

ASSUME BoundsAssumption ==
  MaxEvents \in Nat /\ MaxDrops \in Nat /\ MaxMounts \in Nat

None == "none"
ASSUME NoneAssumption == None \notin Socks

VARIABLES
  log,       \* how many events the table holds
  conn,      \* each socket as its client sees it; "lost" has no close event yet
  asked,     \* `subscribe` frames under way: the afterSeq of each
  attached,  \* the daemon's route has a bus listener for the socket
  down,      \* frames under way to the client
  socket, timers, timer, closing,  \* the store's locals; timers still armed
  status, lastSeq,                 \* DashboardState.status, FoldState.lastSeq
  folded,    \* history: the events applied
  drops, mounts

net == <<conn, asked, attached, down>>
store == <<socket, timers, timer, closing, status>>
view == <<lastSeq, folded>>
vars == <<log, net, store, view, drops, mounts>>

Upto(n) == [k \in 1..n |-> k]
Frames(s) == {down[s][k] : k \in DOMAIN down[s]}

TypeOK ==
  /\ log \in 0..MaxEvents /\ lastSeq \in 0..log
  /\ conn \in [Socks -> {"free", "connecting", "open", "closing", "lost"}]
  /\ asked \in [Socks -> Seq(Nat)] /\ attached \in [Socks -> BOOLEAN]
  /\ down \in [Socks -> Seq(Nat)]
  /\ socket \in Socks \cup {None} /\ timers \subseteq Socks
  /\ timer \in Socks \cup {None} /\ closing \in BOOLEAN
  /\ status \in {"idle", "connecting", "live", "reconnecting"}
  /\ folded \in Seq(Nat)
  /\ drops \in 0..MaxDrops /\ mounts \in 0..MaxMounts

Init ==
  /\ log = 0 /\ lastSeq = 0 /\ folded = <<>>
  /\ conn = [s \in Socks |-> "free"] /\ asked = [s \in Socks |-> <<>>]
  /\ attached = [s \in Socks |-> FALSE] /\ down = [s \in Socks |-> <<>>]
  /\ socket = None /\ timers = {} /\ timer = None /\ closing = FALSE
  /\ status = "idle" /\ drops = 0 /\ mounts = 0

-----------------------------------------------------------------------------
(* The daemon                                                              *)

Told(n) ==
  down' = [s \in Socks |-> IF attached[s] /\ conn[s] = "open"
                           THEN Append(down[s], n) ELSE down[s]]

(* EventBus.append: the row, then every listener.  What goes to a socket    *)
(* that is not open is never delivered.                                     *)
AppendEvent ==
  /\ log < MaxEvents /\ log' = log + 1 /\ Told(log + 1)
  /\ UNCHANGED <<conn, asked, attached, store, view, drops, mounts>>

EventsAfter(n) == [k \in 1..(IF n < log THEN log - n ELSE 0) |-> n + k]

(* A slip: the listener is attached, the replay forgotten.                  *)
Subscribe_NoReplay(s) ==
  /\ conn[s] = "open" /\ asked[s] # <<>>
  /\ asked' = [asked EXCEPT ![s] = Tail(@)]
  /\ down' = [down EXCEPT ![s] = Append(@, 0)]
  /\ attached' = [attached EXCEPT ![s] = TRUE]
  /\ UNCHANGED <<log, conn, store, view, drops, mounts>>

(* The route's message handler: the previous listener goes, the replay and  *)
(* `ready` are written, and the live listener is attached, in one go.       *)
Subscribe(s) ==
  /\ conn[s] = "open" /\ asked[s] # <<>>
  /\ down' = [down EXCEPT ![s] = Append(@ \o EventsAfter(Head(asked[s])), 0)]
  /\ asked' = [asked EXCEPT ![s] = Tail(@)]
  /\ attached' = [attached EXCEPT ![s] = TRUE]
  /\ UNCHANGED <<log, conn, store, view, drops, mounts>>

(* The route's close handler.                                               *)
Unsubscribe(s) ==
  /\ attached[s] /\ conn[s] \notin {"connecting", "open"}
  /\ attached' = [attached EXCEPT ![s] = FALSE]
  /\ UNCHANGED <<log, conn, asked, down, store, view, drops, mounts>>

-----------------------------------------------------------------------------
(* The network and the browser                                             *)

Empty(s) ==
  /\ asked' = [asked EXCEPT ![s] = <<>>]
  /\ down' = [down EXCEPT ![s] = <<>>]

Drop(s) ==
  /\ conn[s] \in {"connecting", "open"} /\ drops < MaxDrops
  /\ conn' = [conn EXCEPT ![s] = "lost"] /\ Empty(s)
  /\ drops' = drops + 1
  /\ UNCHANGED <<log, attached, store, view, mounts>>

(* The `open` handler: the frame goes to whichever socket the store holds   *)
(* now.  None is skipped, one that is closing discards it, and one still    *)
(* connecting throws, which ends the handler.                               *)
Opened(s) ==
  /\ conn[s] = "connecting"
  /\ conn' = [conn EXCEPT ![s] = "open"]
  /\ asked' = [t \in Socks |-> IF t = socket /\ conn'[t] = "open"
                               THEN Append(asked[t], lastSeq) ELSE asked[t]]
  /\ UNCHANGED <<log, attached, down, store, view, drops, mounts>>

-----------------------------------------------------------------------------
(* The store                                                               *)

(* open(): a new socket, in the hands of the store.                         *)
Open(s) ==
  /\ conn[s] = "free" /\ ~attached[s] /\ s \notin timers'
  /\ conn' = [conn EXCEPT ![s] = "connecting"]
  /\ socket' = s
  /\ status' = IF lastSeq > 0 THEN "reconnecting" ELSE "connecting"

(* connect() and disconnect() are the effect of App and its clean-up; React *)
(* may run them in a row (StrictMode mounts twice).                         *)
Mounted == mounts > 0 /\ ~closing

Connect(s) ==
  /\ ~Mounted /\ mounts < MaxMounts /\ mounts' = mounts + 1
  /\ UNCHANGED timers
  /\ socket = None /\ closing' = FALSE /\ Open(s)
  /\ UNCHANGED <<log, asked, attached, down, timer, view, drops>>

Reopen(s, t) ==
  /\ t \in timers /\ timers' = timers \ {t} /\ Open(s)
  /\ UNCHANGED <<log, asked, attached, down, timer, closing, view, drops, mounts>>

Disconnect ==
  /\ Mounted /\ closing' = TRUE /\ timers' = timers \ {timer} /\ timer' = None
  /\ socket' = None /\ status' = "idle"
  /\ IF socket # None /\ conn[socket] \in {"connecting", "open"}
     THEN conn' = [conn EXCEPT ![socket] = "closing"] /\ Empty(socket)
     ELSE UNCHANGED <<conn, asked, down>>
  /\ UNCHANGED <<log, attached, view, drops, mounts>>

(* Slips: a closed socket is taken for the end; it leaves the old status.   *)
Closed_NoRetry(s) ==
  /\ conn[s] \in {"closing", "lost"}
  /\ conn' = [conn EXCEPT ![s] = "free"]
  /\ socket' = None
  /\ status' = IF closing THEN "idle" ELSE "reconnecting"
  /\ UNCHANGED <<log, asked, attached, down, timers, timer, closing, view, drops,
                 mounts>>

Closed_Quietly(s) ==
  /\ conn[s] \in {"closing", "lost"}
  /\ conn' = [conn EXCEPT ![s] = "free"]
  /\ socket' = None
  /\ IF closing THEN status' = "idle" /\ UNCHANGED <<timers, timer>>
                ELSE /\ timers' = timers \cup {s} /\ timer' = s
                     /\ UNCHANGED status
  /\ UNCHANGED <<log, asked, attached, down, closing, view, drops, mounts>>

(* The `close` handler: whichever socket it was, the store lets go of the   *)
(* one it holds, and comes back later unless it is closing.                 *)
Closed(s) ==
  /\ conn[s] \in {"closing", "lost"}
  /\ conn' = [conn EXCEPT ![s] = "free"]
  /\ socket' = None
  /\ IF closing THEN status' = "idle" /\ UNCHANGED <<timers, timer>>
                ELSE /\ timers' = timers \cup {s} /\ timer' = s
                     /\ status' = "reconnecting"
  /\ UNCHANGED <<log, asked, attached, down, closing, view, drops, mounts>>

(* A slip: applyEvent without its guard.                                    *)
Ingest_Unguarded(e) ==
  IF e = 0 THEN status' = "live" /\ UNCHANGED view
  ELSE lastSeq' = e /\ folded' = Append(folded, e) /\ UNCHANGED status

(* ingest: `ready` makes it live; an event is applied unless it is not new. *)
Ingest(e) ==
  IF e = 0 THEN status' = "live" /\ UNCHANGED view
  ELSE /\ UNCHANGED status
       /\ IF e > lastSeq THEN lastSeq' = e /\ folded' = Append(folded, e)
                         ELSE UNCHANGED view

Receive(s) ==
  /\ conn[s] = "open" /\ down[s] # <<>>
  /\ Ingest(Head(down[s])) /\ down' = [down EXCEPT ![s] = Tail(@)]
  /\ UNCHANGED <<log, conn, asked, attached, socket, timers, timer, closing, drops,
                 mounts>>

-----------------------------------------------------------------------------
Next ==
  \/ AppendEvent \/ Disconnect
  \/ \E s \in Socks : \/ Subscribe(s) \/ Unsubscribe(s) \/ Drop(s) \/ Opened(s)
                      \/ Connect(s) \/ Closed(s) \/ Receive(s)
                      \/ \E t \in Socks : Reopen(s, t)

Spec == Init /\ [][Next]_vars

(* Frames arrive, connections open, close events and timers fire.  Nobody   *)
(* has to append, mount or unmount, and connections need not be lost.       *)
FairSpec ==
  /\ Spec
  /\ \A s \in Socks : /\ WF_vars(Subscribe(s)) /\ WF_vars(Unsubscribe(s))
                      /\ WF_vars(Opened(s)) /\ WF_vars(Closed(s))
                      /\ WF_vars(Receive(s))
  /\ WF_vars(\E s, t \in Socks : Reopen(s, t))

-----------------------------------------------------------------------------
(* The fold is the fold of a prefix of the log: every event once and in     *)
(* order, whatever reconnects, replays and live frames overlap.             *)
FoldsThePrefix == folded = Upto(lastSeq)

(* What an attached socket has under way closes the distance from the fold  *)
(* to the log: there is no gap between what was replayed and what is live.  *)
NothingMissed ==
  \A s \in Socks : conn[s] = "open" /\ attached[s] =>
    \A e \in (lastSeq + 1)..log : e \in Frames(s)

(* "Live" on the screen is a socket that feeds it, or one whose loss the    *)
(* browser has not reported yet; a tree that stands still never says so.    *)
LiveMeansFed ==
  status = "live" =>
    \E s \in Socks : conn[s] = "lost" \/ (conn[s] = "open" /\ attached[s])

(* A mounted dashboard catches up with every event, through lost            *)
(* connections and restarts.                                                *)
CatchesUp ==
  \A n \in 1..MaxEvents :
    (log >= n /\ Mounted) ~> (lastSeq >= n \/ ~Mounted)

=============================================================================
