--------------------------- MODULE Notifications ---------------------------
(***************************************************************************)
(* Notifications: rows a service inserts in its transaction, broadcast to  *)
(* the streams of the company open at that moment once the transaction is  *)
(* committed, and dropped when it is rolled back.  Broadcasting is best    *)
(* effort: the row stays in the list, a stream that is not open misses it, *)
(* and what the process holds in memory is lost with it.                   *)
(***************************************************************************)
EXTENDS Transactions

CONSTANTS
  Listened,          \* the companies that are notified
  Streams,           \* the open or closed event streams of the users' browsers
  Closed,            \* no company: the stream is closed
  MaxNotifications   \* bound: rows of notifications, the rolled back ones included

ASSUME NotificationsAssumption ==
  /\ Closed \notin Listened
  /\ MaxNotifications \in Nat

VARIABLES
  notifications,  \* Seq([company, stage, read]): rows of notifications, by identifier
  notifying,      \* [Requests -> the transaction and its pending broadcasts]
  stream,         \* [Streams -> company listened to, or Closed]
  queue,          \* [Streams -> Seq(row)]: put_nowait, one queue per stream
  heard           \* [Streams -> Seq(row)]: sent on the stream since it was opened

notificationVars == <<notifications, notifying, stream, queue, heard>>

\* The rows of an open transaction are inserted, those of one that was rolled back gone.
NotificationRow ==
  [company : Listened, stage : {"inserted", "committed", "gone"}, read : BOOLEAN]

Quiet == [stage |-> "idle", pending |-> {}]

NotificationsInit ==
  /\ notifications = <<>>
  /\ notifying = [r \in Requests |-> Quiet]
  /\ stream = [l \in Streams |-> Closed]
  /\ queue  = [l \in Streams |-> <<>>]
  /\ heard  = [l \in Streams |-> <<>>]

---------------------------------------------------------------------------
(* Transactions.                                                           *)

\* notify, once or more in a transaction: the row is inserted and its broadcast set
\* aside in session.info.
Notify(r, c) ==
  /\ notifying[r].stage \in {"idle", "open"}
  /\ Len(notifications) < MaxNotifications
  /\ notifications' =
       Append(notifications, [company |-> c, stage |-> "inserted", read |-> FALSE])
  /\ notifying' = [notifying EXCEPT ![r].stage = "open",
                                    ![r].pending = @ \cup {Len(notifications) + 1}]
  /\ UNCHANGED <<stream, queue, heard>>

\* The rows once those of some transactions have ended.
Ended(rows, stage) ==
  [n \in DOMAIN notifications |->
     IF n \in rows THEN [notifications[n] EXCEPT !.stage = stage] ELSE notifications[n]]

\* The commit makes the rows visible; the service's coroutine goes on later.
CommitNotifications(r) ==
  /\ notifying[r].stage = "open"
  /\ notifications' = Ended(notifying[r].pending, "committed")
  /\ notifying' = [notifying EXCEPT ![r].stage = "committed"]
  /\ UNCHANGED <<stream, queue, heard>>

\* The pending broadcasts of a transaction for a company, in the order of insertion.
PendingFor(r, c) == {n \in notifying[r].pending : notifications[n].company = c}

InOrder(rows) ==
  [k \in 1 .. Cardinality(rows) |-> CHOOSE n \in rows : Cardinality({m \in rows : m <= n}) = k]

\* Mutant: a company has one queue, that of its last subscriber.
PublishedToOne(r) ==
  [l \in Streams |->
     IF stream[l] = Closed \/ l # CHOOSE x \in Streams : stream[x] = stream[l] THEN {}
     ELSE PendingFor(r, stream[l])]

\* publish: the queues of the company's subscribers.
Published(r) ==
  [l \in Streams |-> IF stream[l] = Closed THEN {} ELSE PendingFor(r, stream[l])]

\* _broadcast_after_commit, to the subscribers of now.
BroadcastAfterCommit(r) ==
  /\ notifying[r].stage = "committed"
  /\ queue' = [l \in Streams |-> queue[l] \o InOrder(Published(r)[l])]
  /\ notifying' = [notifying EXCEPT ![r] = Quiet]
  /\ UNCHANGED <<notifications, stream, heard>>

\* Mutant: what was set aside survives the rollback and goes out with the next
\* commit of the session.
KeptAfterRollback(r) == [notifying EXCEPT ![r].stage = "committed"]

DiscardedAfterRollback(r) == [notifying EXCEPT ![r] = Quiet]

\* _discard_pending_after_rollback.
RollBack(r) ==
  /\ notifying[r].stage = "open"
  /\ notifications' = Ended(notifying[r].pending, "gone")
  /\ notifying' = DiscardedAfterRollback(r)
  /\ UNCHANGED <<stream, queue, heard>>

---------------------------------------------------------------------------
(* Streams.                                                                *)

Subscribe(l, c) ==
  /\ stream[l] = Closed
  /\ stream' = [stream EXCEPT ![l] = c]
  /\ UNCHANGED <<notifications, notifying, queue, heard>>

\* stream_notifications takes the next payload of its queue and sends it.
Deliver(l) ==
  /\ queue[l] # <<>>
  /\ heard' = [heard EXCEPT ![l] = Append(@, Head(queue[l]))]
  /\ queue' = [queue EXCEPT ![l] = Tail(@)]
  /\ UNCHANGED <<notifications, notifying, stream>>

\* The client goes away: the finally of subscribe discards the queue.
Unsubscribe(l) ==
  /\ stream[l] # Closed
  /\ stream' = [stream EXCEPT ![l] = Closed]
  /\ queue' = [queue EXCEPT ![l] = <<>>]
  /\ heard' = [heard EXCEPT ![l] = <<>>]
  /\ UNCHANGED <<notifications, notifying>>

MarkAsRead(c, n) ==
  /\ notifications[n].company = c
  /\ notifications[n].stage = "committed"
  /\ notifications' = [notifications EXCEPT ![n].read = TRUE]
  /\ UNCHANGED <<notifying, stream, queue, heard>>

\* The process restarts: open transactions are rolled back, broadcasts of committed
\* ones and the streams are lost.
Crash ==
  /\ notifying' = [r \in Requests |-> Quiet]
  /\ stream' = [l \in Streams |-> Closed]
  /\ queue'  = [l \in Streams |-> <<>>]
  /\ heard'  = [l \in Streams |-> <<>>]
  /\ notifications' =
       Ended({n \in DOMAIN notifications : notifications[n].stage = "inserted"}, "gone")

NotificationsNext ==
  \/ \E r \in Requests, c \in Listened : Notify(r, c)
  \/ \E r \in Requests : CommitNotifications(r)
  \/ \E r \in Requests : BroadcastAfterCommit(r)
  \/ \E r \in Requests : RollBack(r)
  \/ \E l \in Streams, c \in Listened : Subscribe(l, c)
  \/ \E l \in Streams : Deliver(l)
  \/ \E l \in Streams : Unsubscribe(l)
  \/ \E c \in Listened, n \in DOMAIN notifications : MarkAsRead(c, n)
  \/ Crash

---------------------------------------------------------------------------
\* Every variable has its type, and pending broadcasts are of the transaction's rows.
NotificationsTypeOK ==
  /\ notifications \in Seq(NotificationRow)
  /\ stream \in [Streams -> Listened \cup {Closed}]
  /\ \A l \in Streams :
       {queue[l], heard[l]} \subseteq Seq(DOMAIN notifications)
  /\ \A r \in Requests :
       /\ notifying[r].stage \in {"idle", "open", "committed"}
       /\ notifying[r].pending \subseteq DOMAIN notifications

\* What a stream gets, sent or waiting, is rows of its own company that are committed,
\* each one once, whatever transactions were rolled back and whatever the stream did
\* before ("aucune notification "fantôme" ne doit être diffusée").
NothingPhantomHeard ==
  \A l \in Streams :
    LET got == heard[l] \o queue[l]
    IN /\ \A k \in DOMAIN got :
            /\ notifications[got[k]].stage = "committed"
            /\ notifications[got[k]].company = stream[l]
       /\ \A j, k \in DOMAIN got : got[j] = got[k] => j = k

\* Row n is committed and not broadcast yet.
Broadcasting(n) == \E r \in Requests : notifying[r].stage = "committed" /\ n \in notifying[r].pending

\* A stream that is open when a transaction commits hears of each of the company's
\* notifications in it, unless it is closed or the process stops first.
ConnectedListenersHear ==
  \A l \in Streams, n \in 1 .. MaxNotifications :
    /\ Broadcasting(n)
    /\ stream[l] = notifications[n].company
    ~> \/ \E k \in DOMAIN heard[l] : heard[l][k] = n
       \/ stream[l] = Closed
============================================================================
