-------------------------------- MODULE Hub --------------------------------
(***************************************************************************)
(* The WebSocket hub of src/backend/internal/websocket: the goroutine that *)
(* runs Server.Run, and for every connection the goroutines of ReadPump    *)
(* and WritePump, plus the goroutines that sendRelationPush runs in.       *)
(*                                                                         *)
(* A goroutine advances one step at a time; a step is a critical section   *)
(* of Server.Mutex, one channel operation, or one call on a connection or  *)
(* on Redis.  Register and Unregister are unbuffered: sending on them is a *)
(* rendezvous with the hub while it sits in its select.  A frame is only a *)
(* slot in the bounded channel Send of its client.                         *)
(***************************************************************************)
EXTENDS Naturals, FiniteSets

CONSTANTS Users,          \* UIDs
          Clients,        \* *Client objects, one per accepted connection
          Uid,            \* Uid[cl]: the user of the token cl connected with
          Rooms,          \* the fixed topic rooms
          Pushers,        \* goroutines started by "go s.sendRelationPush"
          SendCap,        \* capacity of Client.Send (256 in the code)
          MaxFaults,      \* bound: ends of the process, failed Redis commands
          Hub, NoClient, NoRoom

ASSUME HubAssumption ==
  /\ Uid \in [Clients -> Users]
  /\ SendCap \in Nat \ {0}
  /\ MaxFaults \in Nat
  /\ NoClient \notin Clients /\ NoRoom \notin Rooms
  /\ Hub \notin Clients \cup Pushers /\ Clients \cap Pushers = {}

VARIABLES
  clients,         \* Server.Clients: the current connection of each user
  members,         \* topicRoomState.members of each room
  topicUserRoom,   \* Server.topicUserRoom
  late,            \* history: users in a room they joined with no connection left
  online,          \* the Redis set online:users
  conn,            \* state of each connection's socket
  send,            \* number of frames in each client's Send channel
  writer,          \* state of each WritePump
  pc,              \* where each goroutine is
  todo,            \* users the goroutine has still to SendToUser
  target,          \* the client a SendToUser of the goroutine looked up, or the hub replaced
  subject,         \* the client the hub received from Register or Unregister
  casts,           \* rooms whose members push is still to be broadcast
  drift,           \* history: users of whom Redis may know what is not so
  faults           \* history: counts against MaxFaults

redis == <<online, drift, faults>>
rooms == <<members, topicUserRoom, late>>
vars == <<clients, rooms, redis, conn, send, writer,
          pc, todo, target, subject, casts>>

registry == <<clients, rooms>>
sockets  == <<conn, send, writer>>

Procs == Clients \cup Pushers \cup {Hub}

\* The places a goroutine can be at.  A reader starts in the HTTP handler that
\* upgrades the connection ("new", "register", "start") and then runs ReadPump.
ReaderAt == {"new", "register", "start", "read", "topic", "push", "send", "evict", "reply", "exit", "done"}
PusherAt == {"idle", "push", "send", "evict"}
HubAt    == {"select", "register", "replace", "setOnline",
             "unregister", "close", "leave", "push", "send", "evict", "setOffline"}

Goto(p, at) == pc' = [pc EXCEPT ![p] = at]

-----------------------------------------------------------------------------
(* SendToUser and the loops that call it, run by any goroutine p.          *)

\* The next thing p does once it has nobody left to push to.
Afterwards(p) == IF p = Hub THEN "setOffline"
                 ELSE IF p \in Pushers THEN "idle" ELSE "reply"

\* broadcastTopicRoomMembersPush: everyone connected is a recipient.  The
\* database query that names the members may fail, and then nobody is.
BroadcastMembers(p) ==
  /\ pc[p] = "push" /\ todo[p] = {} /\ casts[p] > 0
  /\ \E recipients \in {{}, {u \in Users : clients[u] # NoClient}} :
       todo' = [todo EXCEPT ![p] = recipients]
  /\ casts' = [casts EXCEPT ![p] = @ - 1]
  /\ UNCHANGED <<registry, redis, sockets, pc, target, subject>>

\* The lookup of SendToUser, under RLock.
LookUp(p) ==
  /\ pc[p] = "push"
  /\ \E u \in todo[p] :
       /\ todo' = [todo EXCEPT ![p] = @ \ {u}]
       /\ IF clients[u] = NoClient
          THEN UNCHANGED <<pc, target, subject>>
          ELSE Goto(p, "send") /\ target' = [target EXCEPT ![p] = clients[u]]
  /\ UNCHANGED <<registry, redis, sockets, subject, casts>>

\* Mutant: Send has no capacity.
TrySendUnbounded(p) ==
  /\ pc[p] = "send"
  /\ send' = [send EXCEPT ![target[p]] = @ + 1]
  /\ target' = [target EXCEPT ![p] = NoClient]
  /\ Goto(p, "push")
  /\ UNCHANGED <<registry, redis, conn, writer, todo, subject, casts>>

\* Its select, after RUnlock: the looked-up client may be current no longer.
TrySend(p) ==
  /\ pc[p] = "send"
  /\ IF send[target[p]] < SendCap
     THEN /\ send' = [send EXCEPT ![target[p]] = @ + 1]
          /\ target' = [target EXCEPT ![p] = NoClient]
          /\ Goto(p, "push")
     ELSE Goto(p, "evict") /\ UNCHANGED <<send, target>>
  /\ UNCHANGED <<registry, redis, conn, writer, todo, subject, casts>>

PushDone(p) ==
  /\ pc[p] = "push" /\ todo[p] = {} /\ casts[p] = 0
  /\ Goto(p, Afterwards(p))
  /\ UNCHANGED <<registry, redis, sockets, todo, target, subject, casts>>

Push(p) == BroadcastMembers(p) \/ LookUp(p) \/ TrySend(p) \/ PushDone(p)

-----------------------------------------------------------------------------
(* Topic rooms: the critical sections of JoinTopicRoom and LeaveTopicRoom. *)

\* Mutant: the room joined before is not left.
JoinRoomKeepingOld(u, room) ==
  /\ members' = [members EXCEPT ![room] = @ \cup {u}]
  /\ topicUserRoom' = [topicUserRoom EXCEPT ![u] = room]
  /\ late' = IF clients[u] = NoClient THEN late \cup {u} ELSE late \ {u}

JoinRoom(u, room) ==
  /\ members' = [r \in Rooms |-> IF r = room THEN members[r] \cup {u}
                                 ELSE IF r = topicUserRoom[u] THEN members[r] \ {u}
                                 ELSE members[r]]
  /\ topicUserRoom' = [topicUserRoom EXCEPT ![u] = room]
  /\ late' = IF clients[u] = NoClient THEN late \cup {u} ELSE late \ {u}

LeaveRoom(u) ==
  /\ members' = [r \in Rooms |-> IF r = topicUserRoom[u] THEN members[r] \ {u}
                                                         ELSE members[r]]
  /\ topicUserRoom' = [topicUserRoom EXCEPT ![u] = NoRoom]
  /\ late' = late \ {u}

-----------------------------------------------------------------------------
(* The hub: Server.Run. *)

\* Mutant: a second connection waits until the first has gone.
HubReceiveRegisterWaits(cl) ==
  /\ pc[Hub] = "select" /\ pc[cl] = "register"
  /\ clients[Uid[cl]] = NoClient
  /\ subject' = cl
  /\ pc' = [pc EXCEPT ![Hub] = "register", ![cl] = "start"]
  /\ UNCHANGED <<registry, redis, sockets, todo, target, casts>>

\* case client := <-s.Register: the handler that sent the client goes on.
HubReceiveRegister(cl) ==
  /\ pc[Hub] = "select" /\ pc[cl] = "register"
  /\ subject' = cl
  /\ pc' = [pc EXCEPT ![Hub] = "register", ![cl] = "start"]
  /\ UNCHANGED <<registry, redis, sockets, todo, target, casts>>

\* registerClient.
HubRegister ==
  /\ pc[Hub] = "register"
  /\ LET replaced == clients[Uid[subject]]
     IN  IF replaced \in {NoClient, subject}
         THEN Goto(Hub, "setOnline") /\ UNCHANGED target
         ELSE Goto(Hub, "replace") /\ target' = [target EXCEPT ![Hub] = replaced]
  /\ clients' = [clients EXCEPT ![Uid[subject]] = subject]
  /\ UNCHANGED <<rooms, redis, sockets, todo, subject, casts>>

\* Mutant: the replaced connection is left open.
HubReplaceLeavesOpen ==
  /\ pc[Hub] = "replace"
  /\ target' = [target EXCEPT ![Hub] = NoClient]
  /\ Goto(Hub, "setOnline")
  /\ UNCHANGED <<registry, redis, sockets, todo, subject, casts>>

\* replacedClient.Conn.Close.
HubReplace ==
  /\ pc[Hub] = "replace"
  /\ conn' = [conn EXCEPT ![target[Hub]] = "closed"]
  /\ target' = [target EXCEPT ![Hub] = NoClient]
  /\ Goto(Hub, "setOnline")
  /\ UNCHANGED <<registry, redis, send, writer, todo, subject, casts>>

Fault == faults < MaxFaults /\ faults' = faults + 1

\* redis.SetUserOnline; an error is only logged.
HubSetOnline ==
  /\ pc[Hub] = "setOnline"
  /\ \/ online' = online \cup {Uid[subject]} /\ drift' = drift \ {Uid[subject]} /\ UNCHANGED faults
     \/ Fault /\ drift' = drift \cup {Uid[subject]} /\ UNCHANGED online
  /\ Goto(Hub, "select")
  /\ subject' = NoClient
  /\ UNCHANGED <<registry, sockets, todo, target, casts>>

\* What p is blocked on sending to Unregister: the client it found with a full
\* channel, or, in ReadPump's defer, its own.
Unregistering(p) == IF pc[p] = "evict" THEN target[p] ELSE p

\* case client := <-s.Unregister: who sent the client goes on; ReadPump ends by
\* closing its connection.
HubReceiveUnregister(p) ==
  /\ pc[Hub] = "select" /\ pc[p] \in {"evict", "exit"}
  /\ subject' = Unregistering(p)
  /\ pc' = [pc EXCEPT ![Hub] = "unregister", ![p] = IF pc[p] = "evict" THEN "push" ELSE "done"]
  /\ conn' = [c \in Clients |-> IF c = p /\ pc[p] = "exit" THEN "closed" ELSE conn[c]]
  /\ target' = [target EXCEPT ![p] = NoClient]
  /\ UNCHANGED <<registry, redis, send, writer, todo, casts>>

\* Mutant: unregisterClient deletes the entry without comparing the client.
HubUnregisterByUser ==
  /\ pc[Hub] = "unregister"
  /\ clients' = [clients EXCEPT ![Uid[subject]] = NoClient]
  /\ Goto(Hub, "close")
  /\ UNCHANGED <<rooms, redis, sockets, todo, target, subject, casts>>

\* Mutant: disconnectClient goes on though nothing was removed.
HubUnregisterGoesOn ==
  /\ pc[Hub] = "unregister"
  /\ clients' = IF clients[Uid[subject]] = subject
                THEN [clients EXCEPT ![Uid[subject]] = NoClient] ELSE clients
  /\ Goto(Hub, "close")
  /\ UNCHANGED <<rooms, redis, sockets, todo, target, subject, casts>>

\* unregisterClient removes the entry only if it is this very client; if not,
\* disconnectClient returns at once.
HubUnregister ==
  /\ pc[Hub] = "unregister"
  /\ IF clients[Uid[subject]] = subject
     THEN /\ clients' = [clients EXCEPT ![Uid[subject]] = NoClient]
          /\ Goto(Hub, "close") /\ UNCHANGED subject
     ELSE Goto(Hub, "select") /\ subject' = NoClient /\ UNCHANGED clients
  /\ UNCHANGED <<rooms, redis, sockets, todo, target, casts>>

\* The rest of disconnectClient: Conn.Close, ...
HubClose ==
  /\ pc[Hub] = "close"
  /\ conn' = [conn EXCEPT ![subject] = "closed"]
  /\ Goto(Hub, "leave")
  /\ UNCHANGED <<registry, redis, send, writer, todo, target, subject, casts>>

\* ... LeaveTopicRoom(client.ID, ""), whose broadcast the hub itself runs, ...
HubLeaveRoom ==
  /\ pc[Hub] = "leave"
  /\ LET u == Uid[subject]
     IN  /\ LeaveRoom(u)
         /\ IF topicUserRoom[u] = NoRoom
            THEN Goto(Hub, "setOffline") /\ UNCHANGED casts
            ELSE Goto(Hub, "push") /\ casts' = [casts EXCEPT ![Hub] = 1]
  /\ UNCHANGED <<clients, redis, sockets, todo, target, subject>>

\* Mutant: the user is not taken out of the set.
HubForgetsOffline ==
  /\ pc[Hub] = "setOffline"
  /\ Goto(Hub, "select")
  /\ subject' = NoClient
  /\ UNCHANGED <<registry, redis, sockets, todo, target, casts>>

\* ... and redis.SetUserOffline, whose error is only logged.
HubSetOffline ==
  /\ pc[Hub] = "setOffline"
  /\ \/ online' = online \ {Uid[subject]} /\ drift' = drift \ {Uid[subject]} /\ UNCHANGED faults
     \/ Fault /\ drift' = drift \cup {Uid[subject]} /\ UNCHANGED online
  /\ Goto(Hub, "select")
  /\ subject' = NoClient
  /\ UNCHANGED <<registry, sockets, todo, target, casts>>

\* The process ends at any point and is started again: every connection and
\* all that the server kept in memory is gone, the Redis set is as it was.
\* Nothing at start-up empties it.
Crash ==
  /\ Fault
  /\ drift' = drift \cup online
  /\ clients' = [u \in Users |-> NoClient]
  /\ members' = [r \in Rooms |-> {}]
  /\ topicUserRoom' = [u \in Users |-> NoRoom] /\ late' = {}
  /\ conn' = [cl \in Clients |-> IF pc[cl] = "new" THEN "none" ELSE "closed"]
  /\ send' = [cl \in Clients |-> 0]
  /\ writer' = [cl \in Clients |-> IF pc[cl] = "new" THEN "none" ELSE "stopped"]
  /\ pc' = [p \in Procs |-> IF p = Hub THEN "select" ELSE IF p \in Pushers THEN "idle"
                           ELSE IF pc[p] = "new" THEN "new" ELSE "done"]
  /\ todo' = [p \in Procs |-> {}]
  /\ target' = [p \in Procs |-> NoClient]
  /\ subject' = NoClient
  /\ casts' = [p \in Procs |-> 0]
  /\ UNCHANGED online

HubStep ==
  \/ HubRegister \/ HubReplace \/ HubSetOnline
  \/ HubUnregister \/ HubClose \/ HubLeaveRoom \/ HubSetOffline
  \/ Push(Hub)

-----------------------------------------------------------------------------
(* A connection: HandleWebSocket, ReadPump with HandleMessage, WritePump. *)

\* HandleWebSocket: the token is valid and the upgrade done.
Connect(cl) ==
  /\ pc[cl] = "new"
  /\ Goto(cl, "register")
  /\ conn' = [conn EXCEPT ![cl] = "open"]
  /\ UNCHANGED <<registry, redis, send, writer, todo, target, subject, casts>>

\* The handler has handed the client over and starts its two pumps.
StartPumps(cl) ==
  /\ pc[cl] = "start"
  /\ Goto(cl, "read")
  /\ writer' = [writer EXCEPT ![cl] = "run"]
  /\ UNCHANGED <<registry, redis, conn, send, todo, target, subject, casts>>

\* The peer goes away, or the network between does.
PeerClose(cl) ==
  /\ conn[cl] = "open"
  /\ conn' = [conn EXCEPT ![cl] = "closed"]
  /\ UNCHANGED <<registry, redis, send, writer, pc, todo, target, subject, casts>>

\* ReadMessage returns a frame: the handler of the request it holds begins.  What
\* the reader had buffered when the connection was closed is still returned.
CanRead(cl) == pc[cl] = "read"

\* Requests that are answered and nothing else: the account requests, the lists
\* and details, the read marks, and whatever ends in an error.
HandleQuery(cl) ==
  /\ CanRead(cl)
  /\ Goto(cl, "reply")
  /\ UNCHANGED <<registry, redis, sockets, todo, target, subject, casts>>

\* Requests whose handler pushes to some users: a new message, a new
\* conversation, a change of a group, a topic room message.  The recipients are
\* read from the database, which may fail: then there are none.
HandleRequest(cl) ==
  /\ CanRead(cl)
  /\ \E recipients \in SUBSET Users : todo' = [todo EXCEPT ![cl] = recipients]
  /\ Goto(cl, "push")
  /\ UNCHANGED <<registry, redis, sockets, target, subject, casts>>

\* follow and unfollow: the push to the target user gets its own goroutine.
HandleFollow(cl, p) ==
  /\ CanRead(cl)
  /\ pc[p] = "idle"
  /\ \E u \in Users : todo' = [todo EXCEPT ![p] = {u}]
  /\ pc' = [pc EXCEPT ![cl] = "reply", ![p] = "push"]
  /\ UNCHANGED <<registry, redis, sockets, target, subject, casts>>

\* A topic room request has been read; its critical section comes next, and
\* the connection may have been replaced or evicted by then.
HandleTopic(cl) ==
  /\ CanRead(cl)
  /\ Rooms # {}
  /\ Goto(cl, "topic")
  /\ UNCHANGED <<registry, redis, sockets, todo, target, subject, casts>>

\* JoinTopicRoom: one members push for the room left, one for the room joined,
\* unless the query that names the members fails.
JoinTopicRoom(cl) ==
  /\ pc[cl] = "topic"
  /\ \E room \in Rooms :
       LET u == Uid[cl]
           switched == topicUserRoom[u] \notin {NoRoom, room}
       IN  /\ JoinRoom(u, room)
           /\ \E built \in BOOLEAN :
                casts' = [casts EXCEPT ![cl] = IF ~built THEN 0 ELSE IF switched THEN 2 ELSE 1]
  /\ Goto(cl, "push")
  /\ UNCHANGED <<clients, redis, sockets, todo, target, subject>>

\* LeaveTopicRoom on request; it broadcasts only if the user was in a room.
LeaveTopicRoom(cl) ==
  /\ pc[cl] = "topic"
  /\ LeaveRoom(Uid[cl])
  /\ casts' = [casts EXCEPT ![cl] = IF topicUserRoom[Uid[cl]] = NoRoom THEN 0 ELSE 1]
  /\ Goto(cl, "push")
  /\ UNCHANGED <<clients, redis, sockets, todo, target, subject>>

\* client.Send <- data: the reader waits for a free slot.
Reply(cl) ==
  /\ pc[cl] = "reply"
  /\ send[cl] < SendCap
  /\ send' = [send EXCEPT ![cl] = @ + 1]
  /\ Goto(cl, "read")
  /\ UNCHANGED <<registry, redis, conn, writer, todo, target, subject, casts>>

\* Mutant: ReadPump returns without sending on Unregister.
ReadErrorReturns(cl) ==
  /\ pc[cl] = "read"
  /\ Goto(cl, "done")
  /\ UNCHANGED <<registry, redis, sockets, todo, target, subject, casts>>

\* ReadMessage fails, because the connection is closed or the read deadline
\* has passed; the defer of ReadPump sends on Unregister.
ReadError(cl) ==
  /\ pc[cl] = "read"
  /\ Goto(cl, "exit")
  /\ UNCHANGED <<registry, redis, sockets, todo, target, subject, casts>>

\* WritePump takes a frame and writes it; a failed write, or a write that
\* passes its deadline, ends the pump and closes the connection.
WriteFrame(cl) ==
  /\ writer[cl] = "run" /\ send[cl] > 0
  /\ send' = [send EXCEPT ![cl] = @ - 1]
  /\ \/ conn[cl] = "open" /\ UNCHANGED <<conn, writer>>
     \/ /\ writer' = [writer EXCEPT ![cl] = "stopped"]
        /\ conn' = [conn EXCEPT ![cl] = "closed"]
  /\ UNCHANGED <<registry, redis, pc, todo, target, subject, casts>>

\* The ticker fires and the ping cannot be written.
PingError(cl) ==
  /\ writer[cl] = "run" /\ conn[cl] = "closed"
  /\ writer' = [writer EXCEPT ![cl] = "stopped"]
  /\ UNCHANGED <<registry, redis, conn, send, pc, todo, target, subject, casts>>

Request(cl) ==
  \/ HandleQuery(cl)
  \/ HandleRequest(cl)
  \/ \E p \in Pushers : HandleFollow(cl, p)
  \/ HandleTopic(cl)

-----------------------------------------------------------------------------
Init ==
  /\ clients = [u \in Users |-> NoClient]
  /\ members = [r \in Rooms |-> {}]
  /\ topicUserRoom = [u \in Users |-> NoRoom] /\ late = {}
  /\ online = {}
  /\ conn = [cl \in Clients |-> "none"]
  /\ send = [cl \in Clients |-> 0]
  /\ writer = [cl \in Clients |-> "none"]
  /\ pc = [p \in Procs |-> IF p = Hub THEN "select"
                           ELSE IF p \in Pushers THEN "idle" ELSE "new"]
  /\ todo = [p \in Procs |-> {}]
  /\ target = [p \in Procs |-> NoClient]
  /\ subject = NoClient
  /\ casts = [p \in Procs |-> 0]
  /\ drift = {} /\ faults = 0

ClientStep(cl) ==
  \/ Connect(cl) \/ StartPumps(cl) \/ PeerClose(cl) \/ Request(cl)
  \/ JoinTopicRoom(cl) \/ LeaveTopicRoom(cl)
  \/ Reply(cl) \/ ReadError(cl) \/ WriteFrame(cl) \/ PingError(cl)
  \/ HubReceiveRegister(cl)

Next ==
  \/ HubStep
  \/ \E cl \in Clients : ClientStep(cl)
  \/ \E p \in Procs \ {Hub} : Push(p) \/ HubReceiveUnregister(p)
  \/ Crash

Spec == Init /\ [][Next]_vars

\* What moves the goroutine p on from where it is, when it owes a step: not
\* the arrival of a request, nor the first step of a new connection.
Progress(p) ==
  \/ Push(p)
  \/ HubReceiveUnregister(p)
  \/ /\ p \in Clients
     /\ \/ HubReceiveRegister(p) \/ StartPumps(p)
        \/ JoinTopicRoom(p) \/ LeaveTopicRoom(p) \/ Reply(p)

(***************************************************************************)
(* Fairness.  Goroutines are preemptive, so one that can move does move:   *)
(* WF for the hub and for WritePump, whose writes have a deadline and      *)
(* whose ticker always fires.  A reader or a pusher may also wait to send  *)
(* on Register, Unregister or Send; a channel serves its waiting senders   *)
(* first come first served, and select picks among the ready cases at      *)
(* random: SF.  A closed connection has only so much buffered: in the end  *)
(* its ReadMessage fails, SF.  Peers owe nothing: neither requests nor     *)
(* closing is fair.                                                        *)
(***************************************************************************)
Fairness ==
  /\ WF_vars(HubStep)
  /\ \A p \in Procs \ {Hub} : SF_vars(Progress(p))
  /\ \A cl \in Clients : WF_vars(WriteFrame(cl) \/ PingError(cl))
  /\ \A cl \in Clients : SF_vars(conn[cl] = "closed" /\ ReadError(cl))

FairSpec == Spec /\ Fairness

-----------------------------------------------------------------------------
\* Every variable stays in its domain; no channel holds more than its capacity.
TypeOK ==
  /\ clients \in [Users -> Clients \cup {NoClient}]
  /\ members \in [Rooms -> SUBSET Users]
  /\ topicUserRoom \in [Users -> Rooms \cup {NoRoom}]
  /\ online \subseteq Users /\ late \subseteq Users
  /\ conn \in [Clients -> {"none", "open", "closed"}]
  /\ send \in [Clients -> 0 .. SendCap]
  /\ writer \in [Clients -> {"none", "run", "stopped"}]
  /\ pc \in [Procs -> ReaderAt \cup PusherAt \cup HubAt]
  /\ todo \in [Procs -> SUBSET Users]
  /\ target \in [Procs -> Clients \cup {NoClient}]
  /\ subject \in Clients \cup {NoClient}
  /\ casts \in [Procs -> 0 .. 2]
  /\ drift \subseteq Users /\ faults \in 0 .. MaxFaults

\* Whenever the hub is back in its select, the Redis set holds exactly the
\* users with a current connection, however registrations, replacements, late
\* unregistrations and evictions by other goroutines were interleaved.  A
\* command that fails, or a crash, leaves a user wrong only until the user's
\* next connection or disconnection that Redis hears of: a failed SREM does
\* not outlive a reconnect, and what a crash left behind goes with the next
\* disconnection.
OnlineMirrorsClients ==
  pc[Hub] = "select" =>
    \A u \in Users \ drift : u \in online <=> clients[u] # NoClient

Registered(cl) == pc[cl] \notin {"new", "register"}

\* A connection that is its user's current one no longer has been closed by
\* the time the hub is back in its select: its reader gets no more requests than
\* it has buffered.
SupersededIsClosed ==
  pc[Hub] = "select" =>
    \A cl \in Clients :
      Registered(cl) /\ clients[Uid[cl]] # cl => conn[cl] = "closed"

\* The two topic room maps agree: a user is a member of the room topicUserRoom
\* names and of no other.  And whenever the hub is back in its select, a member
\* has a connection ("fixed rooms + online subscription", proto/chat/chat.proto),
\* though the cleanup and the requests of several connections interleave.  The
\* exception is a member whom JoinTopicRoom added when the connection that asked
\* had been removed and no other had come: it does not look, and no cleanup
\* follows.
RoomsAgree ==
  /\ \A r \in Rooms : members[r] = {u \in Users : topicUserRoom[u] = r}
  /\ pc[Hub] = "select" =>
       \A u \in Users \ late : topicUserRoom[u] # NoRoom => clients[u] # NoClient

\* WS-001 of docs/specs/websocket.md, "Unregistering the stale client cannot
\* remove the replacement": an entry goes away only when the hub has
\* received from Unregister the very client it holds, and is overwritten only by
\* a client received from Register.
StaleCannotRemoveReplacement ==
  [][\A u \in Users :
       clients[u] # NoClient /\ clients'[u] # clients[u] /\ faults' = faults =>
         \/ pc[Hub] = "register" /\ clients'[u] = subject
         \/ pc[Hub] = "unregister" /\ clients'[u] = NoClient /\ clients[u] = subject]_vars

\* A user whose current connection has been removed leaves the Redis set, or
\* is connected again ("Closing the current connection removes the UID from
\* the Redis online set", docs/specs/websocket.md).
DisconnectedGoesOffline ==
  \A u \in Users :
    clients[u] = NoClient ~> (u \notin online \/ clients[u] # NoClient)

\* A reader waiting to reply into a full channel whose WritePump has ended: it
\* waits for ever, and its client is never unregistered.
StuckReply(cl) ==
  pc[cl] = "reply" /\ send[cl] = SendCap /\ writer[cl] = "stopped"

\* A closed connection does not stay its user's current one ("Closing the
\* current connection removes the UID from the Redis online set"), unless its
\* reader is stuck.
ClosedIsUnregisteredOrStuck ==
  \A cl \in Clients :
    (clients[Uid[cl]] = cl /\ conn[cl] = "closed")
      ~> (clients[Uid[cl]] # cl \/ StuckReply(cl))

\* Every goroutine that blocks on Unregister is received from, and every
\* connection that asks to be registered is.
RendezvousHappens ==
  \A p \in Procs \ {Hub} :
    pc[p] \in {"register", "evict", "exit"} ~> pc[p] \notin {"register", "evict", "exit"}
=============================================================================
