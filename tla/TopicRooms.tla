----------------------------- MODULE TopicRooms -----------------------------
(***************************************************************************)
(* Messages in the topic rooms, from the click of one user to the screen   *)
(* of another: the critical sections of topic_room.go, the reader          *)
(* goroutine of each connection that calls them and pushes afterwards, the *)
(* two queues of the connection, and the page of Chat.jsx.                 *)
(*                                                                         *)
(* Every user stays connected by one connection: Hub has the others.  A    *)
(* room's members are the users whom topicUserRoom puts there (RoomsAgree  *)
(* of Hub).  Pushes of members and counts are left out.  The page has      *)
(* rendered what a frame changed before the next frame or click.           *)
(***************************************************************************)
EXTENDS Naturals, Sequences, FiniteSets

CONSTANTS Users, Rooms, NoRoom,
          HistoryLimit,    \* topicRoomHistoryLimit, 120 in the code
          MaxRequests      \* bound: requests of all users together

ASSUME TopicRoomsAssumption ==
  /\ HistoryLimit \in Nat \ {0} /\ MaxRequests \in Nat /\ NoRoom \notin Rooms

VARIABLES
  topicUserRoom,     \* Server.topicUserRoom
  messages,          \* topicRoomState.messages of each room
  topicMessageSeq,   \* how many messages there have been in all rooms
  requests,          \* requests of each page that its reader has not read
  reader,            \* what each reader has still to push and to reply
  frames,            \* frames on their way to each page
  activeTopicRoomId, \* the room each page shows
  topicMessages,     \* what each page lists of each room
  asked,             \* how many requests there have been
  posted,            \* history: all messages of each room
  joining,           \* history: how many messages the room had when the user
                     \* last joined it, and when the answer was sent
  astray             \* history: a join has failed after it took effect, and
                     \* none has succeeded since

server  == <<topicUserRoom, messages, topicMessageSeq, posted>>
page    == <<activeTopicRoomId, topicMessages>>
history == <<joining, astray>>
vars == <<server, requests, reader, frames, page, asked, history>>

\* The id of a message is its topicMessageSeq.
Message == [id : 1 .. MaxRequests, room : Rooms, sender : Users]
Request == [kind : {"join", "leave", "send"}, room : Rooms]
Frame   == [kind : {"joined", "left", "message", "error"},
            room : Rooms \cup {NoRoom}, list : Seq(Message)]

Joined(room, list) == [kind |-> "joined", room |-> room, list |-> list]
Left(room)         == [kind |-> "left", room |-> room, list |-> <<>>]
NewMessage(m)      == [kind |-> "message", room |-> m.room, list |-> <<m>>]
Refused            == [kind |-> "error", room |-> NoRoom, list |-> <<>>]

\* A reader: whether it has a request in hand, and then its reply and the
\* users it has still to push to.
Waiting == [busy |-> FALSE, reply |-> Refused, recipients |-> {}]

Members(room) == {u \in Users : topicUserRoom[u] = room}
Elements(s) == {s[i] : i \in DOMAIN s}

-----------------------------------------------------------------------------
(* The page: clicks. *)

Ask(u, kind, room) ==
  /\ asked < MaxRequests
  /\ asked' = asked + 1
  /\ requests' = [requests EXCEPT ![u] = Append(@, [kind |-> kind, room |-> room])]
  /\ UNCHANGED <<server, reader, frames, history>>

\* handleSelectTopicRoom: the page shows the room when the answer is there.
SelectTopicRoom(u, room) ==
  /\ activeTopicRoomId[u] # room
  /\ Ask(u, "join", room)
  /\ UNCHANGED page

\* Mutant: another view is opened and the room is not left.
SelectConversationSilently(u) ==
  /\ activeTopicRoomId[u] # NoRoom
  /\ activeTopicRoomId' = [activeTopicRoomId EXCEPT ![u] = NoRoom]
  /\ UNCHANGED <<server, requests, reader, frames, topicMessages, asked, history>>

\* handleSelectConversation, or another tab: leaveTopicRoom does not wait for
\* the answer.
SelectConversation(u) ==
  /\ activeTopicRoomId[u] # NoRoom
  /\ Ask(u, "leave", activeTopicRoomId[u])
  /\ activeTopicRoomId' = [activeTopicRoomId EXCEPT ![u] = NoRoom]
  /\ UNCHANGED topicMessages

SendMessage(u) ==
  /\ activeTopicRoomId[u] # NoRoom
  /\ Ask(u, "send", activeTopicRoomId[u])
  /\ UNCHANGED page

-----------------------------------------------------------------------------
(* The reader of u: one request at a time, read, pushed about, answered.   *)

\* It reads a request and decides on the reply and on whom to push to.
Handle(u, kind, reply, recipients) ==
  /\ ~reader[u].busy
  /\ requests[u] # <<>> /\ Head(requests[u]).kind = kind
  /\ requests' = [requests EXCEPT ![u] = Tail(@)]
  /\ reader' = [reader EXCEPT ![u] = [busy |-> TRUE, reply |-> reply, recipients |-> recipients]]
  /\ UNCHANGED <<frames, page, asked>>

Asked(u) == Head(requests[u]).room

\* JoinTopicRoom: the history is cloned in the critical section.  The query
\* that names the members may fail after it, and the reply is then an error.
JoinTopicRoom(u) ==
  /\ requests[u] # <<>>
  /\ \E named \in BOOLEAN :
       /\ Handle(u, "join", IF named THEN Joined(Asked(u), messages[Asked(u)]) ELSE Refused, {})
       /\ astray' = [astray EXCEPT ![u] = ~named]
  /\ topicUserRoom' = [topicUserRoom EXCEPT ![u] = Asked(u)]
  /\ joining' = [joining EXCEPT ![u].from = Len(posted[Asked(u)])]
  /\ UNCHANGED <<messages, topicMessageSeq, posted>>

LeaveTopicRoom(u) ==
  /\ requests[u] # <<>>
  /\ LET room == topicUserRoom[u]
     IN  IF room \in {NoRoom, Asked(u)}
         THEN /\ Handle(u, "leave", Left(room), {})
              /\ topicUserRoom' = [topicUserRoom EXCEPT ![u] = NoRoom]
         ELSE Handle(u, "leave", Refused, {}) /\ UNCHANGED topicUserRoom
  /\ UNCHANGED <<messages, topicMessageSeq, posted, history>>

\* Mutant: the oldest messages are kept.
TrimmedOldest(s) == SubSeq(s, 1, IF Len(s) > HistoryLimit THEN HistoryLimit ELSE Len(s))

\* Mutant: one message too many is kept.
TrimmedLate(s) ==
  IF Len(s) > HistoryLimit + 1 THEN SubSeq(s, Len(s) - HistoryLimit, Len(s)) ELSE s

\* A history over the limit is cut to its newest messages.
Trimmed(s) ==
  IF Len(s) > HistoryLimit THEN SubSeq(s, Len(s) - HistoryLimit + 1, Len(s)) ELSE s

\* SendTopicRoomMessage, and the handler that leaves the sender out.
SendTopicRoomMessage(u) ==
  /\ requests[u] # <<>>
  /\ LET room == Asked(u)
         m == [id |-> topicMessageSeq + 1, room |-> room, sender |-> u]
     IN  IF topicUserRoom[u] = room
         THEN /\ Handle(u, "send", NewMessage(m), Members(room) \ {u})
              /\ messages' = [messages EXCEPT ![room] = Trimmed(Append(@, m))]
              /\ posted' = [posted EXCEPT ![room] = Append(@, m)]
              /\ topicMessageSeq' = topicMessageSeq + 1
         ELSE /\ Handle(u, "send", Refused, {})
              /\ UNCHANGED <<messages, topicMessageSeq, posted>>
  /\ UNCHANGED <<topicUserRoom, history>>

\* PushTopicRoomMessage: SendToUser, one recipient after the other.
Push(u) ==
  /\ \E v \in reader[u].recipients :
       /\ reader' = [reader EXCEPT ![u].recipients = @ \ {v}]
       /\ frames' = [frames EXCEPT ![v] = Append(@, reader[u].reply)]
  /\ UNCHANGED <<server, requests, page, asked, history>>

Reply(u) ==
  /\ reader[u].busy /\ reader[u].recipients = {}
  /\ frames' = [frames EXCEPT ![u] = Append(@, reader[u].reply)]
  /\ joining' = IF reader[u].reply.kind = "joined"
                THEN [joining EXCEPT ![u].until = Len(posted[reader[u].reply.room])]
                ELSE joining
  /\ reader' = [reader EXCEPT ![u] = Waiting]
  /\ UNCHANGED <<server, requests, page, asked, astray>>

-----------------------------------------------------------------------------
(* The page: frames, in the order they were sent. *)

Receive(u, kind) ==
  /\ frames[u] # <<>> /\ Head(frames[u]).kind = kind
  /\ frames' = [frames EXCEPT ![u] = Tail(@)]
  /\ UNCHANGED <<server, requests, reader, asked, history>>

\* joinTopicRoomResponse: what was listed of the room is replaced.
ReceiveJoined(u) ==
  /\ Receive(u, "joined")
  /\ LET f == Head(frames[u])
     IN  /\ activeTopicRoomId' = [activeTopicRoomId EXCEPT ![u] = f.room]
         /\ topicMessages' = [topicMessages EXCEPT ![u][f.room] = f.list]

ReceiveLeft(u) ==
  /\ Receive(u, "left")
  /\ activeTopicRoomId' = IF Head(frames[u]).room = activeTopicRoomId[u]
                          THEN [activeTopicRoomId EXCEPT ![u] = NoRoom]
                          ELSE activeTopicRoomId
  /\ UNCHANGED topicMessages

\* Mutant: a message that is listed already is listed again.
WithMessageAgain(list, m) == Append(list, m)

\* addTopicMessage
WithMessage(list, m) == IF m \in Elements(list) THEN list ELSE Append(list, m)

\* sendTopicRoomMessageResponse and topicRoomMessagePush
ReceiveMessage(u) ==
  /\ Receive(u, "message")
  /\ LET m == Head(Head(frames[u]).list)
     IN  topicMessages' = [topicMessages EXCEPT ![u][m.room] = WithMessage(@, m)]
  /\ UNCHANGED activeTopicRoomId

ReceiveError(u) == Receive(u, "error") /\ UNCHANGED page

-----------------------------------------------------------------------------
Init ==
  /\ topicUserRoom = [u \in Users |-> NoRoom]
  /\ messages = [r \in Rooms |-> <<>>]
  /\ topicMessageSeq = 0
  /\ requests = [u \in Users |-> <<>>]
  /\ reader = [u \in Users |-> Waiting]
  /\ frames = [u \in Users |-> <<>>]
  /\ activeTopicRoomId = [u \in Users |-> NoRoom]
  /\ topicMessages = [u \in Users |-> [r \in Rooms |-> <<>>]]
  /\ asked = 0
  /\ posted = [r \in Rooms |-> <<>>]
  /\ joining = [u \in Users |-> [from |-> 0, until |-> 0]]
  /\ astray = [u \in Users |-> FALSE]

Next ==
  \E u \in Users :
    \/ \E room \in Rooms : SelectTopicRoom(u, room)
    \/ SelectConversation(u) \/ SendMessage(u)
    \/ JoinTopicRoom(u) \/ LeaveTopicRoom(u) \/ SendTopicRoomMessage(u)
    \/ Push(u) \/ Reply(u)
    \/ ReceiveJoined(u) \/ ReceiveLeft(u) \/ ReceiveMessage(u) \/ ReceiveError(u)

Spec == Init /\ [][Next]_vars

-----------------------------------------------------------------------------
\* Every variable stays in its domain, and no history is over its limit.
TypeOK ==
  /\ topicUserRoom \in [Users -> Rooms \cup {NoRoom}]
  /\ messages \in [Rooms -> Seq(Message)]
  /\ \A r \in Rooms : Len(messages[r]) <= HistoryLimit
  /\ topicMessageSeq \in 0 .. MaxRequests
  /\ requests \in [Users -> Seq(Request)]
  /\ reader \in [Users -> [busy : BOOLEAN, reply : Frame, recipients : SUBSET Users]]
  /\ frames \in [Users -> Seq(Frame)]
  /\ activeTopicRoomId \in [Users -> Rooms \cup {NoRoom}]
  /\ topicMessages \in [Users -> [Rooms -> Seq(Message)]]
  /\ asked \in 0 .. MaxRequests
  /\ posted \in [Rooms -> Seq(Message)]
  /\ joining \in [Users -> [from : Nat, until : Nat]]
  /\ astray \in [Users -> BOOLEAN]

\* Nothing that u asked for, or that is pushed to u, is under way.
Settled(u) ==
  /\ requests[u] = <<>> /\ ~reader[u].busy /\ frames[u] = <<>>
  /\ \A v \in Users : u \notin reader[v].recipients

\* When everything has settled, the page shows the room the server has the
\* user in, in whatever order the user switched, left and wrote before the
\* answers came; the one exception is a join that failed after it took effect.
PageAgrees ==
  \A u \in Users :
    Settled(u) => activeTopicRoomId[u] = topicUserRoom[u] \/ astray[u]

\* A page that has settled lists the newest messages the room had when the
\* user joined, up to the limit, and every message since the join was
\* answered.  (A message posted in between is pushed ahead of the answer,
\* which then replaces the list: it is the only kind that is lost.)
MissedOnlyWhileJoining ==
  \A u \in Users :
    LET room == activeTopicRoomId[u]
    IN  Settled(u) /\ room # NoRoom /\ ~astray[u] =>
          \A i \in DOMAIN posted[room] :
            \/ i + HistoryLimit > joining[u].from /\ i <= joining[u].from
            \/ i > joining[u].until
            => posted[room][i] \in Elements(topicMessages[u][room])

\* No page ever lists a message twice, nor the messages of one sender in
\* another order than they were posted in: the sender's reader has pushed one
\* to everybody before it reads the next request.
SenderOrderKept ==
  \A u \in Users, r \in Rooms :
    LET list == topicMessages[u][r]
    IN  \A i, j \in DOMAIN list :
          i < j /\ list[i].sender = list[j].sender => list[i].id < list[j].id
=============================================================================
