--------------------------- MODULE TopicRoomsProofs ---------------------------
(***************************************************************************)
(* Proofs about TopicRooms, for any number of users, rooms and requests    *)
(* and a history of any length: page and server end up in the same room,   *)
(* what a page may miss, and in which order it lists what it has.          *)
(***************************************************************************)
EXTENDS TopicRooms, SequenceTheorems, FiniteSetTheorems, TLAPS

(***************************************************************************)
(* The inductive invariant.                                                *)
(***************************************************************************)

\* Every message is one of the requests that were made; what is not served yet
\* may still become one.
Unserved == {x \in Users \X Nat : x[2] \in DOMAIN requests[x[1]]}
Budget == IsFiniteSet(Unserved) /\ topicMessageSeq + Cardinality(Unserved) <= asked

Posted(m) == \E r \in Rooms : \E i \in DOMAIN posted[r] : posted[r][i] = m
Sorted(list) == \A i, j \in DOMAIN list : i < j => list[i].id < list[j].id

\* The list is the end of the whole, of the length of the limit or all of it.
EndOf(list, whole) ==
  /\ Len(list) <= Len(whole)
  /\ Len(list) = HistoryLimit \/ Len(list) = Len(whole)
  /\ \A k \in DOMAIN list : list[k] = whole[k + (Len(whole) - Len(list))]

\* The messages of a room are in the order of their ids, which are unique, and
\* its history is the end of them.
Log ==
  /\ \A r \in Rooms : \A i \in DOMAIN posted[r] :
       posted[r][i].room = r /\ posted[r][i].id <= topicMessageSeq
  /\ \A r \in Rooms : Sorted(posted[r])
  /\ \A m, n \in Message : Posted(m) /\ Posted(n) /\ m.id = n.id => m = n
  /\ \A r \in Rooms : EndOf(messages[r], posted[r])

\* A frame says what the server has.
Proper(f) ==
  /\ \A i \in DOMAIN f.list : Posted(f.list[i])
  /\ f.kind = "joined" =>
       f.room \in Rooms /\ Sorted(f.list) /\ \A i \in DOMAIN f.list : f.list[i].room = f.room
  /\ f.kind = "message" => Len(f.list) = 1 /\ f.list[1].room = f.room
  /\ f.kind \in {"left", "error"} => f.list = <<>>

\* What a reader has in hand: the history of the room that it put the user in,
\* or the newest message of the user, for others.
InHand(u) ==
  /\ Proper(reader[u].reply)
  /\ ~ reader[u].busy => reader[u] = Waiting
  /\ reader[u].reply.kind = "joined" => topicUserRoom[u] = reader[u].reply.room
  /\ reader[u].reply.kind = "message" =>
       /\ reader[u].reply.list[1].sender = u
       /\ \A m \in Message : Posted(m) /\ m.sender = u => m.id <= reader[u].reply.list[1].id
       /\ u \notin reader[u].recipients
  /\ reader[u].reply.kind # "message" => reader[u].recipients = {}

Readers == \A u \in Users : InHand(u)

\* What is on its way to a page, and what the page lists.
Traffic ==
  /\ \A u \in Users : \A i \in DOMAIN frames[u] : Proper(frames[u][i])
  /\ \A u \in Users, r \in Rooms : \A i \in DOMAIN topicMessages[u][r] :
       Posted(topicMessages[u][r][i])

\* The frame is a message of s, or the answer of a join.
From(f, s) == f.kind = "message" /\ f.list[1].sender = s
Joins(f) == f.kind = "joined"

\* The reader of s has still to send its message to u.
Owes(s, u) ==
  /\ reader[s].reply.kind = "message"
  /\ u \in reader[s].recipients \/ u = s

\* Messages of one sender are on their way in order, and after every list that
\* has a newer one.
InOrder(u) ==
  /\ \A i, j \in DOMAIN frames[u], s \in Users :
       i < j /\ From(frames[u][j], s) =>
         /\ From(frames[u][i], s) => frames[u][i].list[1].id < frames[u][j].list[1].id
         /\ Joins(frames[u][i]) =>
              \A k \in DOMAIN frames[u][i].list :
                frames[u][i].list[k].sender = s => frames[u][i].list[k].id <= frames[u][j].list[1].id
  /\ \A i \in DOMAIN frames[u], s \in Users :
       From(frames[u][i], s) =>
         /\ Owes(s, u) => frames[u][i].list[1].id < reader[s].reply.list[1].id
         /\ \A r \in Rooms : \A k \in DOMAIN topicMessages[u][r] :
              topicMessages[u][r][k].sender = s =>
                topicMessages[u][r][k].id <= frames[u][i].list[1].id

Order == SenderOrderKept /\ \A u \in Users : InOrder(u)

\* The room x that a page will show which shows a and handles the frames fs.
Leaves(f, a) == f.kind = "left" /\ f.room = a
Leads(a, fs, x) ==
  \/ \E i \in DOMAIN fs :
       /\ Joins(fs[i]) /\ \A j \in DOMAIN fs : j > i => ~ Joins(fs[j])
       /\ x = IF \E j \in DOMAIN fs : j > i /\ Leaves(fs[j], fs[i].room) THEN NoRoom ELSE fs[i].room
  \/ /\ \A i \in DOMAIN fs : ~ Joins(fs[i])
     /\ x = IF \E i \in DOMAIN fs : Leaves(fs[i], a) THEN NoRoom ELSE a

\* The same after one more frame.
After(x, f) == IF Joins(f) THEN f.room ELSE IF Leaves(f, x) THEN NoRoom ELSE x

\* The page will show the room the server has the user in, or it has asked to
\* leave that room, or a join has failed after it took effect.
WillAgree(u) ==
  \E x \in Rooms \cup {NoRoom} :
    /\ Leads(activeTopicRoomId[u], frames[u], x)
    /\ \/ After(x, reader[u].reply) = topicUserRoom[u]
       \/ /\ After(x, reader[u].reply) = NoRoom
          /\ \E i \in DOMAIN requests[u] :
               requests[u][i] = [kind |-> "leave", room |-> topicUserRoom[u]]
       \/ astray[u]

\* The message is listed, on its way to be listed, or about to be sent; no list
\* that comes later replaces it.
Reaches(u, m) ==
  \/ \E s \in Users : u \in reader[s].recipients /\ reader[s].reply.list[1] = m
  \/ m \in Elements(reader[u].reply.list)
  \/ \E i \in DOMAIN frames[u] :
       /\ m \in Elements(frames[u][i].list)
       /\ \A j \in DOMAIN frames[u] : j > i => ~ (Joins(frames[u][j]) /\ frames[u][j].room = m.room)
  \/ /\ \A i \in DOMAIN frames[u] : ~ (Joins(frames[u][i]) /\ frames[u][i].room = m.room)
     /\ m \in Elements(topicMessages[u][m.room])

\* The i-th message of the room was in its history when u joined.
InHistory(u, i) == i + HistoryLimit > joining[u].from /\ i <= joining[u].from

\* What the user's room had when the user joined it is in the answer, and what
\* it has had since the answer was sent reaches the page.
Heard(u) ==
  topicUserRoom[u] # NoRoom =>
    /\ joining[u].from <= Len(posted[topicUserRoom[u]])
    /\ ~ astray[u] =>
         \A i \in DOMAIN posted[topicUserRoom[u]] :
           IF Joins(reader[u].reply)
           THEN InHistory(u, i) => posted[topicUserRoom[u]][i] \in Elements(reader[u].reply.list)
           ELSE InHistory(u, i) \/ i > joining[u].until => Reaches(u, posted[topicUserRoom[u]][i])

IInv ==
  /\ TypeOK /\ Budget
  /\ Log /\ Readers /\ Traffic /\ Order
  /\ \A u \in Users : WillAgree(u) /\ Heard(u)

-----------------------------------------------------------------------------
(* Sequences, frames and the order of the actions. *)

LEMMA Appended ==
  ASSUME NEW S, NEW s \in Seq(S), NEW e \in S
  PROVE  /\ Append(s, e) \in Seq(S) /\ Len(Append(s, e)) = Len(s) + 1 /\ Len(s) \in Nat
         /\ DOMAIN s = 1 .. Len(s) /\ DOMAIN Append(s, e) = 1 .. Len(s) + 1
         /\ \A i \in DOMAIN s : i \in DOMAIN Append(s, e) /\ Append(s, e)[i] = s[i] /\ i <= Len(s)
         /\ \A i \in DOMAIN Append(s, e) :
              i \in Nat /\ ((i \in DOMAIN s /\ Append(s, e)[i] = s[i]) \/ i = Len(s) + 1)
         /\ Len(s) + 1 \in DOMAIN Append(s, e) /\ Append(s, e)[Len(s) + 1] = e
  OBVIOUS

LEMMA Tailed ==
  ASSUME NEW S, NEW s \in Seq(S), s # <<>>
  PROVE  /\ Tail(s) \in Seq(S) /\ Head(s) = s[1] /\ s[1] \in S
         /\ Len(s) \in Nat \ {0} /\ DOMAIN s = 1 .. Len(s) /\ DOMAIN Tail(s) = 1 .. Len(s) - 1
         /\ 1 \in DOMAIN s
         /\ \A i \in DOMAIN s : i \in Nat /\ s[i] \in S
         /\ \A i \in DOMAIN Tail(s) : i \in Nat /\ i > 0 /\ i + 1 \in DOMAIN s /\ Tail(s)[i] = s[i + 1]
         /\ \A i \in DOMAIN s : i = 1 \/ (i - 1 \in DOMAIN Tail(s) /\ Tail(s)[i - 1] = s[i])
  OBVIOUS

LEMMA FrameTypes ==
  /\ Waiting \in [busy : BOOLEAN, reply : Frame, recipients : SUBSET Users]
  /\ Refused \in Frame
  /\ \A r \in Rooms \cup {NoRoom} : Left(r) \in Frame
  /\ \A r \in Rooms, list \in Seq(Message) : Joined(r, list) \in Frame
  /\ \A m \in Message : NewMessage(m) \in Frame
  BY DEF Waiting, Refused, Left, Joined, NewMessage, Frame, Message

\* The three clicks, the three services and the four frames.
Clicks(u) ==
  \/ \E room \in Rooms : SelectTopicRoom(u, room)
  \/ SelectConversation(u)
  \/ SendMessage(u)
Serves(u) == JoinTopicRoom(u) \/ LeaveTopicRoom(u) \/ SendTopicRoomMessage(u)
Receives(u) == ReceiveJoined(u) \/ ReceiveLeft(u) \/ ReceiveMessage(u) \/ ReceiveError(u)

LEMMA Cases ==
  ASSUME Next
  PROVE  \E u \in Users : Clicks(u) \/ Serves(u) \/ Push(u) \/ Reply(u) \/ Receives(u)
  BY DEF Next, Clicks, Serves, Receives

\* A request is one of those that are still unserved.
LEMMA Counted ==
  ASSUME TypeOK, Budget, NEW u \in Users, requests[u] # <<>>
  PROVE  topicMessageSeq + 1 \in 1 .. MaxRequests
  <1>1. <<u, 1>> \in Unserved
    BY Tailed DEF TypeOK, Unserved
  <1>2. Cardinality(Unserved) \in Nat /\ Cardinality(Unserved) # 0
    BY <1>1, FS_CardinalityType, FS_EmptySet DEF Budget
  <1> QED BY <1>2, TopicRoomsAssumption DEF TypeOK, Budget, TopicRoomsAssumption

-----------------------------------------------------------------------------
(* Types and the number of messages. *)

LEMMA TypesInit == ASSUME Init PROVE TypeOK /\ Budget
  <1> USE TopicRoomsAssumption DEF Init, TopicRoomsAssumption
  <1>1. TypeOK
    BY FrameTypes DEF TypeOK
  <1>2. Unserved = {}
    BY DEF Unserved
  <1>3. QED BY <1>1, <1>2, FS_EmptySet DEF Budget

LEMMA TypesStep == ASSUME TypeOK, Budget, Readers, Traffic, Next PROVE TypeOK'
  <1> PICK u \in Users : Clicks(u) \/ Serves(u) \/ Push(u) \/ Reply(u) \/ Receives(u)
    BY Cases
  <1> USE TopicRoomsAssumption DEF TopicRoomsAssumption
  <1>1. CASE Clicks(u)
    <2>1. ASSUME NEW kind \in {"join", "leave", "send"}, NEW room \in Rooms, Ask(u, kind, room),
                 activeTopicRoomId' \in [Users -> Rooms \cup {NoRoom}],
                 UNCHANGED topicMessages
          PROVE  TypeOK'
      <3>1. [kind |-> kind, room |-> room] \in Request
        BY DEF Request
      <3>2. requests' \in [Users -> Seq(Request)]
        BY <2>1, <3>1, Appended DEF Ask, TypeOK
      <3> QED BY <2>1, <3>2 DEF TypeOK, Ask, server, history
    <2>2. activeTopicRoomId[u] # NoRoom => activeTopicRoomId[u] \in Rooms
      BY DEF TypeOK
    <2>3. CASE \E room \in Rooms : SelectTopicRoom(u, room)
      BY <2>1, <2>3 DEF SelectTopicRoom, page, TypeOK
    <2>4. CASE SelectConversation(u)
      BY <2>1, <2>2, <2>4 DEF SelectConversation, TypeOK
    <2>5. CASE SendMessage(u)
      BY <2>1, <2>2, <2>5 DEF SendMessage, page, TypeOK
    <2> QED BY <1>1, <2>3, <2>4, <2>5 DEF Clicks
  <1>2. CASE Serves(u)
    <2>1. requests[u] # <<>>
      BY <1>2 DEF Serves, JoinTopicRoom, LeaveTopicRoom, SendTopicRoomMessage
    <2>2. Asked(u) \in Rooms
      <3>1. requests[u] \in Seq(Request)
        BY DEF TypeOK
      <3>2. Head(requests[u]) \in Request
        BY <2>1, <3>1, Tailed
      <3> QED BY <3>2 DEF Asked, Request
    <2>3. ASSUME NEW kind, NEW reply \in Frame, NEW recipients \in SUBSET Users,
                 Handle(u, kind, reply, recipients)
          PROVE  /\ requests' \in [Users -> Seq(Request)]
                 /\ reader' \in [Users -> [busy : BOOLEAN, reply : Frame, recipients : SUBSET Users]]
                 /\ UNCHANGED <<frames, activeTopicRoomId, topicMessages, asked>>
      <3>1. Tail(requests[u]) \in Seq(Request)
        BY <2>1, Tailed DEF TypeOK
      <3> QED BY <2>3, <3>1 DEF Handle, page, TypeOK
    <2>4. CASE JoinTopicRoom(u)
      <3>1. PICK named \in BOOLEAN :
              /\ Handle(u, "join", IF named THEN Joined(Asked(u), messages[Asked(u)]) ELSE Refused, {})
              /\ astray' = [astray EXCEPT ![u] = ~named]
        BY <2>4 DEF JoinTopicRoom
      <3>2. (IF named THEN Joined(Asked(u), messages[Asked(u)]) ELSE Refused) \in Frame
        BY <2>2, FrameTypes DEF TypeOK
      <3>3. Len(posted[Asked(u)]) \in Nat
        BY <2>2 DEF TypeOK
      <3>4. joining' \in [Users -> [from : Nat, until : Nat]]
        <4>1. joining' = [joining EXCEPT ![u].from = Len(posted[Asked(u)])]
          BY <2>4 DEF JoinTopicRoom
        <4>2. joining \in [Users -> [from : Nat, until : Nat]]
          BY DEF TypeOK
        <4> QED BY <3>3, <4>1, <4>2
      <3>5. /\ requests' \in [Users -> Seq(Request)]
            /\ reader' \in [Users -> [busy : BOOLEAN, reply : Frame, recipients : SUBSET Users]]
            /\ UNCHANGED <<frames, activeTopicRoomId, topicMessages, asked>>
        <4>1. {} \in SUBSET Users
          OBVIOUS
        <4> QED BY <3>1, <3>2, <2>3, <4>1
      <3>6. astray' \in [Users -> BOOLEAN]
        BY <3>1, Zenon DEF TypeOK
      <3>7. topicUserRoom' \in [Users -> Rooms \cup {NoRoom}]
        BY <2>2, <2>4 DEF JoinTopicRoom, TypeOK
      <3> QED BY <2>4, <3>4, <3>5, <3>6, <3>7 DEF JoinTopicRoom, TypeOK
    <2>5. CASE LeaveTopicRoom(u)
      <3>1. Left(topicUserRoom[u]) \in Frame /\ Refused \in Frame
        BY FrameTypes DEF TypeOK
      <3>2. PICK reply \in Frame : Handle(u, "leave", reply, {})
        BY <2>5, <3>1 DEF LeaveTopicRoom
      <3>3. /\ requests' \in [Users -> Seq(Request)]
            /\ reader' \in [Users -> [busy : BOOLEAN, reply : Frame, recipients : SUBSET Users]]
            /\ UNCHANGED <<frames, activeTopicRoomId, topicMessages, asked>>
        <4>1. {} \in SUBSET Users
          OBVIOUS
        <4> QED BY <3>2, <2>3, <4>1
      <3>4. topicUserRoom' \in [Users -> Rooms \cup {NoRoom}]
        BY <2>5 DEF LeaveTopicRoom, TypeOK
      <3> QED BY <2>5, <3>3, <3>4 DEF LeaveTopicRoom, TypeOK, history
    <2>6. CASE SendTopicRoomMessage(u)
      <3> DEFINE m == [id |-> topicMessageSeq + 1, room |-> Asked(u), sender |-> u]
      <3>1. m \in Message
        BY <2>1, <2>2, Counted DEF Message
      <3>2. NewMessage(m) \in Frame /\ Refused \in Frame
        BY <3>1, FrameTypes
      <3>3. Append(posted[Asked(u)], m) \in Seq(Message) /\ Append(messages[Asked(u)], m) \in Seq(Message)
        BY <2>2, <3>1, Appended DEF TypeOK
      <3>4. /\ Trimmed(Append(messages[Asked(u)], m)) \in Seq(Message)
            /\ Len(Trimmed(Append(messages[Asked(u)], m))) <= HistoryLimit
        <4> DEFINE s == Append(messages[Asked(u)], m)
        <4>1. s \in Seq(Message) /\ Len(s) \in Nat
          BY <3>3
        <4> HIDE DEF s
        <4>2. ASSUME Len(s) > HistoryLimit
              PROVE  Trimmed(s) \in Seq(Message) /\ Len(Trimmed(s)) <= HistoryLimit
          <5>1. SubSeq(s, Len(s) - HistoryLimit + 1, Len(s)) \in Seq(Message)
            BY <4>1, <4>2
          <5>2. Len(SubSeq(s, Len(s) - HistoryLimit + 1, Len(s))) = HistoryLimit
            BY <4>1, <4>2
          <5> QED BY <4>2, <5>1, <5>2 DEF Trimmed
        <4>3. ASSUME ~ (Len(s) > HistoryLimit)
              PROVE  Trimmed(s) \in Seq(Message) /\ Len(Trimmed(s)) <= HistoryLimit
          BY <4>1, <4>3 DEF Trimmed
        <4>4. Trimmed(s) \in Seq(Message) /\ Len(Trimmed(s)) <= HistoryLimit
          BY <4>2, <4>3
        <4> QED BY <4>4 DEF s
      <3>5. Members(Asked(u)) \ {u} \in SUBSET Users /\ {} \in SUBSET Users
        BY DEF Members
      <3>6. topicMessageSeq + 1 \in 0 .. MaxRequests
        BY <2>1, Counted
      <3>7. CASE topicUserRoom[u] = Asked(u)
        <4>1. /\ Handle(u, "send", NewMessage(m), Members(Asked(u)) \ {u})
              /\ messages' = [messages EXCEPT ![Asked(u)] = Trimmed(Append(@, m))]
              /\ posted' = [posted EXCEPT ![Asked(u)] = Append(@, m)]
              /\ topicMessageSeq' = topicMessageSeq + 1
              /\ UNCHANGED <<topicUserRoom, history>>
          BY <2>6, <3>7 DEF SendTopicRoomMessage
        <4>2. /\ requests' \in [Users -> Seq(Request)]
              /\ reader' \in [Users -> [busy : BOOLEAN, reply : Frame, recipients : SUBSET Users]]
              /\ UNCHANGED <<frames, activeTopicRoomId, topicMessages, asked>>
          BY <4>1, <2>3, <3>2, <3>5
        <4> HIDE DEF m
        <4>3. messages' \in [Rooms -> Seq(Message)] /\ posted' \in [Rooms -> Seq(Message)]
          BY <4>1, <3>3, <3>4, <2>2 DEF TypeOK
        <4>4. \A r \in Rooms : Len(messages'[r]) <= HistoryLimit
          <5> TAKE r \in Rooms
          <5>1. CASE r = Asked(u) BY <5>1, <4>1, <3>4 DEF TypeOK
          <5>2. CASE r # Asked(u) BY <5>2, <4>1 DEF TypeOK
          <5> QED BY <5>1, <5>2
        <4> QED BY <4>1, <4>2, <4>3, <4>4, <3>6 DEF TypeOK, history
      <3>8. CASE topicUserRoom[u] # Asked(u)
        <4>1. Handle(u, "send", Refused, {}) /\ UNCHANGED <<messages, topicMessageSeq, posted, topicUserRoom, history>>
          BY <2>6, <3>8 DEF SendTopicRoomMessage
        <4> QED BY <4>1, <2>3, <3>2, <3>5 DEF TypeOK, history
      <3> QED BY <3>7, <3>8
    <2> QED BY <1>2, <2>4, <2>5, <2>6 DEF Serves
  <1>3. CASE Push(u)
    <2>1. PICK v \in reader[u].recipients :
            /\ reader' = [reader EXCEPT ![u].recipients = @ \ {v}]
            /\ frames' = [frames EXCEPT ![v] = Append(@, reader[u].reply)]
      BY <1>3 DEF Push
    <2>2. v \in Users /\ reader[u].reply \in Frame
      BY DEF TypeOK
    <2>3. frames' \in [Users -> Seq(Frame)]
      BY <2>1, <2>2, Appended DEF TypeOK
    <2>4. reader' \in [Users -> [busy : BOOLEAN, reply : Frame, recipients : SUBSET Users]]
      <3>1. reader \in [Users -> [busy : BOOLEAN, reply : Frame, recipients : SUBSET Users]]
        BY DEF TypeOK
      <3> QED BY <2>1, <3>1
    <2>5. UNCHANGED <<server, requests, page, asked, history>>
      BY <1>3 DEF Push
    <2> QED BY <2>3, <2>4, <2>5 DEF TypeOK, server, page, history
  <1>4. CASE Reply(u)
    <2>1. frames' \in [Users -> Seq(Frame)]
      BY <1>4, Appended DEF Reply, TypeOK
    <2>2. reader' \in [Users -> [busy : BOOLEAN, reply : Frame, recipients : SUBSET Users]]
      BY <1>4, FrameTypes DEF Reply, TypeOK
    <2>3. joining' \in [Users -> [from : Nat, until : Nat]]
      <3>1. CASE reader[u].reply.kind = "joined"
        <4>1. joining' = [joining EXCEPT ![u].until = Len(posted[reader[u].reply.room])]
          BY <1>4, <3>1 DEF Reply
        <4>2. reader[u].reply.room \in Rooms
          BY <3>1 DEF Readers, InHand, Proper
        <4>3. Len(posted[reader[u].reply.room]) \in Nat
          BY <4>2 DEF TypeOK
        <4> QED BY <4>1, <4>3 DEF TypeOK
      <3>2. CASE reader[u].reply.kind # "joined"
        BY <1>4, <3>2 DEF Reply, TypeOK
      <3> QED BY <3>1, <3>2
    <2>4. UNCHANGED <<server, requests, page, asked, astray>> /\ posted' = posted
      BY <1>4 DEF Reply, server
    <2> QED BY <2>1, <2>2, <2>3, <2>4 DEF TypeOK, server, page
  <1>5. CASE Receives(u)
    <2>1. frames[u] # <<>> /\ UNCHANGED <<server, requests, reader, asked, history>>
      BY <1>5 DEF Receives, ReceiveJoined, ReceiveLeft, ReceiveMessage, ReceiveError, Receive
    <2>2. frames[u] \in Seq(Frame)
      BY DEF TypeOK
    <2>3. /\ Head(frames[u]) \in Frame /\ Head(frames[u]) = frames[u][1] /\ 1 \in DOMAIN frames[u]
          /\ Tail(frames[u]) \in Seq(Frame)
      BY <2>1, <2>2, Tailed
    <2>4. frames' \in [Users -> Seq(Frame)]
      <3>1. frames' = [frames EXCEPT ![u] = Tail(@)]
        BY <1>5 DEF Receives, ReceiveJoined, ReceiveLeft, ReceiveMessage, ReceiveError, Receive
      <3>2. frames \in [Users -> Seq(Frame)]
        BY DEF TypeOK
      <3> QED BY <2>3, <3>1, <3>2
    <2>5. activeTopicRoomId' \in [Users -> Rooms \cup {NoRoom}]
      <3>1. Head(frames[u]).room \in Rooms \cup {NoRoom}
        BY <2>3 DEF Frame
      <3> QED BY <1>5, <3>1
            DEF Receives, ReceiveJoined, ReceiveLeft, ReceiveMessage, ReceiveError, TypeOK, page
    <2>6. topicMessages' \in [Users -> [Rooms -> Seq(Message)]]
      <3>1. CASE ReceiveJoined(u)
        <4>1. Head(frames[u]).list \in Seq(Message)
          BY <2>3 DEF Frame
        <4> QED BY <3>1, <4>1 DEF ReceiveJoined, TypeOK
      <3>2. CASE ReceiveMessage(u)
        <4>1. Head(frames[u]).list \in Seq(Message) /\ Len(Head(frames[u]).list) = 1
          BY <2>3, <3>2 DEF ReceiveMessage, Receive, Frame, Traffic, Proper
        <4> DEFINE m == Head(Head(frames[u]).list)
        <4>2. m \in Message
          BY <4>1
        <4>3. topicMessages' = [topicMessages EXCEPT ![u][m.room] = WithMessage(@, m)]
          BY <3>2 DEF ReceiveMessage
        <4> HIDE DEF m
        <4>4. m.room \in Rooms
          BY <4>2 DEF Message
        <4>5. WithMessage(topicMessages[u][m.room], m) \in Seq(Message)
          BY <4>2, <4>4, Appended DEF WithMessage, TypeOK
        <4> QED BY <4>3, <4>5 DEF TypeOK
      <3>3. CASE ReceiveLeft(u)
        BY <3>3 DEF ReceiveLeft, TypeOK
      <3>4. CASE ReceiveError(u)
        BY <3>4 DEF ReceiveError, page, TypeOK
      <3> QED BY <1>5, <3>1, <3>2, <3>3, <3>4 DEF Receives
    <2> QED BY <2>1, <2>4, <2>5, <2>6 DEF TypeOK, server, history
  <1> QED BY <1>1, <1>2, <1>3, <1>4, <1>5

LEMMA BudgetStep == ASSUME TypeOK, Budget, Next PROVE Budget'
  <1> PICK u \in Users : Clicks(u) \/ Serves(u) \/ Push(u) \/ Reply(u) \/ Receives(u)
    BY Cases
  <1> DEFINE new == <<u, Len(requests[u]) + 1>>
             old == <<u, Len(requests[u])>>
  <1>0. /\ IsFiniteSet(Unserved) /\ Cardinality(Unserved) \in Nat
        /\ topicMessageSeq \in Nat /\ asked \in Nat
    BY FS_CardinalityType DEF Budget, TypeOK
  <1>1. CASE Clicks(u)
    <2>1. PICK req \in Request :
            /\ requests' = [requests EXCEPT ![u] = Append(@, req)]
            /\ asked' = asked + 1 /\ topicMessageSeq' = topicMessageSeq
      <3>1. ASSUME NEW kind \in {"join", "leave", "send"}, NEW room \in Rooms, Ask(u, kind, room)
            PROVE  \E req \in Request :
                     /\ requests' = [requests EXCEPT ![u] = Append(@, req)]
                     /\ asked' = asked + 1 /\ topicMessageSeq' = topicMessageSeq
        <4>1. [kind |-> kind, room |-> room] \in Request
          BY DEF Request
        <4> QED BY <3>1, <4>1 DEF Ask, server
      <3>2. activeTopicRoomId[u] # NoRoom => activeTopicRoomId[u] \in Rooms
        BY DEF TypeOK
      <3> QED BY <1>1, <3>1, <3>2 DEF Clicks, SelectTopicRoom, SelectConversation, SendMessage
    <2>2. requests[u] \in Seq(Request)
      BY DEF TypeOK
    <2>3. Unserved' = Unserved \cup {new}
      <3>1. DOMAIN Append(requests[u], req) = DOMAIN requests[u] \cup {Len(requests[u]) + 1}
        BY <2>2, Appended
      <3>2. \A v \in Users : requests'[v] = IF v = u THEN Append(requests[u], req) ELSE requests[v]
        BY <2>1 DEF TypeOK
      <3>3. Len(requests[u]) + 1 \in Nat
        BY <2>2
      <3>4. ASSUME NEW v \in Users, NEW i \in Nat
            PROVE  i \in DOMAIN requests'[v] <=> i \in DOMAIN requests[v] \/ (v = u /\ i = Len(requests[u]) + 1)
        BY <3>1, <3>2
      <3> QED BY <3>3, <3>4 DEF Unserved
    <2>4. IsFiniteSet(Unserved') /\ Cardinality(Unserved') <= Cardinality(Unserved) + 1
      <3>1. /\ IsFiniteSet(Unserved \cup {new})
            /\ Cardinality(Unserved \cup {new}) \in {Cardinality(Unserved), Cardinality(Unserved) + 1}
        <4> HIDE DEF new
        <4> QED BY <1>0, FS_AddElement
      <3> QED BY <3>1, <2>3, <1>0
    <2>5. Cardinality(Unserved') \in Nat
      BY <2>4, FS_CardinalityType
    <2> HIDE DEF new
    <2> QED BY <1>0, <2>1, <2>4, <2>5 DEF Budget
  <1>2. CASE Serves(u)
    <2>1. requests[u] # <<>> /\ requests' = [requests EXCEPT ![u] = Tail(@)]
      BY <1>2 DEF Serves, JoinTopicRoom, LeaveTopicRoom, SendTopicRoomMessage, Handle
    <2>2. asked' = asked
      BY <1>2 DEF Serves, JoinTopicRoom, LeaveTopicRoom, SendTopicRoomMessage, Handle
    <2>3. topicMessageSeq' \in {topicMessageSeq, topicMessageSeq + 1}
      BY <1>2 DEF Serves, JoinTopicRoom, LeaveTopicRoom, SendTopicRoomMessage, Handle
    <2>4. requests[u] \in Seq(Request)
      BY DEF TypeOK
    <2>5. old \in Unserved /\ Unserved' = Unserved \ {old}
      <3>1. DOMAIN Tail(requests[u]) = DOMAIN requests[u] \ {Len(requests[u])}
        BY <2>1, <2>4, Tailed
      <3>2. \A v \in Users : requests'[v] = IF v = u THEN Tail(requests[u]) ELSE requests[v]
        BY <2>1 DEF TypeOK
      <3>3. Len(requests[u]) \in DOMAIN requests[u] /\ Len(requests[u]) \in Nat
        BY <2>1, <2>4, Tailed
      <3>4. ASSUME NEW v \in Users, NEW i \in Nat
            PROVE  i \in DOMAIN requests'[v] <=> i \in DOMAIN requests[v] /\ ~ (v = u /\ i = Len(requests[u]))
        BY <3>1, <3>2
      <3> QED BY <3>3, <3>4 DEF Unserved
    <2>6. IsFiniteSet(Unserved') /\ Cardinality(Unserved') = Cardinality(Unserved) - 1
      BY <1>0, <2>5, FS_RemoveElement
    <2>7. Cardinality(Unserved') \in Nat
      BY <2>6, FS_CardinalityType
    <2> HIDE DEF old
    <2> QED BY <1>0, <2>2, <2>3, <2>6, <2>7 DEF Budget
  <1>3. CASE Push(u) \/ Reply(u) \/ Receives(u)
    <2>1. UNCHANGED <<requests, asked, topicMessageSeq>>
      BY <1>3
      DEF Push, Reply, Receives, ReceiveJoined, ReceiveLeft, ReceiveMessage, ReceiveError, Receive, server
    <2> QED BY <2>1 DEF Budget, Unserved
  <1> QED BY <1>1, <1>2, <1>3

-----------------------------------------------------------------------------
(* The log and its history. *)

\* What a message that is sent is, and what it does to the log.
New(u) == [id |-> topicMessageSeq + 1, room |-> Asked(u), sender |-> u]
Sends(u) == SendTopicRoomMessage(u) /\ topicUserRoom[u] = Asked(u)

LEMMA AskedRoom ==
  ASSUME TypeOK, NEW u \in Users, requests[u] # <<>>
  PROVE  Asked(u) \in Rooms
  <1>1. requests[u] \in Seq(Request)
    BY DEF TypeOK
  <1>2. Head(requests[u]) \in Request
    BY <1>1, Tailed
  <1> QED BY <1>2 DEF Asked, Request

LEMMA Sent ==
  ASSUME TypeOK, Budget, NEW u \in Users, Sends(u)
  PROVE  /\ requests[u] # <<>> /\ Asked(u) \in Rooms
         /\ New(u) \in Message /\ New(u).id = topicMessageSeq + 1
         /\ New(u).room = Asked(u) /\ New(u).sender = u
         /\ Handle(u, "send", NewMessage(New(u)), Members(Asked(u)) \ {u})
         /\ messages' = [messages EXCEPT ![Asked(u)] = Trimmed(Append(@, New(u)))]
         /\ posted' = [posted EXCEPT ![Asked(u)] = Append(@, New(u))]
         /\ topicMessageSeq' = topicMessageSeq + 1
         /\ UNCHANGED <<topicUserRoom, history, frames, page, asked>>
  <1>1. requests[u] # <<>>
    BY DEF Sends, SendTopicRoomMessage
  <1>2. Asked(u) \in Rooms
    BY <1>1, AskedRoom
  <1>3. New(u) \in Message
    BY <1>1, <1>2, Counted DEF New, Message
  <1>4. /\ Handle(u, "send", NewMessage(New(u)), Members(Asked(u)) \ {u})
        /\ messages' = [messages EXCEPT ![Asked(u)] = Trimmed(Append(@, New(u)))]
        /\ posted' = [posted EXCEPT ![Asked(u)] = Append(@, New(u))]
        /\ topicMessageSeq' = topicMessageSeq + 1
        /\ UNCHANGED <<topicUserRoom, history>>
    BY DEF Sends, SendTopicRoomMessage, New
  <1> QED BY <1>1, <1>2, <1>3, <1>4 DEF New, Handle

\* All other steps leave the log alone.
LEMMA LogUnchanged ==
  ASSUME NEW u \in Users, Clicks(u) \/ Serves(u) \/ Push(u) \/ Reply(u) \/ Receives(u)
  PROVE  Sends(u) \/ UNCHANGED <<messages, topicMessageSeq, posted>>
  <1>1. CASE Serves(u)
    BY <1>1 DEF Serves, JoinTopicRoom, LeaveTopicRoom, SendTopicRoomMessage, Sends, server
  <1>2. CASE Clicks(u)
    BY <1>2 DEF Clicks, SelectTopicRoom, SelectConversation, SendMessage, Ask, server
  <1>3. CASE Push(u) \/ Reply(u)
    BY <1>3 DEF Push, Reply, server
  <1>4. CASE Receives(u)
    BY <1>4 DEF Receives, ReceiveJoined, ReceiveLeft, ReceiveMessage, ReceiveError, Receive, server
  <1> QED BY <1>1, <1>2, <1>3, <1>4

\* What a message that is sent adds to what has been posted.
LEMMA PostedGrows ==
  ASSUME TypeOK, Budget, NEW u \in Users, Sends(u)
  PROVE  /\ posted[Asked(u)] \in Seq(Message) /\ Len(posted[Asked(u)]) \in Nat
         /\ \A r \in Rooms : r # Asked(u) => posted'[r] = posted[r]
         /\ posted'[Asked(u)] = Append(posted[Asked(u)], New(u))
         /\ \A m \in Message : Posted(m)' <=> Posted(m) \/ m = New(u)
  <1>1. posted' = [posted EXCEPT ![Asked(u)] = Append(@, New(u))] /\ Asked(u) \in Rooms /\ New(u) \in Message
    BY Sent
  <1>2. posted[Asked(u)] \in Seq(Message)
    BY <1>1 DEF TypeOK
  <1>3. /\ \A r \in Rooms : r # Asked(u) => posted'[r] = posted[r]
        /\ posted'[Asked(u)] = Append(posted[Asked(u)], New(u))
    BY <1>1 DEF TypeOK
  <1>4. /\ \A i \in DOMAIN posted[Asked(u)] :
             /\ i \in DOMAIN Append(posted[Asked(u)], New(u))
             /\ Append(posted[Asked(u)], New(u))[i] = posted[Asked(u)][i]
        /\ \A i \in DOMAIN Append(posted[Asked(u)], New(u)) :
             \/ i \in DOMAIN posted[Asked(u)] /\ Append(posted[Asked(u)], New(u))[i] = posted[Asked(u)][i]
             \/ i = Len(posted[Asked(u)]) + 1
        /\ Len(posted[Asked(u)]) + 1 \in DOMAIN Append(posted[Asked(u)], New(u))
        /\ Append(posted[Asked(u)], New(u))[Len(posted[Asked(u)]) + 1] = New(u)
    BY <1>1, <1>2, Appended
  <1>5. ASSUME NEW m \in Message
        PROVE  Posted(m)' <=> Posted(m) \/ m = New(u)
    <2>1. ASSUME Posted(m)'
          PROVE  Posted(m) \/ m = New(u)
      <3>1. PICK r \in Rooms : \E i \in DOMAIN posted'[r] : posted'[r][i] = m
        BY <2>1 DEF Posted
      <3> QED BY <3>1, <1>3, <1>4 DEF Posted
    <2>2. ASSUME Posted(m)
          PROVE  Posted(m)'
      <3>0. PICK r \in Rooms : \E i \in DOMAIN posted[r] : posted[r][i] = m
        BY <2>2 DEF Posted
      <3>1. PICK i \in DOMAIN posted[r] : posted[r][i] = m
        BY <3>0
      <3>2. i \in DOMAIN posted'[r] /\ posted'[r][i] = m
        BY <3>1, <1>3, <1>4
      <3> QED BY <3>2 DEF Posted
    <2>3. ASSUME m = New(u)
          PROVE  Posted(m)'
      BY <2>3, <1>1, <1>3, <1>4 DEF Posted
    <2> QED BY <2>1, <2>2, <2>3
  <1> QED BY <1>2, <1>3, <1>5

LEMMA TrimmedEnd ==
  ASSUME NEW old \in Seq(Message), NEW s \in Seq(Message), NEW m \in Message,
         EndOf(s, old), Len(s) <= HistoryLimit
  PROVE  EndOf(Trimmed(Append(s, m)), Append(old, m))
  <1> DEFINE t   == Append(s, m)
             all == Append(old, m)
  <1>1. Len(s) \in Nat /\ Len(old) \in Nat /\ HistoryLimit \in Nat \ {0}
    BY TopicRoomsAssumption DEF TopicRoomsAssumption
  <1>2. /\ Len(s) <= Len(old)
        /\ Len(s) = HistoryLimit \/ Len(s) = Len(old)
        /\ \A k \in DOMAIN s : s[k] = old[k + (Len(old) - Len(s))]
    BY DEF EndOf
  <1>3. /\ t \in Seq(Message) /\ Len(t) = Len(s) + 1 /\ DOMAIN t = 1 .. Len(s) + 1
        /\ \A k \in DOMAIN s : t[k] = s[k]
        /\ t[Len(s) + 1] = m /\ DOMAIN s = 1 .. Len(s)
    OBVIOUS
  <1>4. /\ Len(all) = Len(old) + 1 /\ all[Len(old) + 1] = m /\ DOMAIN old = 1 .. Len(old)
        /\ \A k \in DOMAIN old : all[k] = old[k]
    OBVIOUS
  <1> HIDE DEF t, all
  <1> DEFINE a == Len(s)  b == Len(old)  c == Len(t)  d == Len(all)
  <1>0. /\ a \in Nat /\ b \in Nat /\ c = a + 1 /\ d = b + 1 /\ a <= b
        /\ a <= HistoryLimit /\ (a = HistoryLimit \/ a = b)
    BY <1>1, <1>2, <1>3, <1>4
  <1> HIDE DEF a, b, c, d
  <1>5. \A k \in DOMAIN t : t[k] = all[k + (Len(old) - Len(s))]
    <2> TAKE k \in DOMAIN t
    <2>1. CASE k = Len(s) + 1
      <3>1. k + (Len(old) - Len(s)) = Len(old) + 1
        BY <2>1, <1>1
      <3> QED BY <2>1, <3>1, <1>3, <1>4
    <2>2. CASE k \in DOMAIN s
      <3>1. k + (Len(old) - Len(s)) \in DOMAIN old
        <4>1. k \in 1 .. a
          BY <2>2, <1>3 DEF a
        <4>2. k + (b - a) \in 1 .. b
          BY <4>1, <1>0
        <4> QED BY <4>2, <1>4 DEF a, b
      <3> QED BY <2>2, <3>1, <1>2, <1>3, <1>4
    <2>3. k \in DOMAIN s \/ k = Len(s) + 1
      BY <1>1, <1>3
    <2> QED BY <2>1, <2>2, <2>3
  <1>6. CASE Len(t) > HistoryLimit
    <2>1. Len(s) = HistoryLimit /\ Len(t) = HistoryLimit + 1 /\ HistoryLimit <= Len(old)
      <3>1. a = HistoryLimit /\ c = HistoryLimit + 1 /\ HistoryLimit <= b
        BY <1>6, <1>0, <1>1 DEF c
      <3> QED BY <3>1 DEF a, b, c
    <2>2. Trimmed(t) = SubSeq(t, 2, HistoryLimit + 1)
      BY <2>1, <1>1, <1>6 DEF Trimmed
    <2>3. /\ Len(Trimmed(t)) = HistoryLimit /\ DOMAIN Trimmed(t) = 1 .. HistoryLimit
          /\ \A k \in 1 .. HistoryLimit : Trimmed(t)[k] = t[k + 1]
      BY <2>1, <2>2, <1>1, <1>3
    <2>4. \A k \in 1 .. HistoryLimit :
            /\ k + 1 \in DOMAIN t
            /\ k + 1 + (Len(old) - Len(s)) = k + (Len(all) - HistoryLimit)
      BY <2>1, <1>1, <1>3, <1>4
    <2>5. \A k \in DOMAIN Trimmed(t) : Trimmed(t)[k] = all[k + (Len(all) - Len(Trimmed(t)))]
      BY <2>3, <2>4, <1>5
    <2>6. Len(Trimmed(t)) <= Len(all)
      BY <2>1, <2>3, <1>1, <1>4
    <2> QED BY <2>3, <2>5, <2>6 DEF EndOf, t, all
  <1>7. CASE ~ (Len(t) > HistoryLimit)
    <2>1. Len(s) # HistoryLimit
      <3>1. a # HistoryLimit
        BY <1>7, <1>0, <1>1 DEF c
      <3> QED BY <3>1 DEF a
    <2>2. Trimmed(t) = t /\ Len(s) = Len(old) /\ Len(t) = Len(all)
      BY <2>1, <1>7, <1>1, <1>2, <1>3, <1>4 DEF Trimmed
    <2>3. \A k \in DOMAIN t : k + (Len(old) - Len(s)) = k + (Len(all) - Len(t))
      BY <2>2, <1>1, <1>3
    <2>4. \A k \in DOMAIN Trimmed(t) : Trimmed(t)[k] = all[k + (Len(all) - Len(Trimmed(t)))]
      BY <2>2, <2>3, <1>5
    <2>5. Len(Trimmed(t)) <= Len(all)
      BY <2>2, <1>1, <1>4
    <2> QED BY <2>2, <2>4, <2>5 DEF EndOf, t, all
  <1> QED BY <1>6, <1>7

LEMMA LogInit == ASSUME Init PROVE Log
  <1>1. \A r \in Rooms : posted[r] = <<>> /\ messages[r] = <<>>
    BY DEF Init
  <1>2. \A m : ~ Posted(m)
    BY <1>1 DEF Posted
  <1>3. \A r \in Rooms : DOMAIN posted[r] = {} /\ DOMAIN messages[r] = {} /\ Len(messages[r]) = 0 /\ Len(posted[r]) = 0
    BY <1>1
  <1> QED BY <1>2, <1>3 DEF Log, Sorted, EndOf

LEMMA LogStep == ASSUME TypeOK, Budget, Log, Next PROVE Log'
  <1> PICK u \in Users : Clicks(u) \/ Serves(u) \/ Push(u) \/ Reply(u) \/ Receives(u)
    BY Cases
  <1>1. CASE UNCHANGED <<messages, topicMessageSeq, posted>>
    BY <1>1 DEF Log, Posted, Sorted, EndOf
  <1>2. CASE Sends(u)
    <2> DEFINE room == Asked(u)
               old == posted[room]
               m == New(u)
    <2>1. /\ m \in Message /\ room \in Rooms /\ topicMessageSeq' = topicMessageSeq + 1
          /\ m.id = topicMessageSeq + 1 /\ m.room = room
          /\ messages' = [messages EXCEPT ![room] = Trimmed(Append(@, m))]
      BY <1>2, Sent
    <2>2. /\ old \in Seq(Message) /\ Len(old) \in Nat
          /\ \A r \in Rooms : r # room => posted'[r] = posted[r]
          /\ posted'[room] = Append(old, m)
          /\ \A n \in Message : Posted(n)' <=> Posted(n) \/ n = m
      BY <1>2, PostedGrows
    <2> HIDE DEF m, room
    <2>3. topicMessageSeq \in Nat /\ \A n \in Message : n.id \in Nat
      BY DEF TypeOK, Message
    <2>4. /\ \A i \in DOMAIN old : i \in Nat /\ i <= Len(old) /\ old[i] \in Message /\ Append(old, m)[i] = old[i]
          /\ \A i \in DOMAIN Append(old, m) : i \in DOMAIN old \/ i = Len(old) + 1
          /\ Append(old, m)[Len(old) + 1] = m
      BY <2>1, <2>2, Appended
    <2>5. \A n \in Message : Posted(n) => n.id <= topicMessageSeq
      BY DEF Log, Posted
    <2>6. ASSUME NEW r \in Rooms, NEW i \in DOMAIN posted'[r]
          PROVE  posted'[r][i].room = r /\ posted'[r][i].id <= topicMessageSeq'
      <3>1. CASE r # room
        <4>1. posted'[r] = posted[r] /\ i \in DOMAIN posted[r]
          BY <2>2, <3>1, <2>6
        <4>2. posted[r][i].room = r /\ posted[r][i].id <= topicMessageSeq /\ posted[r][i] \in Message
          BY <4>1 DEF Log, TypeOK
        <4> QED BY <4>1, <4>2, <2>1, <2>3
      <3>2. CASE r = room
        <4>1. CASE i \in DOMAIN old
          <5>1. old[i].room = r /\ old[i].id <= topicMessageSeq
            BY <4>1, <3>2, <2>1 DEF Log
          <5> QED BY <5>1, <4>1, <3>2, <2>1, <2>2, <2>3, <2>4
        <4>2. CASE i = Len(old) + 1
          BY <4>2, <3>2, <2>1, <2>2, <2>3, <2>4
        <4> QED BY <4>1, <4>2, <3>2, <2>2, <2>4, <2>6
      <3> QED BY <3>1, <3>2
    <2>7. ASSUME NEW r \in Rooms
          PROVE  Sorted(posted'[r])
      <3>1. CASE r # room
        BY <3>1, <2>2 DEF Log
      <3>2. CASE r = room
        <4> SUFFICES ASSUME NEW i \in DOMAIN Append(old, m), NEW j \in DOMAIN Append(old, m), i < j
                     PROVE  Append(old, m)[i].id < Append(old, m)[j].id
          BY <3>2, <2>2 DEF Sorted
        <4>1. i \in DOMAIN old
          BY <2>4, <2>2
        <4>2. old[i].id <= topicMessageSeq
          BY <4>1, <2>1 DEF Log
        <4>3. CASE j \in DOMAIN old
          <5>1. old[i].id < old[j].id
            BY <4>1, <4>3, <2>1 DEF Log, Sorted
          <5> QED BY <5>1, <4>1, <4>3, <2>4
        <4>4. CASE j = Len(old) + 1
          BY <4>1, <4>2, <4>4, <2>1, <2>3, <2>4
        <4> QED BY <4>3, <4>4, <2>4
      <3> QED BY <3>1, <3>2
    <2>8. ASSUME NEW n \in Message, NEW o \in Message, Posted(n)', Posted(o)', n.id = o.id
          PROVE  n = o
      <3>1. Posted(n) => n.id <= topicMessageSeq
        BY <2>5
      <3>2. Posted(o) => o.id <= topicMessageSeq
        BY <2>5
      <3>3. CASE Posted(n) /\ Posted(o)
        BY <3>3, <2>8 DEF Log
      <3>4. CASE n = m /\ o = m
        BY <3>4
      <3> QED BY <3>1, <3>2, <3>3, <3>4, <2>1, <2>2, <2>3, <2>8
    <2>9. ASSUME NEW r \in Rooms
          PROVE  EndOf(messages'[r], posted'[r])
      <3>1. CASE r # room
        BY <3>1, <2>1, <2>2 DEF Log, TypeOK
      <3>2. CASE r = room
        <4>1. messages[room] \in Seq(Message) /\ Len(messages[room]) <= HistoryLimit
          BY <2>1 DEF TypeOK
        <4>2. EndOf(messages[room], old)
          BY <2>1 DEF Log
        <4>3. EndOf(Trimmed(Append(messages[room], m)), Append(old, m))
          BY <4>1, <4>2, <2>1, <2>2, TrimmedEnd
        <4> QED BY <4>3, <3>2, <2>1, <2>2 DEF TypeOK
      <3> QED BY <3>1, <3>2
    <2> QED BY <2>6, <2>7, <2>8, <2>9 DEF Log
  <1> QED BY <1>1, <1>2, LogUnchanged

-----------------------------------------------------------------------------
(* What readers have in hand and what is on its way. *)

LEMMA ProperStays ==
  ASSUME TypeOK, Budget, Next
  PROVE  /\ \A m \in Message : Posted(m) => Posted(m)'
         /\ \A f \in Frame : Proper(f) => Proper(f)'
  <1>1. \A m \in Message : Posted(m) => Posted(m)'
    <2> PICK u \in Users : Clicks(u) \/ Serves(u) \/ Push(u) \/ Reply(u) \/ Receives(u)
      BY Cases
    <2>1. CASE Sends(u)
      BY <2>1, PostedGrows
    <2>2. CASE UNCHANGED posted
      BY <2>2 DEF Posted
    <2> QED BY <2>1, <2>2, LogUnchanged
  <1>2. ASSUME NEW f \in Frame, Proper(f)
        PROVE  Proper(f)'
    <2>1. \A i \in DOMAIN f.list : f.list[i] \in Message
      BY DEF Frame
    <2>2. \A i \in DOMAIN f.list : Posted(f.list[i])'
      BY <1>1, <1>2, <2>1 DEF Proper
    <2> QED BY <1>2, <2>2 DEF Proper, Sorted
  <1> QED BY <1>1, <1>2

\* The history of a room makes a proper answer.
LEMMA HistoryProper ==
  ASSUME TypeOK, Log, NEW r \in Rooms
  PROVE  /\ messages[r] \in Seq(Message)
         /\ \A k \in DOMAIN messages[r] :
              /\ messages[r][k] \in Message /\ Posted(messages[r][k])
              /\ messages[r][k].room = r
         /\ Sorted(messages[r])
  <1> DEFINE old == posted[r]  list == messages[r]  d == Len(old) - Len(list)
  <1>1. /\ old \in Seq(Message) /\ list \in Seq(Message) /\ Len(old) \in Nat /\ Len(list) \in Nat
        /\ DOMAIN old = 1 .. Len(old) /\ DOMAIN list = 1 .. Len(list)
    BY DEF TypeOK
  <1>2. Len(list) <= Len(old) /\ \A k \in DOMAIN list : list[k] = old[k + d]
    BY DEF Log, EndOf
  <1>3. d \in Nat
    BY <1>1, <1>2
  <1>4. \A k \in DOMAIN list : k \in Nat /\ k + d \in DOMAIN old
    <2> DEFINE a == Len(list)  b == Len(old)
    <2>1. a \in Nat /\ b \in Nat /\ a <= b
      BY <1>1, <1>2
    <2> HIDE DEF a, b
    <2>2. \A k \in 1 .. a : k \in Nat /\ k + (b - a) \in 1 .. b
      BY <2>1
    <2> QED BY <2>2, <1>1 DEF a, b
  <1> HIDE DEF d
  <1>5. \A k \in DOMAIN old : old[k] \in Message /\ Posted(old[k]) /\ old[k].room = r
    BY <1>1 DEF Log, Posted
  <1>6. \A i, j \in DOMAIN list : i < j => i + d < j + d
    BY <1>3, <1>4
  <1>7. Sorted(old)
    BY DEF Log
  <1>8. Sorted(list)
    BY <1>2, <1>4, <1>6, <1>7 DEF Sorted
  <1>9. \A k \in DOMAIN list : list[k] \in Message /\ Posted(list[k]) /\ list[k].room = r
    BY <1>2, <1>4, <1>5
  <1> QED BY <1>1, <1>8, <1>9

LEMMA ReadersInit == ASSUME Init PROVE Readers /\ Traffic
  <1>1. Refused.kind = "error" /\ Refused.list = <<>>
    BY DEF Refused
  <1>2. \A u \in Users : reader[u] = Waiting
    BY DEF Init
  <1>3. Readers
    <2> SUFFICES ASSUME NEW u \in Users
                 PROVE  InHand(u)
      BY DEF Readers
    <2>0. Waiting.reply = Refused /\ Waiting.recipients = {}
      BY Zenon DEF Waiting
    <2>1. reader[u] = Waiting /\ reader[u].reply = Refused /\ reader[u].recipients = {}
      BY <1>2, <2>0
    <2>2. Proper(reader[u].reply)
      BY <1>1, <2>1 DEF Proper
    <2> QED BY <1>1, <2>1, <2>2 DEF InHand
  <1>4. Traffic
    BY DEF Traffic, Init
  <1> QED BY <1>3, <1>4

LEMMA ReadersStep == ASSUME TypeOK, Budget, Log, Readers, Next PROVE Readers'
  <1> PICK u \in Users : Clicks(u) \/ Serves(u) \/ Push(u) \/ Reply(u) \/ Receives(u)
    BY Cases
  <1>0. \A f \in Frame : Proper(f) => Proper(f)'
    BY ProperStays
  <1>1. CASE Clicks(u) \/ Receives(u)
    <2>1. UNCHANGED <<reader, topicUserRoom, posted>>
      BY <1>1 DEF Clicks, SelectTopicRoom, SelectConversation, SendMessage, Ask,
                  Receives, ReceiveJoined, ReceiveLeft, ReceiveMessage, ReceiveError, Receive, server
    <2> QED BY <2>1 DEF Readers, InHand, Proper, Posted, Sorted
  <1>2. CASE Push(u)
    <2>1. PICK v \in reader[u].recipients : reader' = [reader EXCEPT ![u].recipients = @ \ {v}]
      BY <1>2 DEF Push
    <2>2. UNCHANGED <<topicUserRoom, posted>>
      BY <1>2 DEF Push, server
    <2>3. reader[u].recipients # {} /\ InHand(u)
      BY <2>1 DEF Readers
    <2>4. reader[u].reply.kind = "message" /\ reader[u].busy
      BY <2>3 DEF InHand, Waiting
    <2>5. InHand(u)'
      <3>1. /\ reader'[u].reply = reader[u].reply /\ reader'[u].busy = reader[u].busy
            /\ reader'[u].recipients = reader[u].recipients \ {v}
        BY <2>1 DEF TypeOK
      <3> QED BY <2>2, <2>3, <2>4, <3>1 DEF InHand, Proper, Posted, Sorted
    <2>6. ASSUME NEW w \in Users, w # u
          PROVE  InHand(w)'
      <3>1. reader'[w] = reader[w] /\ InHand(w)
        BY <2>1, <2>6 DEF TypeOK, Readers
      <3> QED BY <2>2, <3>1 DEF InHand, Proper, Posted, Sorted
    <2> QED BY <2>5, <2>6 DEF Readers
  <1>3. CASE Reply(u)
    <2>1. reader' = [reader EXCEPT ![u] = Waiting] /\ UNCHANGED <<topicUserRoom, posted>>
      BY <1>3 DEF Reply, server
    <2>2. InHand(u)'
      <3>1. reader'[u] = Waiting
        BY <2>1 DEF TypeOK
      <3> QED BY <3>1 DEF InHand, Proper, Waiting, Refused
    <2>3. ASSUME NEW w \in Users, w # u
          PROVE  InHand(w)'
      <3>1. reader'[w] = reader[w] /\ InHand(w)
        BY <2>1, <2>3 DEF TypeOK, Readers
      <3> QED BY <2>1, <3>1 DEF InHand, Proper, Posted, Sorted
    <2> QED BY <2>2, <2>3 DEF Readers
  <1>4. CASE Serves(u)
    <2>1. ASSUME NEW kind, NEW reply, NEW recipients, Handle(u, kind, reply, recipients)
          PROVE  /\ reader'[u] = [busy |-> TRUE, reply |-> reply, recipients |-> recipients]
                 /\ \A w \in Users \ {u} : reader'[w] = reader[w]
      BY <2>1 DEF Handle, TypeOK
    <2>2. ASSUME NEW reply, reader'[u] = [busy |-> TRUE, reply |-> reply, recipients |-> {}],
                 reply.kind \in {"left", "error"}, reply.list = <<>>
          PROVE  InHand(u)'
      BY <2>2 DEF InHand, Proper
    <2>r. Refused.kind \in {"left", "error"} /\ Refused.list = <<>>
      BY DEF Refused
    <2>3. ASSUME NEW w \in Users \ {u}, reader'[w] = reader[w], topicUserRoom'[w] = topicUserRoom[w], UNCHANGED posted
          PROVE  InHand(w)'
      <3>1. InHand(w)
        BY DEF Readers
      <3> QED BY <2>3, <3>1 DEF InHand, Proper, Posted, Sorted
    <2>4. CASE JoinTopicRoom(u)
      <3>1. PICK named \in BOOLEAN :
              Handle(u, "join", IF named THEN Joined(Asked(u), messages[Asked(u)]) ELSE Refused, {})
        BY <2>4 DEF JoinTopicRoom
      <3>2. topicUserRoom' = [topicUserRoom EXCEPT ![u] = Asked(u)] /\ UNCHANGED posted /\ requests[u] # <<>>
        BY <2>4 DEF JoinTopicRoom
      <3>3. Asked(u) \in Rooms
        BY <3>2, AskedRoom
      <3>4. ASSUME NEW w \in Users \ {u}
            PROVE  InHand(w)'
        BY <2>1, <2>3, <3>1, <3>2 DEF TypeOK
      <3>5. InHand(u)'
        <4>1. CASE ~ named
          <5>1. reader'[u] = [busy |-> TRUE, reply |-> Refused, recipients |-> {}]
            BY <4>1, <2>1, <3>1
          <5> QED BY <5>1, <2>2, <2>r
        <4>2. CASE named
          <5> DEFINE f == Joined(Asked(u), messages[Asked(u)])
          <5>1. reader'[u] = [busy |-> TRUE, reply |-> f, recipients |-> {}]
            BY <4>2, <2>1, <3>1
          <5>2. f.kind = "joined" /\ f.room = Asked(u) /\ f.list = messages[Asked(u)]
            BY DEF Joined
          <5>3. PICK r \in Rooms : r = Asked(u)
            BY <3>3
          <5>4. /\ \A k \in DOMAIN messages[r] : Posted(messages[r][k]) /\ messages[r][k].room = r
                /\ Sorted(messages[r])
            BY HistoryProper
          <5>5. topicUserRoom'[u] = r
            BY <3>2, <5>3 DEF TypeOK
          <5> HIDE DEF f
          <5> QED BY <5>1, <5>2, <5>3, <5>4, <5>5, <3>2 DEF InHand, Proper, Posted, Sorted
        <4> QED BY <4>1, <4>2
      <3> QED BY <3>4, <3>5 DEF Readers
    <2>5. CASE LeaveTopicRoom(u)
      <3>1. PICK reply : Handle(u, "leave", reply, {}) /\ reply.kind \in {"left", "error"} /\ reply.list = <<>>
        BY <2>5 DEF LeaveTopicRoom, Left, Refused
      <3>2. /\ \A w \in Users \ {u} : topicUserRoom'[w] = topicUserRoom[w]
            /\ UNCHANGED posted
        BY <2>5 DEF LeaveTopicRoom, TypeOK
      <3>3. /\ reader'[u] = [busy |-> TRUE, reply |-> reply, recipients |-> {}]
            /\ \A w \in Users \ {u} : reader'[w] = reader[w]
        BY <3>1, <2>1
      <3>4. InHand(u)'
        BY <3>1, <3>3, <2>2
      <3>5. \A w \in Users \ {u} : InHand(w)'
        BY <3>2, <3>3, <2>3
      <3> QED BY <3>4, <3>5 DEF Readers
    <2>6. CASE SendTopicRoomMessage(u) /\ ~ Sends(u)
      <3>1. Handle(u, "send", Refused, {}) /\ UNCHANGED <<topicUserRoom, posted>>
        BY <2>6 DEF SendTopicRoomMessage, Sends
      <3>2. /\ reader'[u] = [busy |-> TRUE, reply |-> Refused, recipients |-> {}]
            /\ \A w \in Users \ {u} : reader'[w] = reader[w]
        BY <3>1, <2>1
      <3>3. InHand(u)'
        BY <3>2, <2>2, <2>r
      <3>4. \A w \in Users \ {u} : InHand(w)'
        BY <3>1, <3>2, <2>3
      <3> QED BY <3>3, <3>4 DEF Readers
    <2>7. CASE Sends(u)
      <3>1. /\ New(u) \in Message /\ New(u).id = topicMessageSeq + 1 /\ New(u).sender = u
            /\ Handle(u, "send", NewMessage(New(u)), Members(Asked(u)) \ {u})
            /\ UNCHANGED topicUserRoom
        BY <2>7, Sent
      <3>2. PICK m \in Message : m = New(u)
        BY <3>1
      <3>3. \A n \in Message : Posted(n)' <=> Posted(n) \/ n = m
        BY <2>7, <3>2, PostedGrows
      <3>4. /\ reader'[u] = [busy |-> TRUE, reply |-> NewMessage(m), recipients |-> Members(Asked(u)) \ {u}]
            /\ \A w \in Users \ {u} : reader'[w] = reader[w]
        BY <2>1, <3>1, <3>2
      <3>5. InHand(u)'
        <4> DEFINE f == NewMessage(m)
        <4>1. f.kind = "message" /\ f.room = m.room /\ f.list = <<m>> /\ f.list[1] = m /\ Len(f.list) = 1
              /\ DOMAIN f.list = {1}
          BY DEF NewMessage
        <4> HIDE DEF f
        <4>2. ASSUME NEW n \in Message, Posted(n)', n.sender = u
              PROVE  n.id <= m.id
          <5>1. Posted(n) => n.id <= topicMessageSeq
            BY DEF Log, Posted
          <5> QED BY <4>2, <5>1, <3>1, <3>2, <3>3 DEF TypeOK, Message
        <4>3. reader'[u].reply = f /\ reader'[u].busy /\ u \notin reader'[u].recipients
          BY <3>4 DEF f
        <4>4. Proper(f)'
          BY <4>1, <3>3 DEF Proper
        <4>5. Proper(reader[u].reply)'
          BY <4>3, <4>4 DEF Proper, Posted, Sorted
        <4> QED BY <4>1, <4>2, <4>3, <4>5, <3>1, <3>2 DEF InHand
      <3>6. ASSUME NEW w \in Users \ {u}
            PROVE  InHand(w)'
        <4>1. PICK f \in Frame : f = reader[w].reply
          BY DEF TypeOK
        <4>2. InHand(w) /\ reader'[w] = reader[w]
          BY <3>4 DEF Readers
        <4>3. Proper(f)'
          BY <4>1, <4>2, <1>0 DEF InHand
        <4>4. Proper(reader[w].reply)'
          BY <4>1, <4>2, <4>3 DEF Proper, Posted, Sorted
        <4>5. ASSUME NEW n \in Message, Posted(n)', n.sender = w
              PROVE  Posted(n)
          BY <4>5, <3>1, <3>2, <3>3
        <4> QED BY <4>1, <4>2, <4>4, <4>5, <3>1 DEF InHand
      <3> QED BY <3>5, <3>6 DEF Readers
    <2> QED BY <1>4, <2>4, <2>5, <2>6, <2>7 DEF Serves
  <1> QED BY <1>1, <1>2, <1>3, <1>4

\* Where the frames of a page come from: one more from a reader, one less, or
\* the same.
LEMMA Arrives ==
  ASSUME TypeOK, NEW u \in Users, NEW f \in Frame,
         frames' = [frames EXCEPT ![u] = Append(@, f)]
  PROVE  /\ \A v \in Users \ {u} : frames'[v] = frames[v]
         /\ frames'[u] = Append(frames[u], f) /\ frames[u] \in Seq(Frame)
         /\ Len(frames[u]) \in Nat /\ DOMAIN frames[u] = 1 .. Len(frames[u])
         /\ \A i \in DOMAIN frames[u] : i \in DOMAIN frames'[u] /\ frames'[u][i] = frames[u][i]
         /\ \A i \in DOMAIN frames'[u] :
              (i \in DOMAIN frames[u] /\ frames'[u][i] = frames[u][i]) \/ i = Len(frames[u]) + 1
         /\ \A i \in DOMAIN frames[u] : i \in Nat /\ i < Len(frames[u]) + 1
         /\ Len(frames[u]) + 1 \in DOMAIN frames'[u] /\ frames'[u][Len(frames[u]) + 1] = f
  <1>1. frames[u] \in Seq(Frame)
    BY DEF TypeOK
  <1>2. frames'[u] = Append(frames[u], f) /\ \A v \in Users \ {u} : frames'[v] = frames[v]
    BY DEF TypeOK
  <1>3. \A i \in DOMAIN frames[u] : i \in Nat /\ i < Len(frames[u]) + 1
    BY <1>1
  <1> QED BY <1>1, <1>2, <1>3, Appended

LEMMA Received ==
  ASSUME TypeOK, NEW u \in Users, Receives(u)
  PROVE  /\ UNCHANGED <<topicUserRoom, messages, topicMessageSeq, posted, requests, reader, asked, joining, astray>>
         /\ 1 \in DOMAIN frames[u] /\ frames[u][1] \in Frame
         /\ Head(frames[u]) = frames[u][1]
         /\ \A v \in Users \ {u} :
              frames'[v] = frames[v] /\ topicMessages'[v] = topicMessages[v]
              /\ activeTopicRoomId'[v] = activeTopicRoomId[v]
         /\ \A i \in DOMAIN frames[u] : i \in Nat /\ frames[u][i] \in Frame /\ i > 0
         /\ \A i \in DOMAIN frames'[u] : i + 1 \in DOMAIN frames[u] /\ frames'[u][i] = frames[u][i + 1]
              /\ i \in Nat /\ i > 0
         /\ \A i \in DOMAIN frames[u] : i = 1 \/ (i - 1 \in DOMAIN frames'[u] /\ frames'[u][i - 1] = frames[u][i])
  <1>1. /\ frames[u] # <<>> /\ frames' = [frames EXCEPT ![u] = Tail(@)]
        /\ UNCHANGED <<server, requests, reader, asked, history>>
    BY DEF Receives, ReceiveJoined, ReceiveLeft, ReceiveMessage, ReceiveError, Receive
  <1>2. frames[u] \in Seq(Frame) /\ frames'[u] = Tail(frames[u]) /\ \A v \in Users \ {u} : frames'[v] = frames[v]
    BY <1>1 DEF TypeOK
  <1>3. \A v \in Users \ {u} :
          topicMessages'[v] = topicMessages[v] /\ activeTopicRoomId'[v] = activeTopicRoomId[v]
    BY DEF Receives, ReceiveJoined, ReceiveLeft, ReceiveMessage, ReceiveError, page, TypeOK
  <1>4. UNCHANGED <<topicUserRoom, messages, topicMessageSeq, posted, requests, reader, asked, joining, astray>>
    BY <1>1 DEF server, history
  <1>5. \A i \in DOMAIN frames[u] : i \in Nat /\ i > 0
    BY <1>2
  <1>6. /\ Head(frames[u]) = frames[u][1] /\ frames[u][1] \in Frame /\ 1 \in DOMAIN frames[u]
        /\ \A i \in DOMAIN frames[u] : frames[u][i] \in Frame
        /\ \A i \in DOMAIN Tail(frames[u]) :
             i \in Nat /\ i > 0 /\ i + 1 \in DOMAIN frames[u] /\ Tail(frames[u])[i] = frames[u][i + 1]
        /\ \A i \in DOMAIN frames[u] :
             i = 1 \/ (i - 1 \in DOMAIN Tail(frames[u]) /\ Tail(frames[u])[i - 1] = frames[u][i])
    BY <1>1, <1>2, Tailed
  <1> QED BY <1>2, <1>3, <1>4, <1>5, <1>6

\* The message in a frame, and what it does to what the page lists.
LEMMA Carried ==
  ASSUME NEW f \in Frame, f.kind = "message", Proper(f)
  PROVE  /\ f.list[1] \in Message /\ Head(f.list) = f.list[1] /\ f.list[1].room \in Rooms
         /\ Posted(f.list[1]) /\ 1 \in DOMAIN f.list /\ Elements(f.list) = {f.list[1]}
         /\ f.list[1].room = f.room
  <1>1. Len(f.list) = 1 /\ f.list \in Seq(Message)
    BY DEF Proper, Frame
  <1>2. DOMAIN f.list = {1} /\ f.list[1] \in Message /\ Head(f.list) = f.list[1]
    BY <1>1
  <1> QED BY <1>1, <1>2 DEF Proper, Elements, Message

LEMMA MessageReceived ==
  ASSUME TypeOK, Traffic, NEW u \in Users, ReceiveMessage(u), NEW m, m = frames[u][1].list[1]
  PROVE  /\ m \in Message /\ m.room \in Rooms /\ Posted(m) /\ From(frames[u][1], m.sender)
         /\ Elements(frames[u][1].list) = {m} /\ ~ Joins(frames[u][1]) /\ frames[u][1].kind = "message"
         /\ \A r \in Rooms : r # m.room => topicMessages'[u][r] = topicMessages[u][r]
         /\ topicMessages'[u][m.room] = WithMessage(topicMessages[u][m.room], m)
         /\ UNCHANGED activeTopicRoomId
  <1>1. Receives(u)
    BY DEF Receives
  <1>2. frames[u][1] \in Frame /\ 1 \in DOMAIN frames[u] /\ Head(frames[u]) = frames[u][1]
    BY <1>1, Received
  <1>3. PICK f \in Frame : f = frames[u][1]
    BY <1>2
  <1>4. f.kind = "message" /\ Proper(f)
    BY <1>2, <1>3 DEF ReceiveMessage, Receive, Traffic
  <1>5. /\ m \in Message /\ m.room \in Rooms /\ Posted(m)
        /\ Head(f.list) = m /\ Elements(f.list) = {m}
    BY <1>3, <1>4, Carried
  <1>6. topicMessages' = [topicMessages EXCEPT ![u][m.room] = WithMessage(@, m)]
    BY <1>2, <1>3, <1>5 DEF ReceiveMessage
  <1> QED BY <1>3, <1>4, <1>5, <1>6 DEF From, Joins, TypeOK, ReceiveMessage

LEMMA JoinReceived ==
  ASSUME TypeOK, Traffic, NEW u \in Users, ReceiveJoined(u), NEW f, f = frames[u][1]
  PROVE  /\ f \in Frame /\ f.room \in Rooms /\ Proper(f) /\ Joins(f)
         /\ \A r \in Rooms : r # f.room => topicMessages'[u][r] = topicMessages[u][r]
         /\ topicMessages'[u][f.room] = f.list
         /\ activeTopicRoomId'[u] = f.room
  <1>1. Receives(u)
    BY DEF Receives
  <1>2. f \in Frame /\ 1 \in DOMAIN frames[u] /\ Head(frames[u]) = f
    BY <1>1, Received
  <1>3. f.kind = "joined" /\ Proper(f)
    BY <1>2 DEF ReceiveJoined, Receive, Traffic
  <1>4. f.room \in Rooms
    BY <1>3 DEF Proper
  <1>5. /\ activeTopicRoomId' = [activeTopicRoomId EXCEPT ![u] = f.room]
        /\ topicMessages' = [topicMessages EXCEPT ![u][f.room] = f.list]
    BY <1>2 DEF ReceiveJoined
  <1> QED BY <1>2, <1>3, <1>4, <1>5 DEF TypeOK, Joins

\* A page that has been told of a leave or an error lists what it listed.
LEMMA OthersReceived ==
  ASSUME TypeOK, Traffic, NEW u \in Users, ReceiveLeft(u) \/ ReceiveError(u), NEW f, f = frames[u][1]
  PROVE  /\ f \in Frame /\ f.kind \in {"left", "error"} /\ f.list = <<>> /\ ~ Joins(f)
         /\ UNCHANGED topicMessages
         /\ activeTopicRoomId'[u] = IF Leaves(f, activeTopicRoomId[u]) THEN NoRoom ELSE activeTopicRoomId[u]
  <1>1. Receives(u)
    BY DEF Receives
  <1>2. f \in Frame /\ 1 \in DOMAIN frames[u] /\ Head(frames[u]) = f
    BY <1>1, Received
  <1>3. f.kind \in {"left", "error"} /\ Proper(f)
    BY <1>2 DEF ReceiveLeft, ReceiveError, Receive, Traffic
  <1>4. activeTopicRoomId'[u] = IF Leaves(f, activeTopicRoomId[u]) THEN NoRoom ELSE activeTopicRoomId[u]
    <2>1. CASE ReceiveLeft(u)
      <3>1. f.kind = "left"
        BY <2>1, <1>2 DEF ReceiveLeft, Receive
      <3> QED BY <2>1, <3>1, <1>2 DEF ReceiveLeft, Leaves, TypeOK
    <2>2. CASE ReceiveError(u)
      <3>1. f.kind = "error" /\ UNCHANGED activeTopicRoomId
        BY <2>2, <1>2 DEF ReceiveError, Receive, page
      <3> QED BY <3>1 DEF Leaves
    <2> QED BY <2>1, <2>2
  <1> QED BY <1>2, <1>3, <1>4 DEF Proper, Joins, ReceiveLeft, ReceiveError, page

LEMMA Listed ==
  ASSUME NEW list \in Seq(Message), NEW m \in Message
  PROVE  /\ WithMessage(list, m) \in Seq(Message)
         /\ Elements(WithMessage(list, m)) = Elements(list) \cup {m}
         /\ \A i \in DOMAIN list : i \in DOMAIN WithMessage(list, m) /\ WithMessage(list, m)[i] = list[i]
         /\ \A i \in DOMAIN WithMessage(list, m) :
              \/ i \in DOMAIN list /\ WithMessage(list, m)[i] = list[i]
              \/ i = Len(list) + 1 /\ WithMessage(list, m)[i] = m /\ m \notin Elements(list)
  <1>1. /\ Append(list, m) \in Seq(Message)
        /\ \A i \in DOMAIN list : i \in DOMAIN Append(list, m) /\ Append(list, m)[i] = list[i]
        /\ \A i \in DOMAIN Append(list, m) :
             (i \in DOMAIN list /\ Append(list, m)[i] = list[i]) \/ i = Len(list) + 1
        /\ Len(list) + 1 \in DOMAIN Append(list, m) /\ Append(list, m)[Len(list) + 1] = m
    BY Appended
  <1>2. Elements(Append(list, m)) = Elements(list) \cup {m}
    BY <1>1 DEF Elements
  <1>3. CASE m \in Elements(list)
    BY <1>3 DEF WithMessage
  <1>4. CASE m \notin Elements(list)
    BY <1>1, <1>2, <1>4 DEF WithMessage
  <1> QED BY <1>3, <1>4

\* A reader that replies sends its reply, and one that pushes too.
LEMMA Delivers ==
  ASSUME TypeOK, Readers, NEW u \in Users, Push(u) \/ Reply(u)
  PROVE  \E v \in Users, f \in Frame :
           /\ f = reader[u].reply /\ Proper(f)
           /\ frames' = [frames EXCEPT ![v] = Append(@, f)]
           /\ \/ /\ Push(u) /\ v \in reader[u].recipients /\ v # u
                 /\ reader' = [reader EXCEPT ![u].recipients = @ \ {v}]
                 /\ f.kind = "message"
              \/ Reply(u) /\ v = u /\ reader[u].recipients = {} /\ reader' = [reader EXCEPT ![u] = Waiting]
           /\ UNCHANGED <<topicUserRoom, messages, topicMessageSeq, posted, requests, asked,
                          activeTopicRoomId, topicMessages, astray>>
  <1>1. reader[u].reply \in Frame /\ InHand(u)
    BY DEF TypeOK, Readers
  <1>2. PICK f \in Frame : f = reader[u].reply
    BY <1>1
  <1>3. Proper(f)
    BY <1>1, <1>2 DEF InHand
  <1>4. CASE Push(u)
    <2>1. PICK v \in reader[u].recipients :
            /\ reader' = [reader EXCEPT ![u].recipients = @ \ {v}]
            /\ frames' = [frames EXCEPT ![v] = Append(@, reader[u].reply)]
      BY <1>4 DEF Push
    <2>2. v \in Users /\ v # u /\ f.kind = "message"
      BY <1>1, <1>2, <2>1 DEF TypeOK, InHand
    <2> QED BY <1>2, <1>3, <1>4, <2>1, <2>2 DEF Push, server, page, history
  <1>5. CASE Reply(u)
    BY <1>2, <1>3, <1>5 DEF Reply, server, page
  <1> QED BY <1>4, <1>5

LEMMA TrafficStep == ASSUME TypeOK, Budget, Log, Readers, Traffic, Next PROVE Traffic'
  <1> PICK u \in Users : Clicks(u) \/ Serves(u) \/ Push(u) \/ Reply(u) \/ Receives(u)
    BY Cases
  <1>0. /\ \A m \in Message : Posted(m) => Posted(m)'
        /\ \A f \in Frame : Proper(f) => Proper(f)'
    BY ProperStays
  <1>1. ASSUME NEW v \in Users, NEW i \in DOMAIN frames'[v]
        PROVE  Proper(frames[v][i])'
    <2>1. \E f \in Frame : f = frames'[v][i] /\ Proper(f)
      <3>1. \A w \in Users : \A j \in DOMAIN frames[w] : frames[w][j] \in Frame /\ Proper(frames[w][j])
        BY DEF TypeOK, Traffic
      <3>2. CASE Clicks(u) \/ Serves(u)
        <4>1. UNCHANGED frames
          BY <3>2 DEF Clicks, SelectTopicRoom, SelectConversation, SendMessage, Ask,
                      Serves, JoinTopicRoom, LeaveTopicRoom, SendTopicRoomMessage, Handle
        <4> QED BY <4>1, <3>1, <1>1
      <3>3. CASE Push(u) \/ Reply(u)
        <4>1. PICK w \in Users, f \in Frame : Proper(f) /\ frames' = [frames EXCEPT ![w] = Append(@, f)]
          BY <3>3, Delivers
        <4> QED BY <4>1, <3>1, <1>1, Arrives
      <3>4. CASE Receives(u)
        BY <3>1, <3>4, <1>1, Received
      <3> QED BY <3>2, <3>3, <3>4
    <2>2. PICK f \in Frame : f = frames'[v][i] /\ Proper(f)
      BY <2>1
    <2>3. Proper(f)'
      BY <2>2, <1>0
    <2> QED BY <2>2, <2>3 DEF Proper, Posted, Sorted
  <1>2. ASSUME NEW v \in Users, NEW r \in Rooms, NEW i \in DOMAIN topicMessages'[v][r]
        PROVE  Posted(topicMessages[v][r][i])'
    <2>1. \E m \in Message : m = topicMessages'[v][r][i] /\ Posted(m)
      <3>1. \A j \in DOMAIN topicMessages[v][r] :
              topicMessages[v][r][j] \in Message /\ Posted(topicMessages[v][r][j])
        BY DEF TypeOK, Traffic
      <3>2. CASE topicMessages'[v][r] = topicMessages[v][r]
        BY <3>1, <3>2, <1>2
      <3>3. CASE ReceiveJoined(u)
        <4>1. PICK f : f = frames[u][1]
          OBVIOUS
        <4>2. /\ f \in Frame /\ f.room \in Rooms /\ Proper(f)
              /\ \A q \in Rooms : q # f.room => topicMessages'[u][q] = topicMessages[u][q]
              /\ topicMessages'[u][f.room] = f.list
          BY <3>3, <4>1, JoinReceived
        <4>3. CASE v = u /\ r = f.room
          BY <4>2, <4>3, <1>2 DEF Proper, Frame
        <4>4. v # u => topicMessages'[v] = topicMessages[v]
          BY <3>3, Received DEF Receives
        <4> QED BY <4>2, <4>3, <4>4, <3>2
      <3>4. CASE ReceiveMessage(u)
        <4>1. PICK m : m = frames[u][1].list[1]
          OBVIOUS
        <4>2. /\ m \in Message /\ m.room \in Rooms /\ Posted(m)
              /\ \A q \in Rooms : q # m.room => topicMessages'[u][q] = topicMessages[u][q]
              /\ topicMessages'[u][m.room] = WithMessage(topicMessages[u][m.room], m)
          BY <3>4, <4>1, MessageReceived
        <4>3. CASE v = u /\ r = m.room
          <5>1. PICK list \in Seq(Message) : list = topicMessages[u][m.room]
            BY <4>2 DEF TypeOK
          <5>2. \A j \in DOMAIN WithMessage(list, m) :
                  \/ j \in DOMAIN list /\ WithMessage(list, m)[j] = list[j]
                  \/ WithMessage(list, m)[j] = m
            BY <4>2, Listed
          <5>3. i \in DOMAIN WithMessage(list, m) /\ topicMessages'[v][r] = WithMessage(list, m)
            BY <4>2, <4>3, <5>1, <1>2
          <5> HIDE DEF WithMessage
          <5> QED BY <4>2, <4>3, <5>1, <5>2, <5>3, <3>1
        <4>4. v # u => topicMessages'[v] = topicMessages[v]
          BY <3>4, Received DEF Receives
        <4> QED BY <4>2, <4>3, <4>4, <3>2
      <3>5. CASE ~ ReceiveJoined(u) /\ ~ ReceiveMessage(u)
        <4>1. UNCHANGED topicMessages
          BY <3>5 DEF Clicks, SelectTopicRoom, SelectConversation, SendMessage,
                      Serves, JoinTopicRoom, LeaveTopicRoom, SendTopicRoomMessage, Handle,
                      Push, Reply, Receives, ReceiveLeft, ReceiveError, page
        <4> QED BY <4>1, <3>2
      <3> QED BY <3>3, <3>4, <3>5
    <2>2. PICK m \in Message : m = topicMessages'[v][r][i] /\ Posted(m)
      BY <2>1
    <2>3. Posted(m)'
      BY <2>2, <1>0
    <2> QED BY <2>2, <2>3 DEF Posted
  <1> QED BY <1>1, <1>2 DEF Traffic

-----------------------------------------------------------------------------
(* The order of the messages of one sender. *)

LEMMA OrderInit == ASSUME Init PROVE Order
  <1>1. \A u \in Users : frames[u] = <<>> /\ \A r \in Rooms : topicMessages[u][r] = <<>>
    BY DEF Init
  <1> QED BY <1>1 DEF Order, SenderOrderKept, InOrder

\* InOrder in two parts: among the frames, and between them and the rest.
Among(v) ==
  \A i, j \in DOMAIN frames[v], s \in Users :
    i < j /\ From(frames[v][j], s) =>
      /\ From(frames[v][i], s) => frames[v][i].list[1].id < frames[v][j].list[1].id
      /\ Joins(frames[v][i]) =>
           \A k \in DOMAIN frames[v][i].list :
             frames[v][i].list[k].sender = s => frames[v][i].list[k].id <= frames[v][j].list[1].id
Before(v) ==
  \A i \in DOMAIN frames[v], s \in Users :
    From(frames[v][i], s) /\ Owes(s, v) => frames[v][i].list[1].id < reader[s].reply.list[1].id
Past(v) ==
  \A i \in DOMAIN frames[v], s \in Users :
    From(frames[v][i], s) =>
      \A r \in Rooms : \A k \in DOMAIN topicMessages[v][r] :
        topicMessages[v][r][k].sender = s =>
          topicMessages[v][r][k].id <= frames[v][i].list[1].id
OrderKept(v) ==
  \A r \in Rooms : \A i, j \in DOMAIN topicMessages[v][r] :
    i < j /\ topicMessages[v][r][i].sender = topicMessages[v][r][j].sender =>
      topicMessages[v][r][i].id < topicMessages[v][r][j].id

LEMMA OrderParts ==
  /\ Order <=> \A v \in Users : OrderKept(v) /\ Among(v) /\ Before(v) /\ Past(v)
  /\ Order' <=> \A v \in Users : OrderKept(v)' /\ Among(v)' /\ Before(v)' /\ Past(v)'
  BY DEF Order, SenderOrderKept, InOrder, OrderKept, Among, Before, Past

LEMMA OrderServes ==
  ASSUME TypeOK, Budget, Log, Readers, Traffic, Order, NEW u \in Users, Serves(u)
  PROVE  Order'
  <1>1. UNCHANGED <<frames, topicMessages>>
    BY DEF Serves, JoinTopicRoom, LeaveTopicRoom, SendTopicRoomMessage, Handle, page
  <1>2. \A v \in Users : OrderKept(v)' /\ Among(v)' /\ Past(v)'
    BY <1>1, OrderParts DEF OrderKept, Among, Past, From, Joins
  <1>3. ASSUME NEW v \in Users, NEW i \in DOMAIN frames'[v], NEW s \in Users,
               From(frames'[v][i], s), Owes(s, v)'
        PROVE  frames'[v][i].list[1].id < reader'[s].reply.list[1].id
    <2>1. \A w \in Users \ {u} : reader'[w] = reader[w]
      BY DEF Serves, JoinTopicRoom, LeaveTopicRoom, SendTopicRoomMessage, Handle, TypeOK
    <2>2. CASE s # u
      BY <2>1, <2>2, <1>1, <1>3, OrderParts DEF Before, Owes
    <2>3. CASE s = u /\ Sends(u)
      <3>1. PICK f \in Frame : f = frames[v][i]
        BY <1>1, <1>3 DEF TypeOK
      <3>2. f.kind = "message" /\ Proper(f)
        BY <1>1, <1>3, <3>1 DEF From, Traffic
      <3>3. f.list[1] \in Message /\ Posted(f.list[1])
        BY <3>2, Carried
      <3>4. f.list[1].id <= topicMessageSeq /\ f.list[1].id \in Nat
        BY <3>3 DEF Log, Posted, Message
      <3>5. /\ Handle(u, "send", NewMessage(New(u)), Members(Asked(u)) \ {u})
            /\ New(u).id = topicMessageSeq + 1
        BY <2>3, Sent
      <3>6. reader'[u].reply.list[1] = New(u)
        BY <3>5 DEF Handle, TypeOK, NewMessage
      <3> QED BY <1>1, <2>3, <3>1, <3>4, <3>5, <3>6 DEF TypeOK
    <2>4. CASE s = u /\ ~ Sends(u)
      <3>1. reader'[u].reply.kind # "message"
        <4>1. CASE JoinTopicRoom(u)
          <5>1. PICK f \in {Joined(Asked(u), messages[Asked(u)]), Refused} : Handle(u, "join", f, {})
            BY <4>1 DEF JoinTopicRoom
          <5>2. f.kind # "message"
            BY DEF Joined, Refused
          <5> QED BY <5>1, <5>2 DEF Handle, TypeOK
        <4>2. CASE LeaveTopicRoom(u)
          <5>1. PICK f \in {Left(topicUserRoom[u]), Refused} : Handle(u, "leave", f, {})
            BY <4>2 DEF LeaveTopicRoom
          <5>2. f.kind # "message"
            BY DEF Left, Refused
          <5> QED BY <5>1, <5>2 DEF Handle, TypeOK
        <4>3. CASE SendTopicRoomMessage(u)
          <5>1. Handle(u, "send", Refused, {})
            BY <4>3, <2>4 DEF SendTopicRoomMessage, Sends
          <5> QED BY <5>1 DEF Handle, TypeOK, Refused
        <4> QED BY <4>1, <4>2, <4>3 DEF Serves
      <3> QED BY <3>1, <2>4, <1>3 DEF Owes
    <2> QED BY <2>2, <2>3, <2>4
  <1>4. \A v \in Users : Before(v)'
    BY <1>3 DEF Before, From
  <1> QED BY <1>2, <1>4, OrderParts

LEMMA OrderDelivers ==
  ASSUME TypeOK, Budget, Log, Readers, Traffic, Order, NEW u \in Users, Push(u) \/ Reply(u)
  PROVE  Order'
  <1>1. PICK v \in Users, f \in Frame :
           /\ f = reader[u].reply /\ Proper(f)
           /\ frames' = [frames EXCEPT ![v] = Append(@, f)]
           /\ \/ /\ Push(u) /\ v \in reader[u].recipients /\ v # u
                 /\ reader' = [reader EXCEPT ![u].recipients = @ \ {v}]
                 /\ f.kind = "message"
              \/ Reply(u) /\ v = u /\ reader[u].recipients = {} /\ reader' = [reader EXCEPT ![u] = Waiting]
           /\ UNCHANGED topicMessages
    BY Delivers
  <1>2. /\ \A w \in Users \ {v} : frames'[w] = frames[w]
        /\ \A i \in DOMAIN frames[v] : i \in DOMAIN frames'[v] /\ frames'[v][i] = frames[v][i]
        /\ \A i \in DOMAIN frames'[v] :
             (i \in DOMAIN frames[v] /\ frames'[v][i] = frames[v][i]) \/ i = Len(frames[v]) + 1
        /\ \A i \in DOMAIN frames[v] : i \in Nat /\ i < Len(frames[v]) + 1
        /\ Len(frames[v]) + 1 \in DOMAIN frames'[v] /\ frames'[v][Len(frames[v]) + 1] = f
        /\ Len(frames[v]) \in Nat
    BY <1>1, Arrives
  <1> DEFINE n == Len(frames[v]) + 1
  <1>3. InHand(u)
    BY DEF Readers
  <1>4. ASSUME NEW s \in Users, From(f, s)
        PROVE  /\ s = u /\ f.list[1] \in Message
               /\ \A m \in Message : Posted(m) /\ m.sender = u => m.id <= f.list[1].id
               /\ Owes(u, v)
    BY <1>1, <1>3, <1>4, Carried DEF From, InHand, Owes
  <1>5. \A w, s \in Users : Owes(s, w)' => Owes(s, w) /\ ~ (s = u /\ w = v) /\ reader'[s].reply = reader[s].reply
    <2> SUFFICES ASSUME NEW w \in Users, NEW s \in Users, Owes(s, w)'
                 PROVE  Owes(s, w) /\ ~ (s = u /\ w = v) /\ reader'[s].reply = reader[s].reply
      OBVIOUS
    <2>1. CASE s # u
      <3>1. reader'[s] = reader[s]
        BY <1>1, <2>1 DEF TypeOK
      <3> QED BY <2>1, <3>1 DEF Owes
    <2>2. CASE s = u /\ Push(u) /\ v # u /\ reader' = [reader EXCEPT ![u].recipients = @ \ {v}]
      <3>1. reader'[u].reply = reader[u].reply /\ reader'[u].recipients = reader[u].recipients \ {v}
        BY <2>2 DEF TypeOK
      <3> QED BY <2>2, <3>1 DEF Owes
    <2>3. CASE s = u /\ reader' = [reader EXCEPT ![u] = Waiting]
      <3>1. reader'[u].reply.kind = "error"
        BY <2>3 DEF TypeOK, Waiting, Refused
      <3> QED BY <2>3, <3>1 DEF Owes
    <2> QED BY <1>1, <2>1, <2>2, <2>3
  <1>6. \A w \in Users : OrderKept(w)'
    BY <1>1, OrderParts DEF OrderKept
  <1>7. ASSUME NEW w \in Users, NEW i \in DOMAIN frames'[w], NEW j \in DOMAIN frames'[w], NEW s \in Users,
               i < j, From(frames'[w][j], s)
        PROVE  /\ From(frames'[w][i], s) => frames'[w][i].list[1].id < frames'[w][j].list[1].id
               /\ Joins(frames'[w][i]) =>
                    \A k \in DOMAIN frames'[w][i].list :
                      frames'[w][i].list[k].sender = s => frames'[w][i].list[k].id <= frames'[w][j].list[1].id
    <2>1. CASE w # v
      <3>1. frames'[w] = frames[w] /\ Among(w)
        BY <1>2, <2>1, OrderParts
      <3> QED BY <3>1, <1>7 DEF Among
    <2>2. CASE w = v /\ j # n
      <3>1. j \in DOMAIN frames[v] /\ frames'[v][j] = frames[v][j]
        BY <1>2, <1>7, <2>2
      <3>2. i # n
        BY <3>1, <1>2, <1>7
      <3>3. i \in DOMAIN frames[v] /\ frames'[v][i] = frames[v][i]
        BY <1>2, <1>7, <2>2, <3>2
      <3>4. Among(v)
        BY OrderParts
      <3> QED BY <2>2, <3>1, <3>3, <3>4, <1>7 DEF Among
    <2>3. CASE w = v /\ j = n
      <3>1. frames'[v][j] = f /\ From(f, s)
        BY <2>3, <1>2, <1>7
      <3>2. i # n
        BY <1>2, <1>7, <2>3
      <3>3. i \in DOMAIN frames[v] /\ frames'[v][i] = frames[v][i]
        BY <1>2, <1>7, <2>3, <3>2
      <3>4. /\ s = u /\ Owes(u, v)
            /\ \A m \in Message : Posted(m) /\ m.sender = u => m.id <= f.list[1].id
        BY <3>1, <1>4
      <3>5. From(frames[v][i], s) => frames[v][i].list[1].id < f.list[1].id
        <4>1. Before(v)
          BY OrderParts
        <4> QED BY <3>3, <3>4, <1>1, <4>1 DEF Before
      <3>6. PICK g \in Frame : g = frames[v][i] /\ Proper(g)
        <4>1. frames[v] \in Seq(Frame)
          BY DEF TypeOK
        <4>2. Proper(frames[v][i])
          BY <3>3 DEF Traffic
        <4> QED BY <3>3, <4>1, <4>2
      <3>7. \A k \in DOMAIN g.list : g.list[k] \in Message /\ Posted(g.list[k])
        BY <3>6 DEF Proper, Frame
      <3> QED BY <2>3, <3>1, <3>3, <3>4, <3>5, <3>6, <3>7
    <2> QED BY <2>1, <2>2, <2>3
  <1>8. \A w \in Users : Among(w)'
    BY <1>7 DEF Among, From, Joins
  <1>9. ASSUME NEW w \in Users, NEW i \in DOMAIN frames'[w], NEW s \in Users,
               From(frames'[w][i], s), Owes(s, w)'
        PROVE  frames'[w][i].list[1].id < reader'[s].reply.list[1].id
    <2>1. Owes(s, w) /\ ~ (s = u /\ w = v) /\ reader'[s].reply = reader[s].reply
      BY <1>5, <1>9
    <2>2. CASE i \in DOMAIN frames[w] /\ frames'[w][i] = frames[w][i]
      BY <2>1, <2>2, <1>9, OrderParts DEF Before
    <2>3. CASE w = v /\ i = n
      <3>1. From(f, s)
        BY <2>3, <1>2, <1>9
      <3> QED BY <3>1, <1>4, <2>1, <2>3
    <2> QED BY <2>2, <2>3, <1>2, <1>9
  <1>10. \A w \in Users : Before(w)'
    BY <1>9 DEF Before, From
  <1>11. ASSUME NEW w \in Users, NEW i \in DOMAIN frames'[w], NEW s \in Users, From(frames'[w][i], s),
                NEW r \in Rooms, NEW k \in DOMAIN topicMessages'[w][r], topicMessages'[w][r][k].sender = s
         PROVE  topicMessages'[w][r][k].id <= frames'[w][i].list[1].id
    <2>1. CASE i \in DOMAIN frames[w] /\ frames'[w][i] = frames[w][i]
      BY <2>1, <1>1, <1>11, OrderParts DEF Past
    <2>2. CASE w = v /\ i = n
      <3>1. frames'[v][i] = f /\ From(f, s)
        BY <2>2, <1>2, <1>11
      <3>2. topicMessages[v][r][k] \in Message /\ Posted(topicMessages[v][r][k])
        <4>1. topicMessages' = topicMessages
          BY <1>1
        <4>2. k \in DOMAIN topicMessages[v][r]
          BY <4>1, <1>11, <2>2
        <4>3. topicMessages[v][r] \in Seq(Message)
          BY DEF TypeOK
        <4>4. topicMessages[v][r][k] \in Message
          BY <4>2, <4>3
        <4> QED BY <4>2, <4>4 DEF Traffic
      <3>3. s = u /\ \A m \in Message : Posted(m) /\ m.sender = u => m.id <= f.list[1].id
        BY <3>1, <1>4
      <3> QED BY <2>2, <3>1, <3>2, <3>3, <1>1, <1>11
    <2> QED BY <2>1, <2>2, <1>2, <1>11
  <1>12. \A w \in Users : Past(w)'
    BY <1>11 DEF Past, From
  <1> QED BY <1>6, <1>8, <1>10, <1>12, OrderParts

LEMMA OrderReceives ==
  ASSUME TypeOK, Budget, Log, Readers, Traffic, Order, NEW u \in Users, Receives(u)
  PROVE  Order'
  <1>1. /\ UNCHANGED reader
        /\ 1 \in DOMAIN frames[u] /\ frames[u][1] \in Frame
        /\ \A v \in Users \ {u} : frames'[v] = frames[v] /\ topicMessages'[v] = topicMessages[v]
        /\ \A i \in DOMAIN frames'[u] : i + 1 \in DOMAIN frames[u] /\ frames'[u][i] = frames[u][i + 1]
             /\ i \in Nat /\ i > 0
    BY Received
  <1>2. \A v \in Users : OrderKept(v) /\ Among(v) /\ Before(v) /\ Past(v)
    BY OrderParts
  <1>3. ASSUME NEW v \in Users \ {u}
        PROVE  OrderKept(v)' /\ Among(v)' /\ Before(v)' /\ Past(v)'
    <2>1. frames'[v] = frames[v] /\ topicMessages'[v] = topicMessages[v] /\ reader' = reader
      BY <1>1
    <2>2. OrderKept(v)'
      BY <2>1, <1>2 DEF OrderKept
    <2>3. Among(v)'
      BY <2>1, <1>2 DEF Among, From, Joins
    <2>4. Before(v)'
      BY <2>1, <1>2 DEF Before, From, Owes
    <2>5. Past(v)'
      BY <2>1, <1>2 DEF Past, From
    <2> QED BY <2>2, <2>3, <2>4, <2>5
  <1>4. Among(u)'
    <2> SUFFICES ASSUME NEW i \in DOMAIN frames'[u], NEW j \in DOMAIN frames'[u], NEW s \in Users,
                        i < j, From(frames'[u][j], s)
                 PROVE  /\ From(frames'[u][i], s) => frames'[u][i].list[1].id < frames'[u][j].list[1].id
                        /\ Joins(frames'[u][i]) =>
                             \A k \in DOMAIN frames'[u][i].list :
                               frames'[u][i].list[k].sender = s =>
                                 frames'[u][i].list[k].id <= frames'[u][j].list[1].id
      BY DEF Among, From, Joins
    <2>1. /\ i + 1 \in DOMAIN frames[u] /\ j + 1 \in DOMAIN frames[u] /\ i + 1 < j + 1
          /\ frames'[u][i] = frames[u][i + 1] /\ frames'[u][j] = frames[u][j + 1]
      BY <1>1
    <2> QED BY <2>1, <1>2 DEF Among
  <1>5. Before(u)'
    <2> SUFFICES ASSUME NEW i \in DOMAIN frames'[u], NEW s \in Users,
                        From(frames'[u][i], s), Owes(s, u)'
                 PROVE  frames'[u][i].list[1].id < reader'[s].reply.list[1].id
      BY DEF Before, From
    <2>1. Owes(s, u)
      BY <1>1 DEF Owes
    <2> QED BY <2>1, <1>1, <1>2 DEF Before
  <1>6. CASE ReceiveJoined(u)
    <2>1. PICK f : f = frames[u][1]
      OBVIOUS
    <2>2. /\ f \in Frame /\ f.room \in Rooms /\ Proper(f) /\ Joins(f)
          /\ \A r \in Rooms : r # f.room => topicMessages'[u][r] = topicMessages[u][r]
          /\ topicMessages'[u][f.room] = f.list
      BY <1>6, <2>1, JoinReceived
    <2>3. OrderKept(u)'
      BY <2>2, <1>2 DEF OrderKept, Proper, Sorted, Joins
    <2>4. Past(u)'
      <3> SUFFICES ASSUME NEW i \in DOMAIN frames'[u], NEW s \in Users, From(frames'[u][i], s),
                          NEW r \in Rooms, NEW k \in DOMAIN topicMessages'[u][r],
                          topicMessages'[u][r][k].sender = s
                   PROVE  topicMessages'[u][r][k].id <= frames'[u][i].list[1].id
        BY DEF Past, From
      <3>1. i + 1 \in DOMAIN frames[u] /\ frames'[u][i] = frames[u][i + 1] /\ 1 < i + 1
        BY <1>1
      <3>2. CASE r = f.room
        BY <3>1, <3>2, <2>1, <2>2, <1>1, <1>2 DEF Among
      <3>3. CASE r # f.room
        BY <3>1, <3>3, <2>2, <1>2 DEF Past
      <3> QED BY <3>2, <3>3
    <2> QED BY <1>3, <1>4, <1>5, <2>3, <2>4, OrderParts
  <1>7. CASE ReceiveMessage(u)
    <2>1. PICK m : m = frames[u][1].list[1]
      OBVIOUS
    <2>2. /\ m \in Message /\ m.room \in Rooms /\ Posted(m) /\ From(frames[u][1], m.sender)
          /\ \A r \in Rooms : r # m.room => topicMessages'[u][r] = topicMessages[u][r]
          /\ topicMessages'[u][m.room] = WithMessage(topicMessages[u][m.room], m)
      BY <1>7, <2>1, MessageReceived
    <2>3. PICK list \in Seq(Message) : list = topicMessages[u][m.room]
      BY <2>2 DEF TypeOK
    <2>4. /\ \A i \in DOMAIN WithMessage(list, m) :
               \/ i \in DOMAIN list /\ WithMessage(list, m)[i] = list[i]
               \/ i = Len(list) + 1 /\ WithMessage(list, m)[i] = m /\ m \notin Elements(list)
      BY <2>2, Listed
    <2>5. \A k \in DOMAIN list : list[k].sender = m.sender => list[k].id <= m.id
      BY <2>1, <2>2, <2>3, <1>1, <1>2 DEF Past, Message
    <2>6. \A k \in DOMAIN list : list[k] \in Message /\ Posted(list[k]) /\ k \in Nat /\ k < Len(list) + 1
      <3>1. \A k \in DOMAIN list : list[k] \in Message /\ k \in Nat /\ k < Len(list) + 1
        OBVIOUS
      <3> QED BY <3>1, <2>2, <2>3 DEF Traffic
    <2>7. \A k \in DOMAIN list : list[k] # m => list[k].id # m.id
      BY <2>2, <2>6 DEF Log
    <2>8. OrderKept(u)'
      <3> SUFFICES ASSUME NEW r \in Rooms,
                          NEW i \in DOMAIN topicMessages'[u][r], NEW j \in DOMAIN topicMessages'[u][r],
                          i < j, topicMessages'[u][r][i].sender = topicMessages'[u][r][j].sender
                   PROVE  topicMessages'[u][r][i].id < topicMessages'[u][r][j].id
        BY DEF OrderKept
      <3>1. CASE r # m.room
        BY <3>1, <2>2, <1>2 DEF OrderKept
      <3>2. CASE r = m.room
        <4> DEFINE new == WithMessage(list, m)
        <4>1. topicMessages'[u][r] = new
          BY <3>2, <2>2, <2>3
        <4> HIDE DEF new
        <4>2. CASE j \in DOMAIN list /\ new[j] = list[j]
          <5>1. i \in DOMAIN list /\ new[i] = list[i]
            BY <4>1, <4>2, <2>4, <2>6 DEF new
          <5>2. OrderKept(u)
            BY <1>2
          <5> QED BY <3>2, <4>1, <4>2, <5>1, <5>2, <2>2, <2>3 DEF OrderKept
        <4>3. CASE j = Len(list) + 1 /\ new[j] = m /\ m \notin Elements(list)
          <5>1. i \in DOMAIN list /\ new[i] = list[i]
            BY <4>1, <4>3, <2>4, <2>6 DEF new
          <5>2. list[i] # m
            BY <5>1, <4>3 DEF Elements
          <5>3. list[i].id <= m.id /\ list[i].id # m.id /\ list[i].id \in Nat /\ m.id \in Nat
            BY <5>1, <5>2, <4>1, <4>3, <2>2, <2>5, <2>6, <2>7 DEF Message
          <5> QED BY <5>1, <5>3, <4>1, <4>3
        <4> QED BY <4>1, <4>2, <4>3, <2>4 DEF new
      <3> QED BY <3>1, <3>2
    <2>9. Past(u)'
      <3> SUFFICES ASSUME NEW i \in DOMAIN frames'[u], NEW s \in Users, From(frames'[u][i], s),
                          NEW r \in Rooms, NEW k \in DOMAIN topicMessages'[u][r],
                          topicMessages'[u][r][k].sender = s
                   PROVE  topicMessages'[u][r][k].id <= frames'[u][i].list[1].id
        BY DEF Past, From
      <3>1. i + 1 \in DOMAIN frames[u] /\ frames'[u][i] = frames[u][i + 1] /\ 1 < i + 1
        BY <1>1
      <3>2. CASE k \in DOMAIN topicMessages[u][r] /\ topicMessages'[u][r][k] = topicMessages[u][r][k]
        BY <3>1, <3>2, <1>2 DEF Past
      <3>3. CASE topicMessages'[u][r][k] = m
        <4>1. m.sender = s /\ frames[u][1].list[1].id < frames[u][i + 1].list[1].id
          BY <3>1, <3>3, <2>1, <2>2, <1>1, <1>2 DEF Among
        <4>2. PICK g \in Frame : g = frames[u][i + 1] /\ Proper(g)
          BY <3>1 DEF TypeOK, Traffic
        <4>3. g.list[1] \in Message
          BY <3>1, <4>2, Carried DEF From
        <4> QED BY <3>1, <3>3, <4>1, <4>2, <4>3, <2>1, <2>2 DEF Message
      <3>4. r = m.room => topicMessages'[u][r] = WithMessage(list, m)
        BY <2>2, <2>3
      <3>5. r # m.room => topicMessages'[u][r] = topicMessages[u][r]
        BY <2>2
      <3> QED BY <3>2, <3>3, <3>4, <3>5, <2>3, <2>4
    <2> QED BY <1>3, <1>4, <1>5, <2>8, <2>9, OrderParts
  <1>8. CASE ReceiveLeft(u) \/ ReceiveError(u)
    <2>1. UNCHANGED topicMessages
      BY <1>8, OthersReceived
    <2>2. OrderKept(u)'
      BY <2>1, <1>2 DEF OrderKept
    <2>3. Past(u)'
      BY <2>1, <1>1, <1>2 DEF Past, From
    <2> QED BY <1>3, <1>4, <1>5, <2>2, <2>3, OrderParts
  <1> QED BY <1>6, <1>7, <1>8 DEF Receives

LEMMA OrderStep == ASSUME TypeOK, Budget, Log, Readers, Traffic, Order, Next PROVE Order'
  <1> PICK u \in Users : Clicks(u) \/ Serves(u) \/ Push(u) \/ Reply(u) \/ Receives(u)
    BY Cases
  <1>1. CASE Clicks(u)
    <2>1. UNCHANGED <<reader, frames, topicMessages>>
      BY <1>1 DEF Clicks, SelectTopicRoom, SelectConversation, SendMessage, Ask, page
    <2> QED BY <2>1 DEF Order, SenderOrderKept, InOrder, From, Joins, Owes
  <1> QED BY <1>1, OrderServes, OrderDelivers, OrderReceives

-----------------------------------------------------------------------------
(* The room that a page will show. *)

LEMMA LeadsOn ==
  ASSUME NEW fs \in Seq(Frame), NEW f \in Frame, NEW a, NEW x, Leads(a, fs, x)
  PROVE  Leads(a, Append(fs, f), After(x, f))
  <1> DEFINE n == Len(fs) + 1  new == Append(fs, f)
  <1>1. /\ \A i \in DOMAIN fs : i \in DOMAIN new /\ new[i] = fs[i] /\ i \in Nat /\ i < n
        /\ \A i \in DOMAIN new : (i \in DOMAIN fs /\ new[i] = fs[i]) \/ i = n
        /\ n \in DOMAIN new /\ new[n] = f /\ n \in Nat
    OBVIOUS
  <1> HIDE DEF new, n
  <1>2. CASE Joins(f)
    <2>1. \A j \in DOMAIN new : ~ (j > n)
      BY <1>1
    <2> QED BY <1>1, <1>2, <2>1 DEF Leads, After, new
  <1>3. CASE ~ Joins(f) /\ \A i \in DOMAIN fs : ~ Joins(fs[i])
    <2>1. \A i \in DOMAIN new : ~ Joins(new[i])
      BY <1>1, <1>3
    <2>2. x = IF \E i \in DOMAIN fs : Leaves(fs[i], a) THEN NoRoom ELSE a
      BY <1>3 DEF Leads
    <2>3. (\E i \in DOMAIN new : Leaves(new[i], a)) <=> (\E i \in DOMAIN fs : Leaves(fs[i], a)) \/ Leaves(f, a)
      BY <1>1
    <2>4. After(x, f) = IF \E i \in DOMAIN new : Leaves(new[i], a) THEN NoRoom ELSE a
      BY <2>2, <2>3, <1>3 DEF After
    <2> QED BY <2>1, <2>4 DEF Leads, new
  <1>4. CASE ~ Joins(f) /\ \E i \in DOMAIN fs : Joins(fs[i])
    <2>1. PICK i \in DOMAIN fs :
            /\ Joins(fs[i]) /\ \A j \in DOMAIN fs : j > i => ~ Joins(fs[j])
            /\ x = IF \E j \in DOMAIN fs : j > i /\ Leaves(fs[j], fs[i].room) THEN NoRoom ELSE fs[i].room
      BY <1>4 DEF Leads
    <2>2. i \in DOMAIN new /\ new[i] = fs[i] /\ n > i
      BY <1>1
    <2>3. \A j \in DOMAIN new : j > i => ~ Joins(new[j])
      BY <1>1, <1>4, <2>1
    <2>4. (\E j \in DOMAIN new : j > i /\ Leaves(new[j], fs[i].room))
            <=> (\E j \in DOMAIN fs : j > i /\ Leaves(fs[j], fs[i].room)) \/ Leaves(f, fs[i].room)
      BY <1>1, <2>2
    <2>5. After(x, f) = IF \E j \in DOMAIN new : j > i /\ Leaves(new[j], new[i].room) THEN NoRoom ELSE new[i].room
      BY <2>1, <2>2, <2>4, <1>4 DEF After
    <2> QED BY <2>1, <2>2, <2>3, <2>5 DEF Leads, new
  <1> QED BY <1>2, <1>3, <1>4

LEMMA LeadsOff ==
  ASSUME NEW fs \in Seq(Frame), fs # <<>>, NEW a, NEW x, Leads(a, fs, x)
  PROVE  Leads(After(a, fs[1]), Tail(fs), x)
  <1> DEFINE new == Tail(fs)  b == After(a, fs[1])
  <1>1. /\ 1 \in DOMAIN fs
        /\ \A i \in DOMAIN fs : i \in Nat /\ i > 0
        /\ \A i \in DOMAIN new : i \in Nat /\ i > 0 /\ i + 1 \in DOMAIN fs /\ new[i] = fs[i + 1]
        /\ \A i \in DOMAIN fs : i = 1 \/ (i - 1 \in DOMAIN new /\ new[i - 1] = fs[i])
    BY Tailed
  <1> HIDE DEF new, b
  <1>2. CASE \A i \in DOMAIN fs : ~ Joins(fs[i])
    <2>1. \A i \in DOMAIN new : ~ Joins(new[i])
      BY <1>1, <1>2
    <2>2. x = IF \E i \in DOMAIN fs : Leaves(fs[i], a) THEN NoRoom ELSE a
      BY <1>2 DEF Leads
    <2>3. b = IF Leaves(fs[1], a) THEN NoRoom ELSE a
      BY <1>1, <1>2 DEF After, b
    <2>4. \A c : (\E i \in DOMAIN fs : Leaves(fs[i], c)) <=> (\E i \in DOMAIN new : Leaves(new[i], c)) \/ Leaves(fs[1], c)
      BY <1>1
    <2>5. x = IF \E i \in DOMAIN new : Leaves(new[i], b) THEN NoRoom ELSE b
      BY <2>2, <2>3, <2>4
    <2> QED BY <2>1, <2>5 DEF Leads, new, b
  <1>3. CASE \E i \in DOMAIN fs : Joins(fs[i])
    <2>1. PICK i \in DOMAIN fs :
            /\ Joins(fs[i]) /\ \A j \in DOMAIN fs : j > i => ~ Joins(fs[j])
            /\ x = IF \E j \in DOMAIN fs : j > i /\ Leaves(fs[j], fs[i].room) THEN NoRoom ELSE fs[i].room
      BY <1>3 DEF Leads
    <2>2. CASE i = 1
      <3>1. \A j \in DOMAIN new : ~ Joins(new[j])
        BY <1>1, <2>1, <2>2
      <3>2. b = fs[1].room
        BY <2>1, <2>2 DEF After, b
      <3>3. (\E j \in DOMAIN fs : j > 1 /\ Leaves(fs[j], b)) <=> (\E j \in DOMAIN new : Leaves(new[j], b))
        <4>1. \A j \in DOMAIN fs : j > 1 => j # 1
          BY <1>1
        <4>2. \A j \in DOMAIN new : j + 1 > 1
          BY <1>1
        <4> QED BY <1>1, <4>1, <4>2
      <3> QED BY <2>1, <2>2, <3>1, <3>2, <3>3 DEF Leads, new, b
    <2>3. CASE i # 1
      <3>1. i - 1 \in DOMAIN new /\ new[i - 1] = fs[i] /\ i \in Nat
        BY <1>1, <2>3
      <3>2. \A j \in DOMAIN new : j > i - 1 => j + 1 > i
        BY <1>1, <3>1
      <3>3. \A j \in DOMAIN fs : j > i => j - 1 > i - 1 /\ j # 1
        <4>1. \A j \in Nat : j > i => j - 1 > i - 1
          BY <3>1
        <4>2. i > 0
          BY <1>1
        <4>3. \A j \in Nat : j > i => j # 1
          BY <3>1, <4>2, <2>3
        <4> QED BY <1>1, <4>1, <4>3
      <3>4. \A j \in DOMAIN new : j > i - 1 => ~ Joins(new[j])
        BY <1>1, <2>1, <3>2
      <3>5. (\E j \in DOMAIN fs : j > i /\ Leaves(fs[j], fs[i].room))
              <=> (\E j \in DOMAIN new : j > i - 1 /\ Leaves(new[j], fs[i].room))
        BY <1>1, <3>2, <3>3
      <3> QED BY <2>1, <3>1, <3>4, <3>5 DEF Leads, new
    <2> QED BY <2>2, <2>3
  <1> QED BY <1>2, <1>3

LEMMA AgreeInit == ASSUME Init PROVE \A u \in Users : WillAgree(u)
  <1> SUFFICES ASSUME NEW u \in Users PROVE WillAgree(u)
    OBVIOUS
  <1>1. /\ activeTopicRoomId[u] = NoRoom /\ frames[u] = <<>> /\ topicUserRoom[u] = NoRoom
        /\ reader[u] = Waiting
    BY DEF Init
  <1>2. reader[u].reply.kind = "error"
    BY <1>1 DEF Waiting, Refused
  <1>3. After(NoRoom, reader[u].reply) = NoRoom
    BY <1>2 DEF After, Joins, Leaves
  <1>4. Leads(NoRoom, frames[u], NoRoom)
    BY <1>1 DEF Leads
  <1> QED BY <1>1, <1>3, <1>4 DEF WillAgree

\* The step of one user leaves the rooms of the others alone, but for the
\* frames that are pushed to them.
LEMMA AgreeFrame ==
  ASSUME NEW v \in Users, WillAgree(v),
         activeTopicRoomId'[v] = activeTopicRoomId[v], frames'[v] = frames[v],
         reader'[v].reply = reader[v].reply, topicUserRoom'[v] = topicUserRoom[v],
         requests'[v] = requests[v], astray'[v] = astray[v]
  PROVE  WillAgree(v)'
  <1>1. PICK x \in Rooms \cup {NoRoom} :
          /\ Leads(activeTopicRoomId[v], frames[v], x)
          /\ \/ After(x, reader[v].reply) = topicUserRoom[v]
             \/ /\ After(x, reader[v].reply) = NoRoom
                /\ \E i \in DOMAIN requests[v] :
                     requests[v][i] = [kind |-> "leave", room |-> topicUserRoom[v]]
             \/ astray[v]
    BY DEF WillAgree
  <1>2. Leads(activeTopicRoomId'[v], frames'[v], x) /\ After(x, reader'[v].reply) = After(x, reader[v].reply)
    BY <1>1
  <1>3. \E y \in Rooms \cup {NoRoom} :
          /\ Leads(activeTopicRoomId'[v], frames'[v], y)
          /\ \/ After(y, reader'[v].reply) = topicUserRoom'[v]
             \/ /\ After(y, reader'[v].reply) = NoRoom
                /\ \E i \in DOMAIN requests'[v] :
                     requests'[v][i] = [kind |-> "leave", room |-> topicUserRoom'[v]]
             \/ astray'[v]
    BY <1>1, <1>2
  <1> QED BY <1>3 DEF WillAgree, Leads, After, Joins, Leaves

LEMMA AgreeClicks ==
  ASSUME TypeOK, NEW u \in Users, Clicks(u), \A v \in Users : WillAgree(v)
  PROVE  \A v \in Users : WillAgree(v)'
  <1>1. UNCHANGED <<topicUserRoom, reader, frames, astray>>
    BY DEF Clicks, SelectTopicRoom, SelectConversation, SendMessage, Ask, server, history
  <1>2. \A v \in Users \ {u} : requests'[v] = requests[v] /\ activeTopicRoomId'[v] = activeTopicRoomId[v]
    BY DEF Clicks, SelectTopicRoom, SelectConversation, SendMessage, Ask, page, TypeOK
  <1>3. \A v \in Users \ {u} : WillAgree(v)'
    BY <1>1, <1>2, AgreeFrame
  <1>4. PICK req \in Request :
          /\ requests'[u] = Append(requests[u], req)
          /\ \/ activeTopicRoomId'[u] = activeTopicRoomId[u]
             \/ /\ activeTopicRoomId[u] # NoRoom /\ activeTopicRoomId'[u] = NoRoom
                /\ req = [kind |-> "leave", room |-> activeTopicRoomId[u]]
    <2>1. ASSUME NEW kind \in {"join", "leave", "send"}, NEW room \in Rooms, Ask(u, kind, room)
          PROVE  /\ [kind |-> kind, room |-> room] \in Request
                 /\ requests'[u] = Append(requests[u], [kind |-> kind, room |-> room])
      BY <2>1 DEF Request, Ask, TypeOK
    <2>2. activeTopicRoomId[u] # NoRoom => activeTopicRoomId[u] \in Rooms
      BY DEF TypeOK
    <2>3. CASE \E room \in Rooms : SelectTopicRoom(u, room)
      <3>1. PICK room \in Rooms : Ask(u, "join", room) /\ UNCHANGED page
        BY <2>3 DEF SelectTopicRoom
      <3> QED BY <3>1, <2>1 DEF page
    <2>4. CASE SelectConversation(u)
      <3>1. PICK room \in Rooms : room = activeTopicRoomId[u]
        BY <2>2, <2>4 DEF SelectConversation
      <3>2. /\ Ask(u, "leave", room) /\ activeTopicRoomId[u] # NoRoom
            /\ activeTopicRoomId' = [activeTopicRoomId EXCEPT ![u] = NoRoom]
        BY <2>4, <3>1 DEF SelectConversation
      <3>3. activeTopicRoomId'[u] = NoRoom
        BY <3>2 DEF TypeOK
      <3> QED BY <3>1, <3>2, <3>3, <2>1
    <2>5. CASE SendMessage(u)
      <3>1. PICK room \in Rooms : room = activeTopicRoomId[u]
        BY <2>2, <2>5 DEF SendMessage
      <3>2. Ask(u, "send", room) /\ UNCHANGED page
        BY <2>5, <3>1 DEF SendMessage
      <3> QED BY <3>2, <2>1 DEF page
    <2> QED BY <2>3, <2>4, <2>5 DEF Clicks
  <1>5. /\ \A i \in DOMAIN requests[u] : i \in DOMAIN requests'[u] /\ requests'[u][i] = requests[u][i]
        /\ \E i \in DOMAIN requests'[u] : requests'[u][i] = req
    <2>1. requests[u] \in Seq(Request)
      BY DEF TypeOK
    <2> QED BY <2>1, <1>4, Appended
  <1>6. PICK x \in Rooms \cup {NoRoom} :
          /\ Leads(activeTopicRoomId[u], frames[u], x)
          /\ \/ After(x, reader[u].reply) = topicUserRoom[u]
             \/ /\ After(x, reader[u].reply) = NoRoom
                /\ \E i \in DOMAIN requests[u] :
                     requests[u][i] = [kind |-> "leave", room |-> topicUserRoom[u]]
             \/ astray[u]
    BY DEF WillAgree
  <1>7. CASE activeTopicRoomId'[u] = activeTopicRoomId[u]
    <2>1. \/ After(x, reader[u].reply) = topicUserRoom[u]
          \/ /\ After(x, reader[u].reply) = NoRoom
             /\ \E i \in DOMAIN requests'[u] :
                  requests'[u][i] = [kind |-> "leave", room |-> topicUserRoom[u]]
          \/ astray[u]
      BY <1>5, <1>6
    <2>2. WillAgree(u)'
      BY <2>1, <1>1, <1>6, <1>7 DEF WillAgree, Leads, After, Joins, Leaves
    <2> QED BY <1>3, <2>2
  <1>8. CASE /\ activeTopicRoomId[u] # NoRoom /\ activeTopicRoomId'[u] = NoRoom
             /\ req = [kind |-> "leave", room |-> activeTopicRoomId[u]]
    <2> DEFINE a == activeTopicRoomId[u]
    <2>1. \E y \in Rooms \cup {NoRoom} :
            /\ Leads(NoRoom, frames[u], y)
            /\ y = x \/ (x = a /\ y = NoRoom)
      <3>1. CASE \A i \in DOMAIN frames[u] : ~ Joins(frames[u][i])
        <4>1. Leads(NoRoom, frames[u], NoRoom)
          BY <3>1 DEF Leads
        <4>2. x = a \/ x = NoRoom
          BY <1>6, <3>1 DEF Leads
        <4> QED BY <4>1, <4>2
      <3>2. CASE \E i \in DOMAIN frames[u] : Joins(frames[u][i])
        <4>1. Leads(NoRoom, frames[u], x)
          BY <1>6, <3>2 DEF Leads
        <4> QED BY <4>1, <1>6
      <3> QED BY <3>1, <3>2
    <2>2. PICK y \in Rooms \cup {NoRoom} :
            /\ Leads(NoRoom, frames[u], y)
            /\ y = x \/ (x = a /\ y = NoRoom)
      BY <2>1
    <2>3. \/ After(y, reader[u].reply) = topicUserRoom[u]
          \/ /\ After(y, reader[u].reply) = NoRoom
             /\ \E i \in DOMAIN requests'[u] :
                  requests'[u][i] = [kind |-> "leave", room |-> topicUserRoom[u]]
          \/ astray[u]
      <3>1. CASE y = x
        BY <3>1, <1>5, <1>6
      <3>2. CASE x = a /\ y = NoRoom /\ ~ astray[u]
        <4>1. CASE Joins(reader[u].reply)
          <5>1. After(y, reader[u].reply) = After(x, reader[u].reply)
            BY <4>1 DEF After
          <5> QED BY <5>1, <1>5, <1>6
        <4>2. CASE ~ Joins(reader[u].reply)
          <5>1. After(y, reader[u].reply) = NoRoom
            BY <3>2, <4>2 DEF After
          <5>2. After(x, reader[u].reply) \in {NoRoom, a}
            BY <3>2, <4>2 DEF After
          <5>3. CASE After(x, reader[u].reply) = NoRoom
            BY <5>1, <5>3, <1>5, <1>6
          <5>4. CASE After(x, reader[u].reply) = a /\ a = topicUserRoom[u]
            BY <5>1, <5>4, <1>5, <1>8
          <5> QED BY <5>2, <5>3, <5>4, <1>6, <1>8, <3>2
        <4> QED BY <4>1, <4>2
      <3> QED BY <3>1, <3>2, <2>2
    <2>4. WillAgree(u)'
      BY <2>2, <2>3, <1>1, <1>8 DEF WillAgree, Leads, After, Joins, Leaves
    <2> QED BY <1>3, <2>4
  <1> QED BY <1>4, <1>7, <1>8

LEMMA AgreeServes ==
  ASSUME TypeOK, Readers, NEW u \in Users, Serves(u), \A v \in Users : WillAgree(v)
  PROVE  \A v \in Users : WillAgree(v)'
  <1>1. /\ UNCHANGED <<frames, activeTopicRoomId>> /\ requests[u] # <<>>
        /\ requests' = [requests EXCEPT ![u] = Tail(@)] /\ ~ reader[u].busy
    BY DEF Serves, JoinTopicRoom, LeaveTopicRoom, SendTopicRoomMessage, Handle, page
  <1>2. \A v \in Users \ {u} :
          /\ requests'[v] = requests[v] /\ reader'[v] = reader[v]
          /\ topicUserRoom'[v] = topicUserRoom[v] /\ astray'[v] = astray[v]
    <2>1. \A v \in Users \ {u} : requests'[v] = requests[v] /\ reader'[v] = reader[v]
      BY DEF Serves, JoinTopicRoom, LeaveTopicRoom, SendTopicRoomMessage, Handle, TypeOK
    <2>2. CASE JoinTopicRoom(u)
      <3>1. PICK named \in BOOLEAN : astray' = [astray EXCEPT ![u] = ~named]
        BY <2>2 DEF JoinTopicRoom
      <3>2. \A v \in Users \ {u} : astray'[v] = astray[v]
        BY <3>1, Zenon DEF TypeOK
      <3> QED BY <2>1, <2>2, <3>2 DEF JoinTopicRoom, TypeOK
    <2>3. CASE LeaveTopicRoom(u) \/ SendTopicRoomMessage(u)
      BY <2>1, <2>3 DEF LeaveTopicRoom, SendTopicRoomMessage, history, TypeOK
    <2> QED BY <2>2, <2>3 DEF Serves
  <1>3. \A v \in Users \ {u} : WillAgree(v)'
    BY <1>1, <1>2, AgreeFrame
  <1>4. requests[u] \in Seq(Request) /\ requests'[u] = Tail(requests[u])
    BY <1>1 DEF TypeOK
  <1>5. /\ \A i \in DOMAIN requests[u] :
             i = 1 \/ (i - 1 \in DOMAIN requests'[u] /\ requests'[u][i - 1] = requests[u][i])
        /\ Head(requests[u]) = requests[u][1] /\ Asked(u) = requests[u][1].room
    <2>1. PICK s \in Seq(Request) : s = requests[u]
      BY <1>4
    <2>2. /\ Head(s) = s[1]
          /\ \A i \in DOMAIN s : i = 1 \/ (i - 1 \in DOMAIN Tail(s) /\ Tail(s)[i - 1] = s[i])
      BY <2>1, <1>1, Tailed
    <2> QED BY <2>1, <2>2, <1>4 DEF Asked
  <1>6. reader[u] = Waiting /\ reader[u].reply.kind = "error"
    <2>1. reader[u] = Waiting
      BY <1>1 DEF Readers, InHand
    <2> QED BY <2>1 DEF Waiting, Refused
  <1>7. PICK x \in Rooms \cup {NoRoom} :
          /\ Leads(activeTopicRoomId[u], frames[u], x)
          /\ \/ After(x, reader[u].reply) = topicUserRoom[u]
             \/ /\ After(x, reader[u].reply) = NoRoom
                /\ \E i \in DOMAIN requests[u] :
                     requests[u][i] = [kind |-> "leave", room |-> topicUserRoom[u]]
             \/ astray[u]
    BY DEF WillAgree
  <1>8. After(x, reader[u].reply) = x
    BY <1>6 DEF After, Joins, Leaves
  <1>9. ASSUME \/ After(x, reader'[u].reply) = topicUserRoom'[u]
               \/ /\ After(x, reader'[u].reply) = NoRoom
                  /\ \E i \in DOMAIN requests'[u] :
                       requests'[u][i] = [kind |-> "leave", room |-> topicUserRoom'[u]]
               \/ astray'[u]
        PROVE  WillAgree(u)'
    BY <1>1, <1>7, <1>9 DEF WillAgree, Leads, After, Joins, Leaves
  <1>10. ASSUME NEW kind, NEW reply, NEW recipients, Handle(u, kind, reply, recipients)
         PROVE  reader'[u].reply = reply /\ requests[u][1].kind = kind
    BY <1>10, <1>5 DEF Handle, TypeOK
  <1>11. CASE JoinTopicRoom(u)
    <2>1. PICK named \in BOOLEAN :
            /\ Handle(u, "join", IF named THEN Joined(Asked(u), messages[Asked(u)]) ELSE Refused, {})
            /\ astray' = [astray EXCEPT ![u] = ~named]
      BY <1>11 DEF JoinTopicRoom
    <2>2. topicUserRoom'[u] = Asked(u)
      BY <1>11 DEF JoinTopicRoom, TypeOK
    <2>3. CASE ~ named
      <3>1. astray'[u]
        BY <2>1, <2>3, Zenon DEF TypeOK
      <3> QED BY <3>1, <1>3, <1>9
    <2>4. CASE named
      <3>1. reader'[u].reply = Joined(Asked(u), messages[Asked(u)])
        BY <2>1, <2>4, <1>10
      <3>2. After(x, reader'[u].reply) = Asked(u)
        BY <3>1 DEF After, Joins, Joined
      <3> QED BY <3>2, <2>2, <1>3, <1>9
    <2> QED BY <2>3, <2>4
  <1>12. CASE LeaveTopicRoom(u)
    <2>1. astray' = astray
      BY <1>12 DEF LeaveTopicRoom, history
    <2>2. CASE topicUserRoom[u] \in {NoRoom, Asked(u)}
      <3>1. Handle(u, "leave", Left(topicUserRoom[u]), {}) /\ topicUserRoom' = [topicUserRoom EXCEPT ![u] = NoRoom]
        BY <1>12, <2>2 DEF LeaveTopicRoom
      <3>2. topicUserRoom'[u] = NoRoom
        BY <3>1 DEF TypeOK
      <3>3. reader'[u].reply = Left(topicUserRoom[u])
        BY <3>1, <1>10
      <3>4. CASE x = topicUserRoom[u] \/ x = NoRoom
        <4>1. After(x, reader'[u].reply) = NoRoom
          BY <3>3, <3>4 DEF After, Joins, Leaves, Left
        <4> QED BY <4>1, <3>2, <1>3, <1>9
      <3>5. CASE astray[u]
        BY <3>5, <2>1, <1>3, <1>9
      <3> QED BY <3>4, <3>5, <1>7, <1>8
    <2>3. CASE ~ (topicUserRoom[u] \in {NoRoom, Asked(u)})
      <3>1. Handle(u, "leave", Refused, {}) /\ topicUserRoom' = topicUserRoom
        BY <1>12, <2>3 DEF LeaveTopicRoom
      <3>2. reader'[u].reply = Refused
        BY <3>1, <1>10
      <3>3. After(x, reader'[u].reply) = x
        BY <3>2 DEF After, Joins, Leaves, Refused
      <3>4. ASSUME NEW i \in DOMAIN requests[u], requests[u][i] = [kind |-> "leave", room |-> topicUserRoom[u]]
            PROVE  \E j \in DOMAIN requests'[u] :
                     requests'[u][j] = [kind |-> "leave", room |-> topicUserRoom[u]]
        <4>1. i # 1
          BY <3>4, <2>3, <1>5
        <4> QED BY <4>1, <3>4, <1>5
      <3> QED BY <3>1, <3>3, <3>4, <2>1, <1>3, <1>7, <1>8, <1>9
    <2> QED BY <2>2, <2>3
  <1>13. CASE SendTopicRoomMessage(u)
    <2>1. astray' = astray /\ topicUserRoom' = topicUserRoom
      BY <1>13 DEF SendTopicRoomMessage, history
    <2>2. PICK reply, recipients : Handle(u, "send", reply, recipients) /\ reply.kind \in {"message", "error"}
      BY <1>13 DEF SendTopicRoomMessage, NewMessage, Refused
    <2>3. reader'[u].reply = reply /\ requests[u][1].kind = "send"
      BY <2>2, <1>10
    <2>4. After(x, reader'[u].reply) = x
      BY <2>2, <2>3 DEF After, Joins, Leaves
    <2>5. ASSUME NEW i \in DOMAIN requests[u], requests[u][i] = [kind |-> "leave", room |-> topicUserRoom[u]]
          PROVE  \E j \in DOMAIN requests'[u] :
                   requests'[u][j] = [kind |-> "leave", room |-> topicUserRoom[u]]
      <3>1. i # 1
        BY <2>5, <2>3
      <3> QED BY <3>1, <2>5, <1>5
    <2> QED BY <2>1, <2>4, <2>5, <1>3, <1>7, <1>8, <1>9
  <1> QED BY <1>11, <1>12, <1>13 DEF Serves

LEMMA AgreeDelivers ==
  ASSUME TypeOK, Readers, NEW u \in Users, Push(u) \/ Reply(u), \A v \in Users : WillAgree(v)
  PROVE  \A v \in Users : WillAgree(v)'
  <1>1. PICK v \in Users, f \in Frame :
           /\ f = reader[u].reply
           /\ frames' = [frames EXCEPT ![v] = Append(@, f)]
           /\ \/ /\ Push(u) /\ v # u
                 /\ reader' = [reader EXCEPT ![u].recipients = @ \ {v}]
                 /\ f.kind = "message"
              \/ Reply(u) /\ v = u /\ reader' = [reader EXCEPT ![u] = Waiting]
           /\ UNCHANGED <<topicUserRoom, requests, activeTopicRoomId, astray>>
    BY Delivers
  <1>2. frames'[v] = Append(frames[v], f) /\ frames[v] \in Seq(Frame) /\ \A w \in Users \ {v} : frames'[w] = frames[w]
    BY <1>1 DEF TypeOK
  <1>3. \A w \in Users \ {v} : reader'[w].reply = reader[w].reply
    BY <1>1 DEF TypeOK
  <1>4. \A w \in Users \ {v} : WillAgree(w)'
    BY <1>1, <1>2, <1>3, AgreeFrame
  <1>5. PICK x \in Rooms \cup {NoRoom} :
          /\ Leads(activeTopicRoomId[v], frames[v], x)
          /\ \/ After(x, reader[v].reply) = topicUserRoom[v]
             \/ /\ After(x, reader[v].reply) = NoRoom
                /\ \E i \in DOMAIN requests[v] :
                     requests[v][i] = [kind |-> "leave", room |-> topicUserRoom[v]]
             \/ astray[v]
    BY DEF WillAgree
  <1>6. PICK y : y = After(x, f)
    OBVIOUS
  <1>7. y \in Rooms \cup {NoRoom}
    BY <1>6 DEF After, Frame
  <1>8. Leads(activeTopicRoomId[v], frames'[v], y)
    <2>0. PICK a : a = activeTopicRoomId[v]
      OBVIOUS
    <2>1. PICK fs \in Seq(Frame) : fs = frames[v]
      BY <1>2
    <2>2. Leads(a, Append(fs, f), After(x, f))
      BY <2>0, <2>1, <1>5, LeadsOn
    <2> QED BY <2>0, <2>1, <2>2, <1>1, <1>2, <1>6
  <1>9. After(y, reader'[v].reply) = After(x, reader[v].reply)
    <2>1. CASE v = u /\ reader' = [reader EXCEPT ![u] = Waiting]
      <3>1. reader'[v].reply.kind = "error"
        BY <2>1 DEF TypeOK, Waiting, Refused
      <3>2. After(y, reader'[v].reply) = y
        BY <3>1 DEF After, Joins, Leaves
      <3> QED BY <3>2, <1>1, <1>6, <2>1
    <2>2. CASE v # u /\ f.kind = "message" /\ reader' = [reader EXCEPT ![u].recipients = @ \ {v}]
      <3>1. reader'[v] = reader[v]
        BY <2>2 DEF TypeOK
      <3>2. y = x
        BY <2>2, <1>6 DEF After, Joins, Leaves
      <3> QED BY <3>1, <3>2
    <2> QED BY <1>1, <2>1, <2>2
  <1>10. WillAgree(v)'
    <2>1. \/ After(y, reader'[v].reply) = topicUserRoom'[v]
          \/ /\ After(y, reader'[v].reply) = NoRoom
             /\ \E i \in DOMAIN requests'[v] :
                  requests'[v][i] = [kind |-> "leave", room |-> topicUserRoom'[v]]
          \/ astray'[v]
      BY <1>1, <1>5, <1>9
    <2>2. activeTopicRoomId'[v] = activeTopicRoomId[v]
      BY <1>1
    <2> QED BY <1>7, <1>8, <2>1, <2>2 DEF WillAgree, Leads, After, Joins, Leaves
  <1> QED BY <1>4, <1>10

LEMMA AgreeReceives ==
  ASSUME TypeOK, Readers, Traffic, NEW u \in Users, Receives(u), \A v \in Users : WillAgree(v)
  PROVE  \A v \in Users : WillAgree(v)'
  <1>1. /\ UNCHANGED <<topicUserRoom, requests, reader, astray>>
        /\ 1 \in DOMAIN frames[u] /\ frames[u][1] \in Frame
        /\ \A v \in Users \ {u} : frames'[v] = frames[v] /\ activeTopicRoomId'[v] = activeTopicRoomId[v]
    BY Received
  <1>2. \A v \in Users \ {u} : WillAgree(v)'
    BY <1>1, AgreeFrame
  <1>3. frames[u] \in Seq(Frame) /\ frames'[u] = Tail(frames[u]) /\ frames[u] # <<>>
    BY DEF Receives, ReceiveJoined, ReceiveLeft, ReceiveMessage, ReceiveError, Receive, TypeOK
  <1>4. activeTopicRoomId'[u] = After(activeTopicRoomId[u], frames[u][1])
    <2>1. PICK f : f = frames[u][1]
      OBVIOUS
    <2>2. CASE ReceiveJoined(u)
      <3>1. Joins(f) /\ activeTopicRoomId'[u] = f.room
        BY <2>1, <2>2, JoinReceived
      <3> QED BY <2>1, <3>1 DEF After
    <2>3. CASE ReceiveMessage(u)
      <3>1. PICK m : m = f.list[1]
        OBVIOUS
      <3>2. f.kind = "message" /\ activeTopicRoomId' = activeTopicRoomId
        BY <2>1, <2>3, <3>1, MessageReceived
      <3> QED BY <2>1, <3>2 DEF After, Joins, Leaves
    <2>4. CASE ReceiveLeft(u) \/ ReceiveError(u)
      <3>1. ~ Joins(f) /\ activeTopicRoomId'[u] = IF Leaves(f, activeTopicRoomId[u]) THEN NoRoom ELSE activeTopicRoomId[u]
        BY <2>1, <2>4, OthersReceived
      <3> QED BY <2>1, <3>1 DEF After
    <2> QED BY <2>2, <2>3, <2>4 DEF Receives
  <1>5. PICK x \in Rooms \cup {NoRoom} :
          /\ Leads(activeTopicRoomId[u], frames[u], x)
          /\ \/ After(x, reader[u].reply) = topicUserRoom[u]
             \/ /\ After(x, reader[u].reply) = NoRoom
                /\ \E i \in DOMAIN requests[u] :
                     requests[u][i] = [kind |-> "leave", room |-> topicUserRoom[u]]
             \/ astray[u]
    BY DEF WillAgree
  <1>6. Leads(activeTopicRoomId'[u], frames'[u], x)
    <2>0. PICK a : a = activeTopicRoomId[u]
      OBVIOUS
    <2>1. PICK fs \in Seq(Frame) : fs = frames[u]
      BY <1>3
    <2>2. Leads(After(a, fs[1]), Tail(fs), x)
      BY <2>0, <2>1, <1>3, <1>5, LeadsOff
    <2> QED BY <2>0, <2>1, <2>2, <1>3, <1>4
  <1>7. WillAgree(u)'
    BY <1>1, <1>5, <1>6 DEF WillAgree, Leads, After, Joins, Leaves
  <1> QED BY <1>2, <1>7

LEMMA AgreeStep ==
  ASSUME TypeOK, Readers, Traffic, \A u \in Users : WillAgree(u), Next
  PROVE  \A u \in Users : WillAgree(u)'
  BY Cases, AgreeClicks, AgreeServes, AgreeDelivers, AgreeReceives

-----------------------------------------------------------------------------
(* What a page hears of its room. *)

LEMMA EndHolds ==
  ASSUME NEW list \in Seq(Message), NEW whole \in Seq(Message), EndOf(list, whole),
         NEW i \in DOMAIN whole, i + HistoryLimit > Len(whole)
  PROVE  whole[i] \in Elements(list)
  <1> DEFINE a == Len(list)  b == Len(whole)  k == i - (b - a)
  <1>1. /\ a \in Nat /\ b \in Nat /\ i \in 1 .. b /\ DOMAIN list = 1 .. a
        /\ a <= b /\ (a = HistoryLimit \/ a = b) /\ HistoryLimit \in Nat /\ i + HistoryLimit > b
    BY TopicRoomsAssumption DEF TopicRoomsAssumption, EndOf
  <1>2. \A j \in DOMAIN list : list[j] = whole[j + (b - a)]
    BY DEF EndOf
  <1> HIDE DEF a, b
  <1>3. k \in DOMAIN list /\ k + (b - a) = i
    BY <1>1
  <1> QED BY <1>2, <1>3 DEF Elements

LEMMA HeardInit == ASSUME Init PROVE \A u \in Users : Heard(u)
  BY DEF Init, Heard

\* What is on its way when a reader takes a request stays on its way.
LEMMA ReachServes ==
  ASSUME TypeOK, Readers, NEW u \in Users, Serves(u), NEW v \in Users, NEW m \in Message, Reaches(v, m)
  PROVE  Reaches(v, m)'
  <1>1. UNCHANGED <<frames, topicMessages>> /\ ~ reader[u].busy /\ \A w \in Users \ {u} : reader'[w] = reader[w]
    BY DEF Serves, JoinTopicRoom, LeaveTopicRoom, SendTopicRoomMessage, Handle, page, TypeOK
  <1>2. reader[u] = Waiting
    BY <1>1 DEF Readers, InHand
  <1>3. reader[u].recipients = {} /\ reader[u].reply.list = <<>>
    BY <1>2 DEF Waiting, Refused
  <1>4. CASE \E s \in Users : v \in reader[s].recipients /\ reader[s].reply.list[1] = m
    <2>1. PICK s \in Users : v \in reader[s].recipients /\ reader[s].reply.list[1] = m
      BY <1>4
    <2>2. s # u
      BY <2>1, <1>3
    <2> QED BY <2>1, <2>2, <1>1 DEF Reaches
  <1>5. CASE m \in Elements(reader[v].reply.list)
    <2>1. v # u
      BY <1>3, <1>5 DEF Elements
    <2> QED BY <2>1, <1>1, <1>5 DEF Reaches, Elements
  <1>6. CASE \E i \in DOMAIN frames[v] :
               /\ m \in Elements(frames[v][i].list)
               /\ \A j \in DOMAIN frames[v] : j > i => ~ (Joins(frames[v][j]) /\ frames[v][j].room = m.room)
    BY <1>1, <1>6 DEF Reaches, Elements, Joins
  <1>7. CASE /\ \A i \in DOMAIN frames[v] : ~ (Joins(frames[v][i]) /\ frames[v][i].room = m.room)
             /\ m \in Elements(topicMessages[v][m.room])
    BY <1>1, <1>7 DEF Reaches, Elements, Joins
  <1> QED BY <1>4, <1>5, <1>6, <1>7 DEF Reaches

\* The user and the room are as they were, and so is what the reader has in
\* hand, or it has had nothing and has no answer of a join.
LEMMA HeardFrame ==
  ASSUME TypeOK, Readers, NEW u \in Users, Serves(u), NEW v \in Users, Heard(v),
         topicUserRoom'[v] = topicUserRoom[v], joining'[v] = joining[v], astray'[v] = astray[v],
         UNCHANGED posted,
         v # u \/ ~ Joins(reader'[v].reply)
  PROVE  Heard(v)'
  <1>1. ~ reader[u].busy /\ \A w \in Users \ {u} : reader'[w] = reader[w]
    BY DEF Serves, JoinTopicRoom, LeaveTopicRoom, SendTopicRoomMessage, Handle, TypeOK
  <1>2. ~ Joins(reader[u].reply)
    BY <1>1 DEF Readers, InHand, Waiting, Refused, Joins
  <1>3. Joins(reader'[v].reply) <=> Joins(reader[v].reply)
    BY <1>1, <1>2
  <1>4. Joins(reader'[v].reply) => reader'[v] = reader[v]
    BY <1>1, <1>2, <1>3
  <1>5. CASE topicUserRoom[v] = NoRoom
    BY <1>5 DEF Heard
  <1>6. CASE topicUserRoom[v] # NoRoom
    <2>1. PICK r \in Rooms : r = topicUserRoom[v]
      BY <1>6 DEF TypeOK
    <2>2. joining'[v].from <= Len(posted'[r])
      BY <1>6, <2>1 DEF Heard
    <2>3. ASSUME ~ astray'[v], NEW i \in DOMAIN posted'[r]
          PROVE  IF Joins(reader'[v].reply)
                 THEN InHistory(v, i)' => posted'[r][i] \in Elements(reader'[v].reply.list)
                 ELSE InHistory(v, i)' \/ i > joining'[v].until => Reaches(v, posted[r][i])'
      <3>1. PICK m \in Message : m = posted[r][i]
        BY <2>3 DEF TypeOK
      <3>2. InHistory(v, i)' <=> InHistory(v, i)
        BY DEF InHistory
      <3>3. IF Joins(reader[v].reply)
            THEN InHistory(v, i) => m \in Elements(reader[v].reply.list)
            ELSE InHistory(v, i) \/ i > joining[v].until => Reaches(v, m)
        BY <1>6, <2>1, <2>3, <3>1 DEF Heard
      <3>4. Reaches(v, m) => Reaches(v, m)'
        BY ReachServes
      <3>5. Reaches(v, m)' => Reaches(v, posted[r][i])'
        BY <3>1 DEF Reaches
      <3> QED BY <3>1, <3>2, <3>3, <3>4, <3>5, <1>3, <1>4 DEF Elements
    <2>4. topicUserRoom'[v] = r
      BY <2>1
    <2> QED BY <2>2, <2>3, <2>4 DEF Heard, Joins, InHistory, Reaches, Elements
  <1> QED BY <1>5, <1>6

LEMMA HeardServes ==
  ASSUME TypeOK, Budget, Log, Readers, NEW u \in Users, Serves(u), \A v \in Users : Heard(v)
  PROVE  \A v \in Users : Heard(v)'
  <1>1. /\ \A w \in Users \ {u} : reader'[w] = reader[w]
        /\ requests[u] # <<>> /\ ~ reader[u].busy
    BY DEF Serves, JoinTopicRoom, LeaveTopicRoom, SendTopicRoomMessage, Handle, TypeOK
  <1>2. CASE JoinTopicRoom(u)
    <2>1. PICK named \in BOOLEAN :
            /\ Handle(u, "join", IF named THEN Joined(Asked(u), messages[Asked(u)]) ELSE Refused, {})
            /\ astray' = [astray EXCEPT ![u] = ~named]
      BY <1>2 DEF JoinTopicRoom
    <2>2. /\ topicUserRoom' = [topicUserRoom EXCEPT ![u] = Asked(u)]
          /\ joining' = [joining EXCEPT ![u].from = Len(posted[Asked(u)])]
          /\ UNCHANGED posted
      BY <1>2 DEF JoinTopicRoom
    <2>3. \A v \in Users \ {u} : astray'[v] = astray[v]
      BY <2>1, Zenon DEF TypeOK
    <2>4. ASSUME NEW v \in Users \ {u}
          PROVE  Heard(v)'
      BY <2>2, <2>3, HeardFrame DEF TypeOK
    <2>5. Heard(u)'
      <3>1. PICK r \in Rooms : r = Asked(u)
        BY <1>1, AskedRoom
      <3>2. topicUserRoom'[u] = r /\ joining'[u].from = Len(posted[r]) /\ posted' = posted /\ Len(posted[r]) \in Nat
        BY <2>2, <3>1 DEF TypeOK
      <3>3. CASE ~ named
        <4>1. astray'[u]
          BY <2>1, <3>3, Zenon DEF TypeOK
        <4> QED BY <3>2, <4>1 DEF Heard
      <3>4. CASE named
        <4>1. reader'[u].reply = Joined(r, messages[r])
          BY <2>1, <3>1, <3>4 DEF Handle, TypeOK
        <4>2. Joins(reader'[u].reply) /\ reader'[u].reply.list = messages[r]
          BY <4>1 DEF Joins, Joined
        <4>3. ASSUME NEW i \in DOMAIN posted[r], i + HistoryLimit > Len(posted[r])
              PROVE  posted[r][i] \in Elements(messages[r])
          <5>1. PICK whole \in Seq(Message), list \in Seq(Message) : whole = posted[r] /\ list = messages[r]
            BY DEF TypeOK
          <5>2. EndOf(list, whole)
            BY <5>1 DEF Log
          <5> QED BY <5>1, <5>2, <4>3, EndHolds
        <4> QED BY <3>2, <4>2, <4>3 DEF Heard, InHistory, Joins, Elements
      <3> QED BY <3>3, <3>4
    <2> QED BY <2>4, <2>5
  <1>3. CASE LeaveTopicRoom(u)
    <2>1. UNCHANGED <<posted, joining, astray>>
      BY <1>3 DEF LeaveTopicRoom, history
    <2>2. ASSUME NEW v \in Users \ {u}
          PROVE  Heard(v)'
      <3>1. topicUserRoom'[v] = topicUserRoom[v]
        BY <1>3 DEF LeaveTopicRoom, TypeOK
      <3> QED BY <2>1, <3>1, HeardFrame
    <2>3. Heard(u)'
      <3>1. CASE topicUserRoom[u] \in {NoRoom, Asked(u)}
        <4>1. topicUserRoom'[u] = NoRoom
          BY <1>3, <3>1 DEF LeaveTopicRoom, TypeOK
        <4> QED BY <4>1 DEF Heard
      <3>2. CASE ~ (topicUserRoom[u] \in {NoRoom, Asked(u)})
        <4>1. Handle(u, "leave", Refused, {}) /\ topicUserRoom' = topicUserRoom
          BY <1>3, <3>2 DEF LeaveTopicRoom
        <4>2. ~ Joins(reader'[u].reply)
          BY <4>1 DEF Handle, TypeOK, Refused, Joins
        <4> QED BY <2>1, <4>1, <4>2, HeardFrame
      <3> QED BY <3>1, <3>2
    <2> QED BY <2>2, <2>3
  <1>4. CASE SendTopicRoomMessage(u) /\ ~ Sends(u)
    <2>1. Handle(u, "send", Refused, {}) /\ UNCHANGED <<topicUserRoom, posted, joining, astray>>
      BY <1>4 DEF SendTopicRoomMessage, Sends, history
    <2>2. ~ Joins(reader'[u].reply)
      BY <2>1 DEF Handle, TypeOK, Refused, Joins
    <2> QED BY <2>1, <2>2, HeardFrame
  <1>5. CASE Sends(u)
    <2>1. /\ Asked(u) \in Rooms /\ New(u) \in Message
          /\ Handle(u, "send", NewMessage(New(u)), Members(Asked(u)) \ {u})
          /\ UNCHANGED <<topicUserRoom, joining, astray>>
      BY <1>5, Sent DEF history
    <2>2. PICK room \in Rooms, m \in Message : room = Asked(u) /\ m = New(u)
      BY <2>1
    <2>3. /\ posted[room] \in Seq(Message) /\ Len(posted[room]) \in Nat
          /\ \A r \in Rooms : r # room => posted'[r] = posted[r]
          /\ posted'[room] = Append(posted[room], m)
      BY <1>5, <2>2, PostedGrows
    <2>4. /\ reader'[u].reply = NewMessage(m) /\ reader'[u].recipients = Members(room) \ {u}
          /\ topicUserRoom[u] = room
      BY <1>5, <2>1, <2>2 DEF Handle, TypeOK, Sends
    <2>5. reader'[u].reply.list = <<m>> /\ ~ Joins(reader'[u].reply)
      BY <2>4 DEF NewMessage, Joins
    <2>6. ~ Joins(reader[u].reply)
      BY <1>1 DEF Readers, InHand, Waiting, Refused, Joins
    <2>7. ASSUME NEW v \in Users
          PROVE  Heard(v)'
      <3>1. CASE topicUserRoom[v] = NoRoom
        BY <3>1, <2>1 DEF Heard
      <3>2. CASE topicUserRoom[v] # NoRoom
        <4>1. PICK r \in Rooms : r = topicUserRoom[v]
          BY <3>2 DEF TypeOK
        <4>2. /\ Len(posted[r]) \in Nat /\ Len(posted'[r]) \in Nat /\ Len(posted[r]) <= Len(posted'[r])
              /\ \A i \in DOMAIN posted'[r] :
                   \/ i \in DOMAIN posted[r] /\ posted'[r][i] = posted[r][i]
                   \/ r = room /\ i = Len(posted[r]) + 1 /\ posted'[r][i] = m
          <5>1. CASE r # room
            <6>1. posted'[r] = posted[r] /\ Len(posted[r]) \in Nat
              BY <5>1, <2>3 DEF TypeOK
            <6> QED BY <6>1
          <5>2. CASE r = room
            <6>1. PICK old \in Seq(Message) : old = posted[r]
              BY <5>2, <2>3
            <6>2. /\ Len(Append(old, m)) = Len(old) + 1 /\ Len(old) \in Nat
                  /\ \A i \in DOMAIN Append(old, m) :
                       (i \in DOMAIN old /\ Append(old, m)[i] = old[i]) \/ i = Len(old) + 1
                  /\ Append(old, m)[Len(old) + 1] = m
              BY Appended
            <6>3. posted'[r] = Append(old, m)
              BY <5>2, <6>1, <2>3
            <6> QED BY <5>2, <6>1, <6>2, <6>3
          <5> QED BY <5>1, <5>2
        <4>3. joining[v].from <= Len(posted[r]) /\ joining[v].from \in Nat /\ joining'[v] = joining[v]
          BY <3>2, <4>1, <2>1 DEF Heard, TypeOK
        <4>4. joining'[v].from <= Len(posted'[r])
          BY <4>2, <4>3
        <4>5. ASSUME ~ astray'[v], NEW i \in DOMAIN posted'[r]
              PROVE  IF Joins(reader'[v].reply)
                     THEN InHistory(v, i)' => posted'[r][i] \in Elements(reader'[v].reply.list)
                     ELSE InHistory(v, i)' \/ i > joining'[v].until => Reaches(v, posted[r][i])'
          <5>1. InHistory(v, i)' <=> InHistory(v, i)
            BY <2>1 DEF InHistory
          <5>2. CASE i \in DOMAIN posted[r] /\ posted'[r][i] = posted[r][i]
            <6>1. PICK n \in Message : n = posted[r][i]
              BY <5>2 DEF TypeOK
            <6>2. IF Joins(reader[v].reply)
                  THEN InHistory(v, i) => n \in Elements(reader[v].reply.list)
                  ELSE InHistory(v, i) \/ i > joining[v].until => Reaches(v, n)
              BY <3>2, <4>1, <4>5, <5>2, <6>1, <2>1 DEF Heard
            <6>3. Reaches(v, n) => Reaches(v, n)'
              BY ReachServes
            <6>4. Reaches(v, n)' => Reaches(v, posted[r][i])'
              BY <5>2, <6>1 DEF Reaches
            <6>5. CASE v # u
              <7>1. reader'[v] = reader[v]
                BY <6>5, <1>1
              <7> QED BY <7>1, <2>1, <5>1, <5>2, <6>1, <6>2, <6>3, <6>4 DEF Elements
            <6>6. CASE v = u
              BY <6>6, <2>1, <2>5, <2>6, <5>1, <6>2, <6>3, <6>4
            <6> QED BY <6>5, <6>6
          <5>3. CASE r = room /\ i = Len(posted[r]) + 1 /\ posted'[r][i] = m
            <6>1. ~ InHistory(v, i)'
              BY <4>2, <4>3, <5>1, <5>3 DEF InHistory
            <6>2. Reaches(v, m)'
              <7>1. CASE v = u
                BY <7>1, <2>5 DEF Reaches, Elements
              <7>2. CASE v # u
                <8>1. v \in reader'[u].recipients /\ reader'[u].reply.list[1] = m
                  <9>1. v \in Members(room) \ {u}
                    BY <7>2, <4>1, <5>3 DEF Members
                  <9> QED BY <9>1, <2>4, <2>5
                <8> QED BY <8>1 DEF Reaches
              <7> QED BY <7>1, <7>2
            <6>3. Reaches(v, posted[r][i])'
              BY <5>3, <6>2 DEF Reaches, Elements, Joins
            <6> QED BY <6>1, <6>3
          <5> QED BY <4>2, <4>5, <5>2, <5>3
        <4>6. topicUserRoom'[v] = r
          BY <4>1, <2>1
        <4> QED BY <4>4, <4>5, <4>6 DEF Heard, Joins, InHistory, Reaches, Elements
      <3> QED BY <3>1, <3>2
    <2> QED BY <2>7
  <1> QED BY <1>2, <1>3, <1>4, <1>5 DEF Serves

\* A frame that is sent is one more on its way, and takes no other's place
\* unless it is the answer of a join.
LEMMA ReachDelivers ==
  ASSUME TypeOK, Readers, NEW u \in Users, Push(u) \/ Reply(u),
         NEW v \in Users, NEW m \in Message, Reaches(v, m),
         v # u \/ ~ Joins(reader[u].reply)
  PROVE  Reaches(v, m)'
  <1>1. PICK w \in Users, f \in Frame :
           /\ f = reader[u].reply /\ Proper(f)
           /\ frames' = [frames EXCEPT ![w] = Append(@, f)]
           /\ \/ /\ Push(u) /\ w \in reader[u].recipients /\ w # u
                 /\ reader' = [reader EXCEPT ![u].recipients = @ \ {w}]
                 /\ f.kind = "message"
              \/ Reply(u) /\ w = u /\ reader[u].recipients = {} /\ reader' = [reader EXCEPT ![u] = Waiting]
           /\ UNCHANGED topicMessages
    BY Delivers
  <1>2. /\ \A x \in Users \ {w} : frames'[x] = frames[x]
        /\ \A i \in DOMAIN frames[w] : i \in DOMAIN frames'[w] /\ frames'[w][i] = frames[w][i]
        /\ \A i \in DOMAIN frames'[w] :
             (i \in DOMAIN frames[w] /\ frames'[w][i] = frames[w][i]) \/ i = Len(frames[w]) + 1
        /\ \A i \in DOMAIN frames[w] : i \in Nat /\ i < Len(frames[w]) + 1
        /\ Len(frames[w]) + 1 \in DOMAIN frames'[w] /\ frames'[w][Len(frames[w]) + 1] = f
        /\ Len(frames[w]) \in Nat
    BY <1>1, Arrives
  <1>3. ~ Joins(f) \/ w # v
    BY <1>1 DEF Joins
  <1>4. ASSUME v = w, m \in Elements(f.list)
        PROVE  Reaches(v, m)'
    <2> DEFINE n == Len(frames[w]) + 1
    <2>1. n \in DOMAIN frames'[v] /\ m \in Elements(frames'[v][n].list)
      BY <1>2, <1>4
    <2>2. \A j \in DOMAIN frames'[v] : ~ (j > n)
      BY <1>2, <1>4
    <2> HIDE DEF n
    <2> QED BY <2>1, <2>2 DEF Reaches, Elements, Joins
  <1>5. CASE \E s \in Users : v \in reader[s].recipients /\ reader[s].reply.list[1] = m
    <2>1. PICK s \in Users : v \in reader[s].recipients /\ reader[s].reply.list[1] = m
      BY <1>5
    <2>2. CASE s # u
      <3>1. reader'[s] = reader[s]
        BY <1>1, <2>2 DEF TypeOK
      <3> QED BY <2>1, <3>1 DEF Reaches
    <2>3. CASE s = u /\ v # w
      <3>1. reader' = [reader EXCEPT ![u].recipients = @ \ {w}]
        BY <1>1, <2>1, <2>3
      <3>2. reader'[u].recipients = reader[u].recipients \ {w} /\ reader'[u].reply = reader[u].reply
        BY <3>1 DEF TypeOK
      <3> QED BY <2>1, <2>3, <3>2 DEF Reaches
    <2>4. CASE s = u /\ v = w
      <3>1. f.kind = "message" /\ f.list[1] = m
        BY <1>1, <2>1, <2>4
      <3>2. m \in Elements(f.list)
        BY <3>1, <1>1, Carried
      <3> QED BY <3>2, <2>4, <1>4
    <2> QED BY <2>2, <2>3, <2>4
  <1>6. CASE m \in Elements(reader[v].reply.list)
    <2>1. CASE reader'[v].reply = reader[v].reply
      BY <2>1, <1>6 DEF Reaches, Elements
    <2>2. CASE reader'[v].reply # reader[v].reply
      <3>1. v = u /\ w = u
        BY <1>1, <2>2 DEF TypeOK
      <3> QED BY <3>1, <1>1, <1>4, <1>6
    <2> QED BY <2>1, <2>2
  <1>7. CASE \E i \in DOMAIN frames[v] :
               /\ m \in Elements(frames[v][i].list)
               /\ \A j \in DOMAIN frames[v] : j > i => ~ (Joins(frames[v][j]) /\ frames[v][j].room = m.room)
    <2>1. PICK i \in DOMAIN frames[v] :
            /\ m \in Elements(frames[v][i].list)
            /\ \A j \in DOMAIN frames[v] : j > i => ~ (Joins(frames[v][j]) /\ frames[v][j].room = m.room)
      BY <1>7
    <2>2. i \in DOMAIN frames'[v] /\ frames'[v][i] = frames[v][i]
      BY <1>2, <2>1
    <2>3. \A j \in DOMAIN frames'[v] : j > i => ~ (Joins(frames'[v][j]) /\ frames'[v][j].room = m.room)
      BY <1>2, <1>3, <2>1
    <2> QED BY <2>1, <2>2, <2>3 DEF Reaches, Elements, Joins
  <1>8. CASE /\ \A i \in DOMAIN frames[v] : ~ (Joins(frames[v][i]) /\ frames[v][i].room = m.room)
             /\ m \in Elements(topicMessages[v][m.room])
    <2>1. \A i \in DOMAIN frames'[v] : ~ (Joins(frames'[v][i]) /\ frames'[v][i].room = m.room)
      BY <1>2, <1>3, <1>8
    <2>2. m \in Elements(topicMessages'[v][m.room])
      BY <1>1, <1>8
    <2> QED BY <2>1, <2>2 DEF Reaches, Elements, Joins
  <1> QED BY <1>5, <1>6, <1>7, <1>8 DEF Reaches

LEMMA HeardDelivers ==
  ASSUME TypeOK, Readers, NEW u \in Users, Push(u) \/ Reply(u), \A v \in Users : Heard(v)
  PROVE  \A v \in Users : Heard(v)'
  <1>1. PICK w \in Users, f \in Frame :
           /\ f = reader[u].reply /\ Proper(f)
           /\ frames' = [frames EXCEPT ![w] = Append(@, f)]
           /\ \/ /\ Push(u) /\ w \in reader[u].recipients /\ w # u
                 /\ reader' = [reader EXCEPT ![u].recipients = @ \ {w}]
                 /\ f.kind = "message"
              \/ Reply(u) /\ w = u /\ reader[u].recipients = {} /\ reader' = [reader EXCEPT ![u] = Waiting]
           /\ UNCHANGED <<topicUserRoom, posted, astray>>
    BY Delivers
  <1>2. ASSUME NEW v \in Users, topicUserRoom[v] # NoRoom, v # u \/ ~ Joins(f)
        PROVE  Heard(v)'
    <2>0. posted' = posted
      BY <1>1
    <2>1. joining'[v] = joining[v]
      <3>1. CASE Push(u)
        BY <3>1 DEF Push, history
      <3>2. CASE Reply(u) /\ w = u
        <4>1. joining' = IF Joins(f)
                         THEN [joining EXCEPT ![u].until = Len(posted[f.room])]
                         ELSE joining
          BY <1>1, <3>2 DEF Reply, Joins
        <4>2. joining \in [Users -> [from : Nat, until : Nat]]
          BY DEF TypeOK
        <4> QED BY <1>2, <4>1, <4>2
      <3> QED BY <1>1, <3>1, <3>2
    <2>2. Joins(reader'[v].reply) <=> Joins(reader[v].reply)
      <3>1. CASE reader' = [reader EXCEPT ![u].recipients = @ \ {w}]
        BY <3>1 DEF TypeOK
      <3>2. CASE reader' = [reader EXCEPT ![u] = Waiting]
        <4>1. CASE v # u
          BY <3>2, <4>1 DEF TypeOK
        <4>2. CASE v = u
          BY <3>2, <4>2, <1>1, <1>2 DEF TypeOK, Joins, Waiting, Refused
        <4> QED BY <4>1, <4>2
      <3> QED BY <1>1, <3>1, <3>2
    <2>3. Joins(reader'[v].reply) => reader'[v].reply = reader[v].reply
      BY <1>1, <1>2, <2>2 DEF TypeOK
    <2>4. PICK r \in Rooms : r = topicUserRoom[v]
      BY <1>2 DEF TypeOK
    <2>5. joining'[v].from <= Len(posted'[r])
      BY <1>1, <1>2, <2>1, <2>4 DEF Heard
    <2>6. ASSUME ~ astray'[v], NEW i \in DOMAIN posted'[r]
          PROVE  IF Joins(reader'[v].reply)
                 THEN InHistory(v, i)' => posted'[r][i] \in Elements(reader'[v].reply.list)
                 ELSE InHistory(v, i)' \/ i > joining'[v].until => Reaches(v, posted[r][i])'
      <3>1. PICK m \in Message : m = posted[r][i]
        BY <1>1, <2>6 DEF TypeOK
      <3>2. InHistory(v, i)' <=> InHistory(v, i)
        BY <2>1 DEF InHistory
      <3>3. IF Joins(reader[v].reply)
            THEN InHistory(v, i) => m \in Elements(reader[v].reply.list)
            ELSE InHistory(v, i) \/ i > joining[v].until => Reaches(v, m)
        BY <1>1, <1>2, <2>4, <2>6, <3>1 DEF Heard
      <3>4. Reaches(v, m) => Reaches(v, m)'
        BY <1>1, <1>2, ReachDelivers
      <3>5. Reaches(v, m)' => Reaches(v, posted[r][i])'
        BY <2>0, <3>1 DEF Reaches
      <3> QED BY <1>1, <3>1, <3>2, <3>3, <3>4, <3>5, <2>1, <2>2, <2>3 DEF Elements
    <2>7. topicUserRoom'[v] = r
      BY <1>1, <2>4
    <2> QED BY <2>5, <2>6, <2>7 DEF Heard, Joins, InHistory, Reaches, Elements
  <1>3. CASE Joins(f)
    <2>1. /\ Reply(u) /\ w = u /\ reader' = [reader EXCEPT ![u] = Waiting]
          /\ f.kind = "joined" /\ reader[u].reply.kind = "joined"
      BY <1>1, <1>3 DEF Joins
    <2>2. PICK r \in Rooms : r = f.room
      BY <1>1, <2>1 DEF Proper
    <2>3. topicUserRoom[u] = r
      BY <1>1, <2>1, <2>2 DEF Readers, InHand
    <2>4. joining' = [joining EXCEPT ![u].until = Len(posted[r])]
      BY <1>1, <2>1, <2>2 DEF Reply
    <2>5. joining'[u].until = Len(posted[r]) /\ joining'[u].from = joining[u].from /\ Len(posted[r]) \in Nat
      BY <2>4 DEF TypeOK
    <2>6. joining[u].from <= Len(posted[r])
      BY <2>3 , TopicRoomsAssumption DEF Heard, TopicRoomsAssumption
    <2>7. ~ Joins(reader'[u].reply)
      BY <2>1 DEF TypeOK, Joins, Waiting, Refused
    <2>8. ASSUME ~ astray'[u], NEW i \in DOMAIN posted'[r], InHistory(u, i)' \/ i > joining'[u].until
          PROVE  Reaches(u, posted[r][i])'
      <3>1. PICK m \in Message : m = posted[r][i]
        BY <1>1, <2>8 DEF TypeOK
      <3>2. i <= Len(posted[r]) /\ i \in Nat
        BY <1>1, <2>8 DEF TypeOK
      <3>3. InHistory(u, i)
        BY <2>5, <2>8, <3>2 DEF InHistory
      <3>4. m \in Elements(f.list)
        BY <1>1, <1>3, <2>3, <2>8, <3>1, <3>3, TopicRoomsAssumption DEF Heard, TopicRoomsAssumption
      <3>5. Reaches(u, m)'
        <4> DEFINE n == Len(frames[u]) + 1
        <4>1. /\ n \in DOMAIN frames'[u] /\ frames'[u][n] = f
              /\ \A j \in DOMAIN frames'[u] : j \in DOMAIN frames[u] \/ j = n
              /\ \A j \in DOMAIN frames[u] : j \in Nat /\ j < n
              /\ n \in Nat
          <5>1. /\ \A k \in DOMAIN frames'[w] : k \in DOMAIN frames[w] \/ k = Len(frames[w]) + 1
                /\ \A k \in DOMAIN frames[w] : k \in Nat /\ k < Len(frames[w]) + 1
                /\ Len(frames[w]) + 1 \in DOMAIN frames'[w] /\ frames'[w][Len(frames[w]) + 1] = f
                /\ Len(frames[w]) \in Nat
            BY <1>1, Arrives
          <5>2. w = u
            BY <2>1
          <5> QED BY <5>1, <5>2
        <4>2. \A j \in DOMAIN frames'[u] : ~ (j > n)
          BY <4>1
        <4>3. m \in Elements(frames'[u][n].list)
          BY <3>4, <4>1
        <4> HIDE DEF n
        <4> QED BY <4>1, <4>2, <4>3 DEF Reaches, Elements, Joins
      <3>6. posted' = posted
        BY <1>1
      <3> QED BY <3>1, <3>5, <3>6 DEF Reaches, Elements, Joins
    <2>9. Heard(u)'
      <3>1. topicUserRoom'[u] = r /\ posted' = posted
        BY <1>1, <2>3
      <3>2. joining'[u].from <= Len(posted'[r])
        BY <3>1, <2>5, <2>6
      <3> QED BY <3>1, <3>2, <2>7, <2>8 DEF Heard, Joins, InHistory, Reaches, Elements
    <2>10. ASSUME NEW v \in Users \ {u}
           PROVE  Heard(v)'
      BY <1>1, <1>2 DEF Heard
    <2> QED BY <2>9, <2>10
  <1>4. CASE ~ Joins(f)
    <2> SUFFICES ASSUME NEW v \in Users PROVE Heard(v)'
      OBVIOUS
    <2>1. CASE topicUserRoom[v] = NoRoom
      BY <2>1, <1>1 DEF Heard
    <2> QED BY <2>1, <1>2, <1>4
  <1> QED BY <1>3, <1>4

LEMMA ReachReceives ==
  ASSUME TypeOK, Traffic, NEW u \in Users, Receives(u), NEW m \in Message, Reaches(u, m)
  PROVE  Reaches(u, m)'
  <1>1. /\ UNCHANGED reader
        /\ 1 \in DOMAIN frames[u] /\ frames[u][1] \in Frame
        /\ \A i \in DOMAIN frames[u] : i \in Nat /\ i > 0
        /\ \A i \in DOMAIN frames'[u] : i + 1 \in DOMAIN frames[u] /\ frames'[u][i] = frames[u][i + 1]
             /\ i \in Nat /\ i > 0
        /\ \A i \in DOMAIN frames[u] : i = 1 \/ (i - 1 \in DOMAIN frames'[u] /\ frames'[u][i - 1] = frames[u][i])
    BY Received
  <1>2. CASE \/ \E s \in Users : u \in reader[s].recipients /\ reader[s].reply.list[1] = m
             \/ m \in Elements(reader[u].reply.list)
    BY <1>1, <1>2 DEF Reaches, Elements
  <1>3. PICK f : f = frames[u][1]
    OBVIOUS
  <1>4. m.room \in Rooms
    BY DEF Message
  <1>5. ASSUME m \in Elements(f.list)
        PROVE  m \in Elements(topicMessages'[u][m.room])
    <2>1. CASE ReceiveJoined(u)
      <3>1. f \in Frame /\ Proper(f) /\ Joins(f) /\ topicMessages'[u][f.room] = f.list
        BY <2>1, <1>3, JoinReceived
      <3>2. m.room = f.room
        BY <1>5, <3>1 DEF Proper, Joins, Elements
      <3> QED BY <3>1, <3>2, <1>5
    <2>2. CASE ReceiveMessage(u)
      <3>1. PICK n : n = f.list[1]
        OBVIOUS
      <3>2. /\ Elements(f.list) = {n} /\ n \in Message /\ n.room \in Rooms
            /\ topicMessages'[u][n.room] = WithMessage(topicMessages[u][n.room], n)
        BY <2>2, <1>3, <3>1, MessageReceived
      <3>3. PICK list \in Seq(Message) : list = topicMessages[u][n.room]
        BY <3>2 DEF TypeOK
      <3>4. n \in Elements(WithMessage(list, n))
        BY <3>2, Listed
      <3> QED BY <1>5, <3>2, <3>3, <3>4
    <2>3. CASE ReceiveLeft(u) \/ ReceiveError(u)
      <3>1. f.list = <<>>
        BY <2>3, <1>3, OthersReceived
      <3> QED BY <3>1, <1>5 DEF Elements
    <2> QED BY <2>1, <2>2, <2>3 DEF Receives
  <1>6. ASSUME m \in Elements(topicMessages[u][m.room]), ~ (Joins(f) /\ f.room = m.room)
        PROVE  m \in Elements(topicMessages'[u][m.room])
    <2>1. CASE ReceiveJoined(u)
      <3>1. Joins(f) /\ f.room \in Rooms /\ \A r \in Rooms : r # f.room => topicMessages'[u][r] = topicMessages[u][r]
        BY <2>1, <1>3, JoinReceived
      <3> QED BY <3>1, <1>4, <1>6
    <2>2. CASE ReceiveMessage(u)
      <3>1. PICK n : n = f.list[1]
        OBVIOUS
      <3>2. /\ n \in Message /\ n.room \in Rooms
            /\ \A r \in Rooms : r # n.room => topicMessages'[u][r] = topicMessages[u][r]
            /\ topicMessages'[u][n.room] = WithMessage(topicMessages[u][n.room], n)
        BY <2>2, <1>3, <3>1, MessageReceived
      <3>3. PICK list \in Seq(Message) : list = topicMessages[u][n.room]
        BY <3>2 DEF TypeOK
      <3>4. Elements(WithMessage(list, n)) = Elements(list) \cup {n}
        BY <3>2, Listed
      <3>5. CASE m.room = n.room
        BY <3>2, <3>3, <3>4, <3>5, <1>6
      <3>6. CASE m.room # n.room
        BY <3>2, <3>6, <1>4, <1>6
      <3> QED BY <3>5, <3>6
    <2>3. CASE ReceiveLeft(u) \/ ReceiveError(u)
      <3>1. topicMessages' = topicMessages
        BY <2>3, <1>3, OthersReceived
      <3> QED BY <3>1, <1>6
    <2> QED BY <2>1, <2>2, <2>3 DEF Receives
  <1>7. CASE \E i \in DOMAIN frames[u] :
               /\ m \in Elements(frames[u][i].list)
               /\ \A j \in DOMAIN frames[u] : j > i => ~ (Joins(frames[u][j]) /\ frames[u][j].room = m.room)
    <2>1. PICK i \in DOMAIN frames[u] :
            /\ m \in Elements(frames[u][i].list)
            /\ \A j \in DOMAIN frames[u] : j > i => ~ (Joins(frames[u][j]) /\ frames[u][j].room = m.room)
      BY <1>7
    <2>2. CASE i = 1
      <3>1. m \in Elements(topicMessages'[u][m.room])
        BY <2>1, <2>2, <1>3, <1>5
      <3>2. \A j \in DOMAIN frames'[u] : ~ (Joins(frames'[u][j]) /\ frames'[u][j].room = m.room)
        <4>1. \A j \in DOMAIN frames'[u] : j + 1 > 1
          BY <1>1
        <4> QED BY <4>1, <1>1, <2>1, <2>2
      <3> QED BY <3>1, <3>2 DEF Reaches, Elements, Joins
    <2>3. CASE i # 1
      <3>1. i - 1 \in DOMAIN frames'[u] /\ frames'[u][i - 1] = frames[u][i] /\ i \in Nat
        BY <1>1, <2>3
      <3>2. \A j \in DOMAIN frames'[u] : j > i - 1 => j + 1 > i
        BY <1>1, <3>1
      <3>3. \A j \in DOMAIN frames'[u] : j > i - 1 => ~ (Joins(frames'[u][j]) /\ frames'[u][j].room = m.room)
        BY <1>1, <2>1, <3>2
      <3> QED BY <2>1, <3>1, <3>3 DEF Reaches, Elements, Joins
    <2> QED BY <2>2, <2>3
  <1>8. CASE /\ \A i \in DOMAIN frames[u] : ~ (Joins(frames[u][i]) /\ frames[u][i].room = m.room)
             /\ m \in Elements(topicMessages[u][m.room])
    <2>1. m \in Elements(topicMessages'[u][m.room])
      BY <1>1, <1>3, <1>6, <1>8
    <2>2. \A j \in DOMAIN frames'[u] : ~ (Joins(frames'[u][j]) /\ frames'[u][j].room = m.room)
      BY <1>1, <1>8
    <2> QED BY <2>1, <2>2 DEF Reaches, Elements, Joins
  <1> QED BY <1>2, <1>7, <1>8 DEF Reaches

LEMMA HeardReceives ==
  ASSUME TypeOK, Readers, Traffic, NEW u \in Users, Receives(u), \A v \in Users : Heard(v)
  PROVE  \A v \in Users : Heard(v)'
  <1>1. /\ UNCHANGED <<topicUserRoom, posted, reader, joining, astray>>
        /\ \A v \in Users \ {u} : frames'[v] = frames[v] /\ topicMessages'[v] = topicMessages[v]
    BY Received
  <1> SUFFICES ASSUME NEW v \in Users, topicUserRoom'[v] # NoRoom PROVE Heard(v)'
    BY DEF Heard
  <1>2. PICK r \in Rooms : r = topicUserRoom[v]
    BY <1>1 DEF TypeOK
  <1>3. ASSUME NEW m \in Message, Reaches(v, m)
        PROVE  Reaches(v, m)'
    <2>1. CASE v = u
      BY <2>1, <1>3, ReachReceives
    <2>2. CASE v # u
      BY <2>2, <1>1, <1>3 DEF Reaches, Elements, Joins
    <2> QED BY <2>1, <2>2
  <1>4. joining[v].from <= Len(posted[r])
    BY <1>1, <1>2 DEF Heard
  <1>5. ASSUME ~ astray[v], NEW i \in DOMAIN posted[r]
        PROVE  IF Joins(reader[v].reply)
               THEN InHistory(v, i) => posted[r][i] \in Elements(reader[v].reply.list)
               ELSE InHistory(v, i) \/ i > joining[v].until => Reaches(v, posted[r][i])'
    <2>1. PICK m \in Message : m = posted[r][i]
      BY <1>5 DEF TypeOK
    <2>2. IF Joins(reader[v].reply)
          THEN InHistory(v, i) => posted[r][i] \in Elements(reader[v].reply.list)
          ELSE InHistory(v, i) \/ i > joining[v].until => Reaches(v, m)
      BY <1>1, <1>2, <1>5, <2>1 DEF Heard
    <2>3. Reaches(v, m)' => Reaches(v, posted[r][i])'
      <3>1. posted'[r][i] = m
        BY <1>1, <2>1
      <3> QED BY <3>1 DEF Reaches
    <2> QED BY <1>3, <2>1, <2>2, <2>3
  <1>6. topicUserRoom' = topicUserRoom /\ posted' = posted /\ reader' = reader /\ joining' = joining /\ astray' = astray
    BY <1>1
  <1>7. topicUserRoom'[v] = r /\ joining'[v].from <= Len(posted'[r])
    BY <1>2, <1>4, <1>6
  <1>8. ASSUME ~ astray'[v], NEW i \in DOMAIN posted'[r]
        PROVE  IF Joins(reader'[v].reply)
               THEN InHistory(v, i)' => posted'[r][i] \in Elements(reader'[v].reply.list)
               ELSE InHistory(v, i)' \/ i > joining'[v].until => Reaches(v, posted[r][i])'
    <2>1. InHistory(v, i)' <=> InHistory(v, i)
      BY <1>6 DEF InHistory
    <2> QED BY <1>5, <1>6, <1>8, <2>1
  <1> QED BY <1>7, <1>8 DEF Heard, Joins, InHistory, Reaches, Elements

LEMMA HeardStep ==
  ASSUME TypeOK, Budget, Log, Readers, Traffic, \A u \in Users : Heard(u), Next
  PROVE  \A u \in Users : Heard(u)'
  <1> PICK u \in Users : Clicks(u) \/ Serves(u) \/ Push(u) \/ Reply(u) \/ Receives(u)
    BY Cases
  <1>1. CASE Clicks(u)
    <2>1. UNCHANGED <<topicUserRoom, posted, reader, frames, topicMessages, joining, astray>>
      BY <1>1 DEF Clicks, SelectTopicRoom, SelectConversation, SendMessage, Ask, server, page, history
    <2> QED BY <2>1 DEF Heard, InHistory, Reaches, Joins, Elements
  <1> QED BY <1>1, HeardServes, HeardDelivers, HeardReceives

-----------------------------------------------------------------------------
(* The theorems. *)

LEMMA Invariance == Spec => []IInv
  <1>1. Init => IInv
    BY TypesInit, LogInit, ReadersInit, OrderInit, AgreeInit, HeardInit DEF IInv
  <1>2. IInv /\ [Next]_vars => IInv'
    <2>1. CASE Next
      <3> SUFFICES ASSUME IInv, Next PROVE IInv'
        BY <2>1
      <3>1. TypeOK' /\ Budget'
        BY TypesStep, BudgetStep DEF IInv
      <3>2. Log' /\ Readers' /\ Traffic' /\ Order'
        BY LogStep, ReadersStep, TrafficStep, OrderStep DEF IInv
      <3>3. \A u \in Users : WillAgree(u)' /\ Heard(u)'
        BY AgreeStep, HeardStep DEF IInv
      <3> QED BY <3>1, <3>2, <3>3 DEF IInv
    <2>2. CASE UNCHANGED vars
      <3>1. UNCHANGED <<topicUserRoom, messages, topicMessageSeq, posted, requests, reader, frames,
                        activeTopicRoomId, topicMessages, asked, joining, astray>>
        BY <2>2 DEF vars, server, page, history
      <3>2. IInv => TypeOK' /\ Budget' /\ Log' /\ Readers' /\ Traffic'
        <4>1. TypeOK => TypeOK'
          BY <3>1 DEF TypeOK
        <4>2. Budget => Budget'
          <5>1. Unserved' = Unserved
            BY <3>1 DEF Unserved
          <5>2. IsFiniteSet(Unserved) => IsFiniteSet(Unserved)'
            BY <5>1
          <5>3. Cardinality(Unserved)' = Cardinality(Unserved)
            BY <5>1
          <5> QED BY <3>1, <5>2, <5>3 DEF Budget
        <4>3. Log => Log'
          BY <3>1 DEF Log, Sorted, EndOf, Posted
        <4>4. Readers => Readers'
          BY <3>1 DEF Readers, InHand, Proper, Posted
        <4>5. Traffic => Traffic'
          BY <3>1 DEF Traffic, Proper, Posted
        <4> QED BY <4>1, <4>2, <4>3, <4>4, <4>5 DEF IInv
      <3>3. IInv => Order'
        BY <3>1 DEF IInv, Order, SenderOrderKept, InOrder, From, Joins, Owes
      <3>4. IInv => \A u \in Users : WillAgree(u)'
        BY <3>1, AgreeFrame DEF IInv
      <3>5. IInv => \A u \in Users : Heard(u)'
        BY <3>1 DEF IInv, Heard, InHistory, Reaches, Joins, Elements
      <3> QED BY <3>2, <3>3, <3>4, <3>5 DEF IInv
    <2> QED BY <2>1, <2>2
  <1> QED BY <1>1, <1>2, PTL DEF Spec

LEMMA Agreement == IInv => PageAgrees
  <1> SUFFICES ASSUME IInv, NEW u \in Users, Settled(u)
               PROVE  activeTopicRoomId[u] = topicUserRoom[u] \/ astray[u]
    BY DEF PageAgrees
  <1>1. requests[u] = <<>> /\ ~ reader[u].busy /\ frames[u] = <<>>
    BY DEF Settled
  <1>2. PICK x \in Rooms \cup {NoRoom} :
          /\ Leads(activeTopicRoomId[u], frames[u], x)
          /\ \/ After(x, reader[u].reply) = topicUserRoom[u]
             \/ /\ After(x, reader[u].reply) = NoRoom
                /\ \E i \in DOMAIN requests[u] :
                     requests[u][i] = [kind |-> "leave", room |-> topicUserRoom[u]]
             \/ astray[u]
    BY DEF IInv, WillAgree
  <1>3. x = activeTopicRoomId[u]
    BY <1>1, <1>2 DEF Leads
  <1>4. After(x, reader[u].reply) = x
    BY <1>1 DEF IInv, Readers, InHand, Waiting, Refused, After, Joins, Leaves
  <1>5. DOMAIN requests[u] = {}
    BY <1>1
  <1> QED BY <1>2, <1>3, <1>4, <1>5

\* Every reachable state is well-typed: in particular no history grows past its
\* limit, and every message that a frame or a list names is one that was sent.
THEOREM TypeCorrect == Spec => []TypeOK
  <1>1. IInv => TypeOK
    BY DEF IInv
  <1> QED BY <1>1, Invariance, PTL

\* The messages of one sender are listed in the order they were posted in, and
\* none twice, by every page, though history and pushes overlap.
THEOREM OrderOfSenders == Spec => []SenderOrderKept
  <1>1. IInv => SenderOrderKept
    BY DEF IInv, Order
  <1> QED BY <1>1, Invariance, PTL

\* A page that has settled shows the room that the server has its user in, in
\* whatever order the user switched, left and wrote before the answers came.
THEOREM PagesAgree == Spec => []PageAgrees
  <1>1. IInv => PageAgrees
    BY Agreement
  <1> QED BY <1>1, Invariance, PTL

\* A page that has settled lists what the room's history held when its user
\* joined and all that was posted since the join was answered.
THEOREM MissedOnly == Spec => []MissedOnlyWhileJoining
  <1>1. IInv => MissedOnlyWhileJoining
    <2> SUFFICES ASSUME IInv, NEW u \in Users, Settled(u), activeTopicRoomId[u] # NoRoom, ~ astray[u],
                        NEW i \in DOMAIN posted[activeTopicRoomId[u]],
                        InHistory(u, i) \/ i > joining[u].until
                 PROVE  posted[activeTopicRoomId[u]][i] \in Elements(topicMessages[u][activeTopicRoomId[u]])
      BY DEF MissedOnlyWhileJoining, InHistory
    <2>1. PICK r \in Rooms : r = activeTopicRoomId[u]
      BY DEF IInv, TypeOK
    <2>2. topicUserRoom[u] = r
      BY <2>1, Agreement DEF PageAgrees
    <2>3. ~ reader[u].busy /\ frames[u] = <<>> /\ \A v \in Users : u \notin reader[v].recipients
      BY DEF Settled
    <2>4. ~ Joins(reader[u].reply) /\ reader[u].reply.list = <<>>
      BY <2>3 DEF IInv, Readers, InHand, Waiting, Refused, Joins
    <2>5. PICK m \in Message : m = posted[r][i]
      BY <2>1 DEF IInv, TypeOK
    <2>6. Reaches(u, m)
      BY <2>1, <2>2, <2>4, <2>5 DEF IInv, Heard
    <2>7. m \in Elements(topicMessages[u][m.room])
      BY <2>3, <2>4, <2>6 DEF Reaches, Elements
    <2>8. m.room = r
      BY <2>1, <2>5 DEF IInv, Log
    <2> QED BY <2>1, <2>5, <2>7, <2>8
  <1> QED BY <1>1, Invariance, PTL
=============================================================================
