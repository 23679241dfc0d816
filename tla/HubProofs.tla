------------------------------ MODULE HubProofs ------------------------------
(***************************************************************************)
(* Theorems about Hub, for any users, connections, rooms and pushing       *)
(* goroutines, any capacity of the channels, a Redis that may fail and any *)
(* number of crashes.                                                      *)
(***************************************************************************)
EXTENDS Hub, TLAPS

\* Every goroutine is where its code can be; one that has looked a client up
\* has it, and so does the hub outside its select.
Placed ==
  /\ pc[Hub] \in HubAt
  /\ \A cl \in Clients : pc[cl] \in ReaderAt
  /\ \A p \in Pushers : pc[p] \in PusherAt
  /\ \A p \in Procs : pc[p] \in {"send", "evict"} => target[p] \in Clients
  /\ pc[Hub] = "replace" => target[Hub] \in Clients
  /\ pc[Hub] # "select" => subject \in Clients
  /\ pc[Hub] = "register" => Registered(subject)

\* An entry of the registry is a connection of that user, which the hub has received.
Entries ==
  \A u \in Users : clients[u] # NoClient => Uid[clients[u]] = u /\ Registered(clients[u])

\* Where the hub has not changed the registry since its select.
Received == {"select", "register", "unregister"}

\* What the hub has registered is current until it is done with it, and what it
\* is disconnecting has no successor yet.
SubjectHolds ==
  /\ pc[Hub] \in {"replace", "setOnline"} => clients[Uid[subject]] = subject
  /\ pc[Hub] \notin Received \cup {"replace", "setOnline"} => clients[Uid[subject]] = NoClient

\* The promises of the hub, with what is still open in the middle of its work.
ClosedUpToSubject ==
  \A cl \in Clients :
    Registered(cl) /\ clients[Uid[cl]] # cl
      => \/ conn[cl] = "closed"
         \/ pc[Hub] \in {"register", "close"} /\ cl = subject
         \/ pc[Hub] = "replace" /\ cl = target[Hub]

OnlineUpToSubject ==
  \A u \in Users \ drift :
    (u \in online <=> clients[u] # NoClient) \/ (pc[Hub] \notin Received /\ u = Uid[subject])

RoomsUpToSubject ==
  /\ \A r \in Rooms : members[r] = {u \in Users : topicUserRoom[u] = r}
  /\ \A u \in Users \ late :
       topicUserRoom[u] # NoRoom /\ clients[u] = NoClient
         => pc[Hub] \in {"close", "leave"} /\ u = Uid[subject]

IInv == /\ TypeOK /\ Placed /\ Entries /\ SubjectHolds
        /\ ClosedUpToSubject /\ OnlineUpToSubject /\ RoomsUpToSubject

-----------------------------------------------------------------------------
\* Every step leads to a place of the code, with a client where one is needed.
LEMMA PlacedStep == TypeOK /\ Placed /\ [Next]_vars => Placed'
<1> SUFFICES ASSUME TypeOK, Placed, [Next]_vars PROVE Placed'
  OBVIOUS
<1> USE HubAssumption DEF redis, rooms, registry, sockets, Goto, Procs, TypeOK, Placed, ReaderAt,
                          PusherAt, HubAt, Registered
<1>1. CASE HubSetOnline
  BY <1>1 DEF HubSetOnline, Fault
<1>2. CASE HubRegister
  BY <1>2 DEF HubRegister
<1>3. CASE HubReplace
  BY <1>3 DEF HubReplace
<1>4. CASE HubUnregister
  BY <1>4 DEF HubUnregister
<1>5. CASE HubClose
  BY <1>5 DEF HubClose
<1>6. CASE HubLeaveRoom
  BY <1>6 DEF HubLeaveRoom, LeaveRoom
<1>7. CASE HubSetOffline
  BY <1>7 DEF HubSetOffline, Fault
<1>8. ASSUME NEW p \in Procs, Push(p) PROVE Placed'
  <2>1. CASE BroadcastMembers(p)
    BY <2>1 DEF BroadcastMembers
  <2>2. CASE LookUp(p)
    BY <2>2 DEF LookUp
  <2>3. CASE TrySend(p)
    BY <2>3 DEF TrySend
  <2>4. CASE PushDone(p)
    BY <2>4 DEF PushDone, Afterwards
  <2> QED BY <1>8, <2>1, <2>2, <2>3, <2>4 DEF Push
<1>9. ASSUME NEW cl \in Clients, ClientStep(cl) PROVE Placed'
  <2>1. CASE Connect(cl)
    BY <2>1 DEF Connect
  <2>2. CASE PeerClose(cl)
    BY <2>2 DEF PeerClose
  <2>3. CASE HandleQuery(cl)
    BY <2>3 DEF HandleQuery, CanRead
  <2>4. CASE HandleRequest(cl)
    BY <2>4 DEF HandleRequest, CanRead
  <2>5. CASE HandleTopic(cl)
    BY <2>5 DEF HandleTopic, CanRead
  <2>6. CASE JoinTopicRoom(cl)
    BY <2>6 DEF JoinTopicRoom, JoinRoom
  <2>7. CASE LeaveTopicRoom(cl)
    BY <2>7 DEF LeaveTopicRoom, LeaveRoom
  <2>8. CASE Reply(cl)
    BY <2>8 DEF Reply
  <2>9. CASE ReadError(cl)
    BY <2>9 DEF ReadError
  <2>10. CASE WriteFrame(cl)
    BY <2>10 DEF WriteFrame
  <2>11. CASE PingError(cl)
    BY <2>11 DEF PingError
  <2>12. CASE HubReceiveRegister(cl)
    BY <2>12 DEF HubReceiveRegister
  <2>13. ASSUME NEW p \in Pushers, HandleFollow(cl, p) PROVE Placed'
    BY <2>13 DEF HandleFollow, CanRead
  <2>14. CASE StartPumps(cl)
    BY <2>14 DEF StartPumps
  <2> QED BY <1>9, <2>1, <2>2, <2>3, <2>4, <2>5, <2>6, <2>7, <2>8, <2>9, <2>10, <2>11, <2>12, <2>13,
                 <2>14 DEF ClientStep, Request
<1>10. ASSUME NEW p \in Procs \ {Hub}, HubReceiveUnregister(p) PROVE Placed'
  BY <1>10 DEF HubReceiveUnregister, Unregistering
<1>11. CASE Crash
  BY <1>11 DEF Crash, Fault
<1>12. CASE UNCHANGED vars
  BY <1>12 DEF vars
<1> HIDE DEF redis, rooms, registry, sockets, Goto, Procs, TypeOK, Placed, ReaderAt, PusherAt,
             HubAt, Registered
<1> QED BY <1>1, <1>2, <1>3, <1>4, <1>5, <1>6, <1>7, <1>8, <1>9, <1>10, <1>11,
           <1>12 DEF Next, HubStep, Procs

\* Only a registration makes an entry, and no connection goes back to before it.
LEMMA EntriesStep == TypeOK /\ Placed /\ Entries /\ [Next]_vars => Entries'
<1> SUFFICES ASSUME TypeOK, Placed, Entries, [Next]_vars PROVE Entries'
  OBVIOUS
<1> USE HubAssumption DEF redis, rooms, registry, sockets, Goto, Procs, TypeOK, Entries,
                          Registered, Placed, ReaderAt, PusherAt, HubAt
<1>1. CASE HubSetOnline
  BY <1>1 DEF HubSetOnline, Fault
<1>2. CASE HubRegister
  BY <1>2 DEF HubRegister
<1>3. CASE HubReplace
  BY <1>3 DEF HubReplace
<1>4. CASE HubUnregister
  BY <1>4 DEF HubUnregister
<1>5. CASE HubClose
  BY <1>5 DEF HubClose
<1>6. CASE HubLeaveRoom
  BY <1>6 DEF HubLeaveRoom, LeaveRoom
<1>7. CASE HubSetOffline
  BY <1>7 DEF HubSetOffline, Fault
<1>8. ASSUME NEW p \in Procs, Push(p) PROVE Entries'
  <2>1. CASE BroadcastMembers(p)
    BY <2>1 DEF BroadcastMembers
  <2>2. CASE LookUp(p)
    BY <2>2 DEF LookUp
  <2>3. CASE TrySend(p)
    BY <2>3 DEF TrySend
  <2>4. CASE PushDone(p)
    BY <2>4 DEF PushDone, Afterwards
  <2> QED BY <1>8, <2>1, <2>2, <2>3, <2>4 DEF Push
<1>9. ASSUME NEW cl \in Clients, ClientStep(cl) PROVE Entries'
  <2>1. CASE Connect(cl)
    BY <2>1 DEF Connect
  <2>2. CASE PeerClose(cl)
    BY <2>2 DEF PeerClose
  <2>3. CASE HandleQuery(cl)
    BY <2>3 DEF HandleQuery, CanRead
  <2>4. CASE HandleRequest(cl)
    BY <2>4 DEF HandleRequest, CanRead
  <2>5. CASE HandleTopic(cl)
    BY <2>5 DEF HandleTopic, CanRead
  <2>6. CASE JoinTopicRoom(cl)
    BY <2>6 DEF JoinTopicRoom, JoinRoom
  <2>7. CASE LeaveTopicRoom(cl)
    BY <2>7 DEF LeaveTopicRoom, LeaveRoom
  <2>8. CASE Reply(cl)
    BY <2>8 DEF Reply
  <2>9. CASE ReadError(cl)
    BY <2>9 DEF ReadError
  <2>10. CASE WriteFrame(cl)
    BY <2>10 DEF WriteFrame
  <2>11. CASE PingError(cl)
    BY <2>11 DEF PingError
  <2>12. CASE HubReceiveRegister(cl)
    BY <2>12 DEF HubReceiveRegister
  <2>13. ASSUME NEW p \in Pushers, HandleFollow(cl, p) PROVE Entries'
    BY <2>13 DEF HandleFollow, CanRead
  <2>14. CASE StartPumps(cl)
    BY <2>14 DEF StartPumps
  <2> QED BY <1>9, <2>1, <2>2, <2>3, <2>4, <2>5, <2>6, <2>7, <2>8, <2>9, <2>10, <2>11, <2>12, <2>13,
                 <2>14 DEF ClientStep, Request
<1>10. ASSUME NEW p \in Procs \ {Hub}, HubReceiveUnregister(p) PROVE Entries'
  BY <1>10 DEF HubReceiveUnregister, Unregistering
<1>11. CASE Crash
  BY <1>11 DEF Crash, Fault
<1>12. CASE UNCHANGED vars
  BY <1>12 DEF vars
<1> HIDE DEF redis, rooms, registry, sockets, Goto, Procs, TypeOK, Entries, Registered, Placed,
             ReaderAt, PusherAt, HubAt
<1> QED BY <1>1, <1>2, <1>3, <1>4, <1>5, <1>6, <1>7, <1>8, <1>9, <1>10, <1>11,
           <1>12 DEF Next, HubStep, Procs

\* While the hub is not in its select, nobody else changes the registry.
LEMMA SubjectHoldsStep == TypeOK /\ Placed /\ Entries /\ SubjectHolds /\ [Next]_vars => SubjectHolds'
<1> SUFFICES ASSUME TypeOK, Placed, Entries, SubjectHolds, [Next]_vars PROVE SubjectHolds'
  OBVIOUS
<1> USE HubAssumption DEF redis, rooms, registry, sockets, Goto, Procs, TypeOK, Entries,
                          SubjectHolds, Received, Registered, Placed, ReaderAt, PusherAt, HubAt
<1>1. CASE HubSetOnline
  BY <1>1 DEF HubSetOnline, Fault
<1>2. CASE HubRegister
  BY <1>2 DEF HubRegister
<1>3. CASE HubReplace
  BY <1>3 DEF HubReplace
<1>4. CASE HubUnregister
  BY <1>4 DEF HubUnregister
<1>5. CASE HubClose
  BY <1>5 DEF HubClose
<1>6. CASE HubLeaveRoom
  BY <1>6 DEF HubLeaveRoom, LeaveRoom
<1>7. CASE HubSetOffline
  BY <1>7 DEF HubSetOffline, Fault
<1>8. ASSUME NEW p \in Procs, Push(p) PROVE SubjectHolds'
  <2>1. CASE BroadcastMembers(p)
    BY <2>1 DEF BroadcastMembers
  <2>2. CASE LookUp(p)
    BY <2>2 DEF LookUp
  <2>3. CASE TrySend(p)
    BY <2>3 DEF TrySend
  <2>4. CASE PushDone(p)
    BY <2>4 DEF PushDone, Afterwards
  <2> QED BY <1>8, <2>1, <2>2, <2>3, <2>4 DEF Push
<1>9. ASSUME NEW cl \in Clients, ClientStep(cl) PROVE SubjectHolds'
  <2>1. CASE Connect(cl)
    BY <2>1 DEF Connect
  <2>2. CASE PeerClose(cl)
    BY <2>2 DEF PeerClose
  <2>3. CASE HandleQuery(cl)
    BY <2>3 DEF HandleQuery, CanRead
  <2>4. CASE HandleRequest(cl)
    BY <2>4 DEF HandleRequest, CanRead
  <2>5. CASE HandleTopic(cl)
    BY <2>5 DEF HandleTopic, CanRead
  <2>6. CASE JoinTopicRoom(cl)
    BY <2>6 DEF JoinTopicRoom, JoinRoom
  <2>7. CASE LeaveTopicRoom(cl)
    BY <2>7 DEF LeaveTopicRoom, LeaveRoom
  <2>8. CASE Reply(cl)
    BY <2>8 DEF Reply
  <2>9. CASE ReadError(cl)
    BY <2>9 DEF ReadError
  <2>10. CASE WriteFrame(cl)
    BY <2>10 DEF WriteFrame
  <2>11. CASE PingError(cl)
    BY <2>11 DEF PingError
  <2>12. CASE HubReceiveRegister(cl)
    BY <2>12 DEF HubReceiveRegister
  <2>13. ASSUME NEW p \in Pushers, HandleFollow(cl, p) PROVE SubjectHolds'
    BY <2>13 DEF HandleFollow, CanRead
  <2>14. CASE StartPumps(cl)
    BY <2>14 DEF StartPumps
  <2> QED BY <1>9, <2>1, <2>2, <2>3, <2>4, <2>5, <2>6, <2>7, <2>8, <2>9, <2>10, <2>11, <2>12, <2>13,
                 <2>14 DEF ClientStep, Request
<1>10. ASSUME NEW p \in Procs \ {Hub}, HubReceiveUnregister(p) PROVE SubjectHolds'
  BY <1>10 DEF HubReceiveUnregister, Unregistering
<1>11. CASE Crash
  BY <1>11 DEF Crash, Fault
<1>12. CASE UNCHANGED vars
  BY <1>12 DEF vars
<1> HIDE DEF redis, rooms, registry, sockets, Goto, Procs, TypeOK, Entries, SubjectHolds,
             Received, Registered, Placed, ReaderAt, PusherAt, HubAt
<1> QED BY <1>1, <1>2, <1>3, <1>4, <1>5, <1>6, <1>7, <1>8, <1>9, <1>10, <1>11,
           <1>12 DEF Next, HubStep, Procs

\* No step leaves the types; no channel is filled beyond its capacity.
LEMMA TypeStep == TypeOK /\ Placed /\ [Next]_vars => TypeOK'
<1> SUFFICES ASSUME TypeOK, Placed, [Next]_vars PROVE TypeOK'
  OBVIOUS
<1> USE HubAssumption DEF redis, rooms, registry, sockets, Goto, Procs, TypeOK, Placed, ReaderAt,
                          PusherAt, HubAt, Registered
<1>1. CASE HubSetOnline
  BY <1>1 DEF HubSetOnline, Fault
<1>2. CASE HubRegister
  BY <1>2 DEF HubRegister
<1>3. CASE HubReplace
  BY <1>3 DEF HubReplace
<1>4. CASE HubUnregister
  BY <1>4 DEF HubUnregister
<1>5. CASE HubClose
  BY <1>5 DEF HubClose
<1>6. CASE HubLeaveRoom
  BY <1>6 DEF HubLeaveRoom, LeaveRoom
<1>7. CASE HubSetOffline
  BY <1>7 DEF HubSetOffline, Fault
<1>8. ASSUME NEW p \in Procs, Push(p) PROVE TypeOK'
  <2>1. CASE BroadcastMembers(p)
    BY <2>1 DEF BroadcastMembers
  <2>2. CASE LookUp(p)
    BY <2>2 DEF LookUp
  <2>3. CASE TrySend(p)
    BY <2>3 DEF TrySend
  <2>4. CASE PushDone(p)
    BY <2>4 DEF PushDone, Afterwards
  <2> QED BY <1>8, <2>1, <2>2, <2>3, <2>4 DEF Push
<1>9. ASSUME NEW cl \in Clients, ClientStep(cl) PROVE TypeOK'
  <2>1. CASE Connect(cl)
    BY <2>1 DEF Connect
  <2>2. CASE PeerClose(cl)
    BY <2>2 DEF PeerClose
  <2>3. CASE HandleQuery(cl)
    BY <2>3 DEF HandleQuery, CanRead
  <2>4. CASE HandleRequest(cl)
    BY <2>4 DEF HandleRequest, CanRead
  <2>5. CASE HandleTopic(cl)
    BY <2>5 DEF HandleTopic, CanRead
  <2>6. CASE JoinTopicRoom(cl)
    BY <2>6 DEF JoinTopicRoom, JoinRoom
  <2>7. CASE LeaveTopicRoom(cl)
    BY <2>7 DEF LeaveTopicRoom, LeaveRoom
  <2>8. CASE Reply(cl)
    BY <2>8 DEF Reply
  <2>9. CASE ReadError(cl)
    BY <2>9 DEF ReadError
  <2>10. CASE WriteFrame(cl)
    BY <2>10 DEF WriteFrame
  <2>11. CASE PingError(cl)
    BY <2>11 DEF PingError
  <2>12. CASE HubReceiveRegister(cl)
    BY <2>12 DEF HubReceiveRegister
  <2>13. ASSUME NEW p \in Pushers, HandleFollow(cl, p) PROVE TypeOK'
    BY <2>13 DEF HandleFollow, CanRead
  <2>14. CASE StartPumps(cl)
    BY <2>14 DEF StartPumps
  <2> QED BY <1>9, <2>1, <2>2, <2>3, <2>4, <2>5, <2>6, <2>7, <2>8, <2>9, <2>10, <2>11, <2>12, <2>13,
                 <2>14 DEF ClientStep, Request
<1>10. ASSUME NEW p \in Procs \ {Hub}, HubReceiveUnregister(p) PROVE TypeOK'
  BY <1>10 DEF HubReceiveUnregister, Unregistering
<1>11. CASE Crash
  BY <1>11 DEF Crash, Fault
<1>12. CASE UNCHANGED vars
  BY <1>12 DEF vars
<1> HIDE DEF redis, rooms, registry, sockets, Goto, Procs, TypeOK, Placed, ReaderAt, PusherAt,
             HubAt, Registered
<1> QED BY <1>1, <1>2, <1>3, <1>4, <1>5, <1>6, <1>7, <1>8, <1>9, <1>10, <1>11,
           <1>12 DEF Next, HubStep, Procs

\* Only the hub takes an entry away, and it closes the connection before its next select.
LEMMA ClosedStep == TypeOK /\ Placed /\ Entries /\ SubjectHolds /\ ClosedUpToSubject /\ [Next]_vars => ClosedUpToSubject'
<1> SUFFICES ASSUME TypeOK, Placed, Entries, SubjectHolds, ClosedUpToSubject, [Next]_vars PROVE ClosedUpToSubject'
  OBVIOUS
<1> USE HubAssumption DEF redis, rooms, registry, sockets, Goto, Procs, TypeOK, Entries,
                          SubjectHolds, Received, ClosedUpToSubject, Registered, Placed, ReaderAt,
                          PusherAt, HubAt
<1>1. CASE HubSetOnline
  BY <1>1 DEF HubSetOnline, Fault
<1>2. CASE HubRegister
  BY <1>2 DEF HubRegister
<1>3. CASE HubReplace
  BY <1>3 DEF HubReplace
<1>4. CASE HubUnregister
  BY <1>4 DEF HubUnregister
<1>5. CASE HubClose
  BY <1>5 DEF HubClose
<1>6. CASE HubLeaveRoom
  BY <1>6 DEF HubLeaveRoom, LeaveRoom
<1>7. CASE HubSetOffline
  BY <1>7 DEF HubSetOffline, Fault
<1>8. ASSUME NEW p \in Procs, Push(p) PROVE ClosedUpToSubject'
  <2>1. CASE BroadcastMembers(p)
    BY <2>1 DEF BroadcastMembers
  <2>2. CASE LookUp(p)
    BY <2>2 DEF LookUp
  <2>3. CASE TrySend(p)
    BY <2>3 DEF TrySend
  <2>4. CASE PushDone(p)
    BY <2>4 DEF PushDone, Afterwards
  <2> QED BY <1>8, <2>1, <2>2, <2>3, <2>4 DEF Push
<1>9. ASSUME NEW cl \in Clients, ClientStep(cl) PROVE ClosedUpToSubject'
  <2>1. CASE Connect(cl)
    BY <2>1 DEF Connect
  <2>2. CASE PeerClose(cl)
    BY <2>2 DEF PeerClose
  <2>3. CASE HandleQuery(cl)
    BY <2>3 DEF HandleQuery, CanRead
  <2>4. CASE HandleRequest(cl)
    BY <2>4 DEF HandleRequest, CanRead
  <2>5. CASE HandleTopic(cl)
    BY <2>5 DEF HandleTopic, CanRead
  <2>6. CASE JoinTopicRoom(cl)
    BY <2>6 DEF JoinTopicRoom, JoinRoom
  <2>7. CASE LeaveTopicRoom(cl)
    BY <2>7 DEF LeaveTopicRoom, LeaveRoom
  <2>8. CASE Reply(cl)
    BY <2>8 DEF Reply
  <2>9. CASE ReadError(cl)
    BY <2>9 DEF ReadError
  <2>10. CASE WriteFrame(cl)
    BY <2>10 DEF WriteFrame
  <2>11. CASE PingError(cl)
    BY <2>11 DEF PingError
  <2>12. CASE HubReceiveRegister(cl)
    BY <2>12 DEF HubReceiveRegister
  <2>13. ASSUME NEW p \in Pushers, HandleFollow(cl, p) PROVE ClosedUpToSubject'
    BY <2>13 DEF HandleFollow, CanRead
  <2>14. CASE StartPumps(cl)
    BY <2>14 DEF StartPumps
  <2> QED BY <1>9, <2>1, <2>2, <2>3, <2>4, <2>5, <2>6, <2>7, <2>8, <2>9, <2>10, <2>11, <2>12, <2>13,
                 <2>14 DEF ClientStep, Request
<1>10. ASSUME NEW p \in Procs \ {Hub}, HubReceiveUnregister(p) PROVE ClosedUpToSubject'
  BY <1>10 DEF HubReceiveUnregister, Unregistering
<1>11. CASE Crash
  BY <1>11 DEF Crash, Fault
<1>12. CASE UNCHANGED vars
  BY <1>12 DEF vars
<1> HIDE DEF redis, rooms, registry, sockets, Goto, Procs, TypeOK, Entries, SubjectHolds,
             Received, ClosedUpToSubject, Registered, Placed, ReaderAt, PusherAt, HubAt
<1> QED BY <1>1, <1>2, <1>3, <1>4, <1>5, <1>6, <1>7, <1>8, <1>9, <1>10, <1>11,
           <1>12 DEF Next, HubStep, Procs

\* Only the hub writes to Redis, for the client it registers or disconnects.
LEMMA OnlineStep == TypeOK /\ Placed /\ Entries /\ SubjectHolds /\ OnlineUpToSubject /\ [Next]_vars => OnlineUpToSubject'
<1> SUFFICES ASSUME TypeOK, Placed, Entries, SubjectHolds, OnlineUpToSubject, [Next]_vars PROVE OnlineUpToSubject'
  OBVIOUS
<1> USE HubAssumption DEF redis, rooms, registry, sockets, Goto, Procs, TypeOK, Entries,
                          SubjectHolds, Received, OnlineUpToSubject, Registered, Placed, ReaderAt,
                          PusherAt, HubAt
<1>1. CASE HubSetOnline
  BY <1>1 DEF HubSetOnline, Fault
<1>2. CASE HubRegister
  BY <1>2 DEF HubRegister
<1>3. CASE HubReplace
  BY <1>3 DEF HubReplace
<1>4. CASE HubUnregister
  BY <1>4 DEF HubUnregister
<1>5. CASE HubClose
  BY <1>5 DEF HubClose
<1>6. CASE HubLeaveRoom
  BY <1>6 DEF HubLeaveRoom, LeaveRoom
<1>7. CASE HubSetOffline
  BY <1>7 DEF HubSetOffline, Fault
<1>8. ASSUME NEW p \in Procs, Push(p) PROVE OnlineUpToSubject'
  <2>1. CASE BroadcastMembers(p)
    BY <2>1 DEF BroadcastMembers
  <2>2. CASE LookUp(p)
    BY <2>2 DEF LookUp
  <2>3. CASE TrySend(p)
    BY <2>3 DEF TrySend
  <2>4. CASE PushDone(p)
    BY <2>4 DEF PushDone, Afterwards
  <2> QED BY <1>8, <2>1, <2>2, <2>3, <2>4 DEF Push
<1>9. ASSUME NEW cl \in Clients, ClientStep(cl) PROVE OnlineUpToSubject'
  <2>1. CASE Connect(cl)
    BY <2>1 DEF Connect
  <2>2. CASE PeerClose(cl)
    BY <2>2 DEF PeerClose
  <2>3. CASE HandleQuery(cl)
    BY <2>3 DEF HandleQuery, CanRead
  <2>4. CASE HandleRequest(cl)
    BY <2>4 DEF HandleRequest, CanRead
  <2>5. CASE HandleTopic(cl)
    BY <2>5 DEF HandleTopic, CanRead
  <2>6. CASE JoinTopicRoom(cl)
    BY <2>6 DEF JoinTopicRoom, JoinRoom
  <2>7. CASE LeaveTopicRoom(cl)
    BY <2>7 DEF LeaveTopicRoom, LeaveRoom
  <2>8. CASE Reply(cl)
    BY <2>8 DEF Reply
  <2>9. CASE ReadError(cl)
    BY <2>9 DEF ReadError
  <2>10. CASE WriteFrame(cl)
    BY <2>10 DEF WriteFrame
  <2>11. CASE PingError(cl)
    BY <2>11 DEF PingError
  <2>12. CASE HubReceiveRegister(cl)
    BY <2>12 DEF HubReceiveRegister
  <2>13. ASSUME NEW p \in Pushers, HandleFollow(cl, p) PROVE OnlineUpToSubject'
    BY <2>13 DEF HandleFollow, CanRead
  <2>14. CASE StartPumps(cl)
    BY <2>14 DEF StartPumps
  <2> QED BY <1>9, <2>1, <2>2, <2>3, <2>4, <2>5, <2>6, <2>7, <2>8, <2>9, <2>10, <2>11, <2>12, <2>13,
                 <2>14 DEF ClientStep, Request
<1>10. ASSUME NEW p \in Procs \ {Hub}, HubReceiveUnregister(p) PROVE OnlineUpToSubject'
  BY <1>10 DEF HubReceiveUnregister, Unregistering
<1>11. CASE Crash
  BY <1>11 DEF Crash, Fault
<1>12. CASE UNCHANGED vars
  BY <1>12 DEF vars
<1> HIDE DEF redis, rooms, registry, sockets, Goto, Procs, TypeOK, Entries, SubjectHolds,
             Received, OnlineUpToSubject, Registered, Placed, ReaderAt, PusherAt, HubAt
<1> QED BY <1>1, <1>2, <1>3, <1>4, <1>5, <1>6, <1>7, <1>8, <1>9, <1>10, <1>11,
           <1>12 DEF Next, HubStep, Procs

\* The critical sections keep the two maps in step, and the cleanup follows a removal.
LEMMA RoomsStep == TypeOK /\ Placed /\ Entries /\ SubjectHolds /\ RoomsUpToSubject /\ [Next]_vars => RoomsUpToSubject'
<1> SUFFICES ASSUME TypeOK, Placed, Entries, SubjectHolds, RoomsUpToSubject, [Next]_vars PROVE RoomsUpToSubject'
  OBVIOUS
<1> USE HubAssumption DEF redis, rooms, registry, sockets, Goto, Procs, TypeOK, Entries,
                          SubjectHolds, Received, RoomsUpToSubject, Registered, Placed, ReaderAt, PusherAt,
                          HubAt
<1>1. CASE HubSetOnline
  BY <1>1 DEF HubSetOnline, Fault
<1>2. CASE HubRegister
  BY <1>2 DEF HubRegister
<1>3. CASE HubReplace
  BY <1>3 DEF HubReplace
<1>4. CASE HubUnregister
  BY <1>4 DEF HubUnregister
<1>5. CASE HubClose
  BY <1>5 DEF HubClose
<1>6. CASE HubLeaveRoom
  BY <1>6 DEF HubLeaveRoom, LeaveRoom
<1>7. CASE HubSetOffline
  BY <1>7 DEF HubSetOffline, Fault
<1>8. ASSUME NEW p \in Procs, Push(p) PROVE RoomsUpToSubject'
  <2>1. CASE BroadcastMembers(p)
    BY <2>1 DEF BroadcastMembers
  <2>2. CASE LookUp(p)
    BY <2>2 DEF LookUp
  <2>3. CASE TrySend(p)
    BY <2>3 DEF TrySend
  <2>4. CASE PushDone(p)
    BY <2>4 DEF PushDone, Afterwards
  <2> QED BY <1>8, <2>1, <2>2, <2>3, <2>4 DEF Push
<1>9. ASSUME NEW cl \in Clients, ClientStep(cl) PROVE RoomsUpToSubject'
  <2>1. CASE Connect(cl)
    BY <2>1 DEF Connect
  <2>2. CASE PeerClose(cl)
    BY <2>2 DEF PeerClose
  <2>3. CASE HandleQuery(cl)
    BY <2>3 DEF HandleQuery, CanRead
  <2>4. CASE HandleRequest(cl)
    BY <2>4 DEF HandleRequest, CanRead
  <2>5. CASE HandleTopic(cl)
    BY <2>5 DEF HandleTopic, CanRead
  <2>6. CASE JoinTopicRoom(cl)
    BY <2>6 DEF JoinTopicRoom, JoinRoom
  <2>7. CASE LeaveTopicRoom(cl)
    BY <2>7 DEF LeaveTopicRoom, LeaveRoom
  <2>8. CASE Reply(cl)
    BY <2>8 DEF Reply
  <2>9. CASE ReadError(cl)
    BY <2>9 DEF ReadError
  <2>10. CASE WriteFrame(cl)
    BY <2>10 DEF WriteFrame
  <2>11. CASE PingError(cl)
    BY <2>11 DEF PingError
  <2>12. CASE HubReceiveRegister(cl)
    BY <2>12 DEF HubReceiveRegister
  <2>13. ASSUME NEW p \in Pushers, HandleFollow(cl, p) PROVE RoomsUpToSubject'
    BY <2>13 DEF HandleFollow, CanRead
  <2>14. CASE StartPumps(cl)
    BY <2>14 DEF StartPumps
  <2> QED BY <1>9, <2>1, <2>2, <2>3, <2>4, <2>5, <2>6, <2>7, <2>8, <2>9, <2>10, <2>11, <2>12, <2>13,
                 <2>14 DEF ClientStep, Request
<1>10. ASSUME NEW p \in Procs \ {Hub}, HubReceiveUnregister(p) PROVE RoomsUpToSubject'
  BY <1>10 DEF HubReceiveUnregister, Unregistering
<1>11. CASE Crash
  BY <1>11 DEF Crash, Fault
<1>12. CASE UNCHANGED vars
  BY <1>12 DEF vars
<1> HIDE DEF redis, rooms, registry, sockets, Goto, Procs, TypeOK, Entries, SubjectHolds,
             Received, RoomsUpToSubject, Registered, Placed, ReaderAt, PusherAt, HubAt
<1> QED BY <1>1, <1>2, <1>3, <1>4, <1>5, <1>6, <1>7, <1>8, <1>9, <1>10, <1>11,
           <1>12 DEF Next, HubStep, Procs

\* The conjunction is inductive.
LEMMA Invariant == Spec => []IInv
<1>1. Init => IInv
  <2> SUFFICES ASSUME Init PROVE IInv
    OBVIOUS
  <2> USE HubAssumption DEF Init, Procs, Registered
  <2>1. TypeOK
    BY DEF TypeOK, ReaderAt, PusherAt, HubAt
  <2>2. Placed
    BY DEF Placed, ReaderAt, PusherAt, HubAt
  <2>3. Entries /\ SubjectHolds /\ ClosedUpToSubject
    BY DEF Entries, SubjectHolds, ClosedUpToSubject, Received
  <2>4. OnlineUpToSubject /\ RoomsUpToSubject
    BY DEF OnlineUpToSubject, RoomsUpToSubject
  <2> QED BY <2>1, <2>2, <2>3, <2>4 DEF IInv
<1>2. IInv /\ [Next]_vars => IInv'
  BY PlacedStep, EntriesStep, SubjectHoldsStep, TypeStep, ClosedStep, OnlineStep, RoomsStep DEF IInv
<1> QED BY <1>1, <1>2, PTL DEF Spec

-----------------------------------------------------------------------------
\* Every reachable state of the hub is well-typed; in particular no frame is
\* put into a channel that is full.
THEOREM TypeCorrect == Spec => []TypeOK
<1>1. IInv => TypeOK
  BY DEF IInv
<1> QED BY <1>1, Invariant, PTL

\* registerClient and disconnectClient close what they take out of the registry
\* before Run selects again, so that no superseded connection stays open.
THEOREM SupersededClosed == Spec => []SupersededIsClosed
<1>1. IInv => SupersededIsClosed
  BY DEF IInv, ClosedUpToSubject, SupersededIsClosed
<1> QED BY <1>1, Invariant, PTL

\* At every select of Run the Redis set is the set of the users with a current
\* connection, but for those of whom Redis missed the last change.
THEOREM OnlineMirrors == Spec => []OnlineMirrorsClients
<1>1. IInv => OnlineMirrorsClients
  BY DEF IInv, OnlineUpToSubject, OnlineMirrorsClients, Received
<1> QED BY <1>1, Invariant, PTL

\* members and topicUserRoom agree always; at every select of Run the members
\* have connections, but for those who joined after losing theirs.
THEOREM RoomMapsAgree == Spec => []RoomsAgree
<1>1. IInv => RoomsAgree
  BY DEF IInv, RoomsUpToSubject, RoomsAgree
<1> QED BY <1>1, Invariant, PTL

\* unregisterClient never removes a connection that is not the one it was asked
\* to remove, and registerClient is all that overwrites an entry.
THEOREM ReplacementStays == Spec => StaleCannotRemoveReplacement
<1> DEFINE Stays == \A u \in Users :
       clients[u] # NoClient /\ clients'[u] # clients[u] /\ faults' = faults =>
         \/ pc[Hub] = "register" /\ clients'[u] = subject
         \/ pc[Hub] = "unregister" /\ clients'[u] = NoClient /\ clients[u] = subject
<1>1. IInv /\ [Next]_vars => Stays
  <2> SUFFICES ASSUME IInv, [Next]_vars,
                      NEW u \in Users, clients[u] # NoClient, clients'[u] # clients[u],
                      faults' = faults
               PROVE \/ pc[Hub] = "register" /\ clients'[u] = subject
                     \/ pc[Hub] = "unregister" /\ clients'[u] = NoClient /\ clients[u] = subject
    OBVIOUS
  <2> USE HubAssumption DEF IInv, TypeOK, registry, redis, sockets, rooms
  <2>1. HubRegister \/ HubUnregister
    <3>1. CASE HubSetOnline \/ HubReplace \/ HubClose \/ HubLeaveRoom \/ HubSetOffline
      BY <3>1 DEF HubSetOnline, HubReplace, HubClose, HubLeaveRoom, HubSetOffline
    <3>2. ASSUME NEW cl \in Clients, ClientStep(cl) PROVE FALSE
      BY <3>2 DEF ClientStep, Connect, StartPumps, PeerClose, Request, HandleQuery, HandleRequest,
                  HandleTopic, HandleFollow, JoinTopicRoom, LeaveTopicRoom, Reply, ReadError,
                  WriteFrame, PingError, HubReceiveRegister
    <3>3. ASSUME NEW p \in Procs, Push(p) PROVE FALSE
      BY <3>3 DEF Push, BroadcastMembers, LookUp, TrySend, PushDone
    <3>4. ASSUME NEW p \in Procs, HubReceiveUnregister(p) PROVE FALSE
      BY <3>4 DEF HubReceiveUnregister
    <3>5. CASE Crash
      BY <3>5 DEF Crash, Fault
    <3>6. CASE UNCHANGED vars
      BY <3>6 DEF vars
    <3> QED BY <3>1, <3>2, <3>3, <3>4, <3>5, <3>6 DEF Next, HubStep, Procs
  <2>2. CASE HubRegister
    BY <2>2 DEF HubRegister, Placed
  <2>3. CASE HubUnregister
    BY <2>3 DEF HubUnregister, Placed
  <2> QED BY <2>1, <2>2, <2>3
<1>2. IInv /\ [Next]_vars => [Stays]_vars
  BY <1>1
<1> QED BY <1>2, Invariant, PTL DEF Spec, StaleCannotRemoveReplacement
=============================================================================
