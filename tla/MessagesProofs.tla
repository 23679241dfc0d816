---------------------------- MODULE MessagesProofs ----------------------------
(***************************************************************************)
(* Theorems about Messages, for any users, any number of requests at a     *)
(* time and of messages: the statements implement ConversationLog, unread  *)
(* counts are never too large, and every member gets every message.        *)
(***************************************************************************)
EXTENDS Messages, SequenceTheorems, FiniteSetTheorems, TLAPS

Fields == {"pc", "me", "item", "newest", "recipients", "unread", "cursor", "got"}

\* What the theorems need to know of a request's local variables.
IsRequest(r) == DOMAIN r = Fields /\ r.item \in Nat /\ r.newest \in Nat

ReqTyped == DOMAIN req = Requests /\ \A p \in Requests : IsRequest(req[p])

Typed ==
  /\ dissolved \in BOOLEAN /\ lastLocalID \in Nat
  /\ lastRead \in [Users -> Nat \cup {NotMember}]
  /\ messages \in Seq([localID : Nat, sender : Users])
  /\ rowLock \in Requests \cup {Free}
  /\ joinedAt \in [Users -> Nat]
  /\ ReqTyped

\* Local IDs are the positions in the table, and the row holds the last one.
Dense == lastLocalID = Len(messages) /\ \A i \in DOMAIN messages : messages[i].localID = i

\* A send holds the row's lock from its first read to its commit, so that what
\* it read, and then what it checked, stays true.
SendsHold ==
  \A p \in Requests :
    /\ At(p, "sendCheck") \/ At(p, "sendCommit") => rowLock = p /\ req[p].newest = lastLocalID
    /\ At(p, "sendCommit") => req[p].me \in Members /\ ~dissolved

\* No read position, and no mark or newest message that a request has read, is
\* past the newest message.
NotAhead ==
  /\ \A u \in Members : lastRead[u] <= lastLocalID
  /\ \A p \in Requests :
       /\ At(p, "markUpdate") => req[p].item <= lastLocalID
       /\ At(p, "markAnswer") => req[p].newest <= lastLocalID

IInv == Typed /\ Dense /\ SendsHold /\ NotAhead

\* A request that pushes has committed the message it pushes.
PushesItsOwn ==
  \A p \in Requests :
    At(p, "sendRecipients") \/ At(p, "push")
      => req[p].item \in DOMAIN messages /\ messages[req[p].item].sender = req[p].me

-----------------------------------------------------------------------------
\* What a row of the table holds.
LEMMA RowsTyped ==
  Typed => \A i \in DOMAIN messages : messages[i].localID \in Nat /\ messages[i].sender \in Users
<1> SUFFICES ASSUME Typed, NEW i \in DOMAIN messages
             PROVE  messages[i].localID \in Nat /\ messages[i].sender \in Users
  OBVIOUS
<1>1. messages \in Seq([localID : Nat, sender : Users])
  BY DEF Typed
<1>2. i \in 1 .. Len(messages)
  BY <1>1
<1>3. messages[i] \in [localID : Nat, sender : Users]
  BY <1>1, <1>2, ElementOfSeq, Zenon
<1> QED BY <1>3

\* A table whose local IDs are its positions is the log of its senders.
LEMMA DenseLog ==
  ASSUME NEW S, NEW t \in Seq([localID : Nat, sender : S]),
         \A i \in DOMAIN t : t[i].localID = i
  PROVE  LogOf(t) = [i \in 1 .. Len(t) |-> t[i].sender]
<1>1. \A m \in Range(t) : \E i \in 1 .. Len(t) : m = t[i] /\ m.localID = i
  BY DEF Range
<1>2. \A i \in 1 .. Len(t) : t[i] \in Range(t) /\ t[i].localID = i
  BY DEF Range
<1>3. {m.localID : m \in Range(t)} = 1 .. Len(t)
  BY <1>1, <1>2
<1>4. ASSUME NEW i \in 1 .. Len(t)
      PROVE  (CHOOSE m \in Range(t) : m.localID = i) = t[i]
  BY <1>1, <1>2, <1>4
<1>5. LogOf(t) = [i \in 1 .. Len(t) |-> (CHOOSE m \in Range(t) : m.localID = i).sender]
  BY <1>3, Zenon DEF LogOf
<1> QED BY <1>4, <1>5

LEMMA Initially == Init => IInv /\ PushesItsOwn
<1> SUFFICES ASSUME Init PROVE IInv /\ PushesItsOwn
  OBVIOUS
<1>1. Typed
  <2>1. lastRead \in [Users -> Nat \cup {NotMember}] /\ joinedAt \in [Users -> Nat]
    BY DEF Init
  <2>2. messages \in Seq([localID : Nat, sender : Users])
    BY DEF Init
  <2>3. IsRequest(Idle)
    BY DEF Idle, IsRequest, Fields
  <2>4. ReqTyped
    BY <2>3 DEF Init, ReqTyped
  <2> QED BY <2>1, <2>2, <2>4 DEF Init, Typed
<1>2. \A p \in Requests : req[p].pc = "idle"
  BY DEF Init, Idle
<1>3. Dense
  BY DEF Init, Dense
<1>4. SendsHold /\ NotAhead /\ PushesItsOwn
  BY <1>2, MessagesAssumption DEF Init, SendsHold, NotAhead, PushesItsOwn, At, Members
<1> QED BY <1>1, <1>3, <1>4 DEF IInv

\* Every step keeps the local variables of the requests in their types.
LEMMA ReqTypedStep == Typed /\ [Next]_vars => ReqTyped'
<1> SUFFICES ASSUME Typed, [Next]_vars PROVE ReqTyped'
  OBVIOUS
<1> USE DEF ReqTyped, IsRequest, Fields
<1>a. IsRequest(Idle)
  BY DEF Idle
<1>1. ASSUME NEW p \in Requests, RequestStep(p) PROVE ReqTyped'
  <2>1. ASSUME NEW u \in Users, SendArrive(p, u) PROVE ReqTyped'
    BY <2>1 DEF SendArrive, Arrive, Typed
  <2>2. ASSUME NEW u \in Users, ListArrive(p, u) PROVE ReqTyped'
    BY <2>2 DEF ListArrive, Arrive, Typed
  <2>3. ASSUME NEW u \in Users, NEW i \in DOMAIN messages, MarkLookup(p, u, i) PROVE ReqTyped'
    <3>1. messages[i].localID \in Nat
      BY RowsTyped
    <3> QED BY <2>3, <3>1 DEF MarkLookup, Typed
  <2>4. CASE SendLock(p)
    BY <2>4 DEF SendLock, Typed
  <2>5. CASE SendCheck(p)
    BY <2>5, <1>a DEF SendCheck, Goto, Finish, Typed
  <2>6. CASE SendCommit(p)
    <3>1. req[p].newest + 1 \in Nat
      BY DEF Typed
    <3>2. \/ req' = [req EXCEPT ![p] = Idle]
          \/ req' = [req EXCEPT ![p].pc = "sendRecipients", ![p].item = req[p].newest + 1]
      BY <2>6 DEF SendCommit, Finish
    <3> QED BY <3>1, <3>2, <1>a DEF Typed
  <2>7. CASE SendRecipients(p)
    BY <2>7 DEF SendRecipients, Goto, Typed
  <2>8. CASE Push(p)
    BY <2>8, <1>a DEF Push, Finish, Typed
  <2>9. CASE MarkUpdate(p)
    BY <2>9 DEF MarkUpdate, Goto, Typed
  <2>10. CASE MarkLast(p)
    BY <2>10 DEF MarkLast, Typed
  <2>11. CASE MarkAnswer(p)
    BY <2>11, <1>a DEF MarkAnswer, Finish, Typed
  <2>12. CASE ListCheck(p)
    BY <2>12, <1>a DEF ListCheck, Goto, Finish, Typed
  <2>13. CASE ListPage(p)
    BY <2>13 DEF ListPage, Typed
  <2>14. CASE Reply(p)
    BY <2>14, <1>a DEF Reply, Finish, Typed
  <2> QED
    BY <1>1, <2>1, <2>2, <2>3, <2>4, <2>5, <2>6, <2>7, <2>8, <2>9, <2>10, <2>11, <2>12, <2>13,
       <2>14 DEF RequestStep
<1>2. ASSUME NEW u \in Users, Join(u) \/ Leave(u) PROVE ReqTyped'
  BY <1>2 DEF Typed, Join, Leave
<1>3. CASE Dissolve
  BY <1>3 DEF Typed, Dissolve
<1>4. CASE UNCHANGED vars
  BY <1>4 DEF Typed, vars
<1> QED BY <1>1, <1>2, <1>3, <1>4 DEF Next

\* Every step keeps the types.
LEMMA TypedStep == Typed /\ SendsHold /\ [Next]_vars => Typed'
<1> SUFFICES ASSUME Typed, SendsHold, [Next]_vars, ReqTyped' PROVE Typed'
  BY ReqTypedStep
<1> USE MessagesAssumption
<1>1. ASSUME NEW p \in Requests, RequestStep(p) PROVE Typed'
  <2>1. ASSUME NEW u \in Users, SendArrive(p, u) PROVE Typed'
    BY <2>1 DEF SendArrive, Typed, conversation, history
  <2>2. ASSUME NEW u \in Users, ListArrive(p, u) PROVE Typed'
    BY <2>2 DEF ListArrive, Typed, conversation, history
  <2>3. ASSUME NEW u \in Users, NEW i \in DOMAIN messages, MarkLookup(p, u, i) PROVE Typed'
    BY <2>3 DEF MarkLookup, Typed, conversation, history
  <2>4. CASE SendLock(p)
    BY <2>4 DEF SendLock, Typed, conversation, history
  <2>5. CASE SendCheck(p)
    BY <2>5 DEF SendCheck, Typed, conversation, history
  <2>6. CASE SendCommit(p)
    <3>1. req[p].newest + 1 \in Nat
      BY DEF Typed, ReqTyped, IsRequest
    <3>2. [localID |-> req[p].newest + 1, sender |-> req[p].me] \in [localID : Nat, sender : Users]
      BY <2>6, <3>1 DEF SendsHold, SendCommit, At, Members
    <3>3. messages' = messages \/ messages' = Append(messages, [localID |-> req[p].newest + 1, sender |-> req[p].me])
      BY <2>6 DEF SendCommit
    <3>4. Append(messages, [localID |-> req[p].newest + 1, sender |-> req[p].me])
            \in Seq([localID : Nat, sender : Users])
      BY <3>2 DEF Typed
    <3>5. messages' \in Seq([localID : Nat, sender : Users])
      BY <3>3, <3>4 DEF Typed
    <3>6. lastLocalID' \in Nat /\ rowLock' \in Requests \cup {Free}
      BY <2>6, <3>1 DEF SendCommit, Typed
    <3> QED BY <2>6, <3>5, <3>6 DEF SendCommit, Typed, history
  <2>7. CASE SendRecipients(p)
    BY <2>7 DEF SendRecipients, Typed, conversation, history
  <2>8. CASE Push(p)
    BY <2>8 DEF Push, Typed, conversation, history
  <2>9. CASE MarkUpdate(p)
    BY <2>9 DEF MarkUpdate, Typed, ReqTyped, IsRequest, conversation, history
  <2>10. CASE MarkLast(p)
    BY <2>10 DEF MarkLast, Typed, conversation, history
  <2>11. CASE MarkAnswer(p)
    BY <2>11 DEF MarkAnswer, Typed, conversation, history
  <2>12. CASE ListCheck(p)
    BY <2>12 DEF ListCheck, Typed, conversation, history
  <2>13. CASE ListPage(p)
    BY <2>13 DEF ListPage, Typed, conversation, history
  <2>14. CASE Reply(p)
    BY <2>14 DEF Reply, Typed, conversation, history
  <2> QED
    BY <1>1, <2>1, <2>2, <2>3, <2>4, <2>5, <2>6, <2>7, <2>8, <2>9, <2>10, <2>11, <2>12, <2>13,
       <2>14 DEF RequestStep
<1>2. ASSUME NEW u \in Users, Join(u) \/ Leave(u) PROVE Typed'
  <2>1. Len(messages) \in Nat
    BY DEF Typed
  <2>2. lastRead' \in [Users -> Nat \cup {NotMember}]
    BY <1>2 DEF Typed, Join, Leave
  <2>3. joinedAt' \in [Users -> Nat]
    BY <1>2, <2>1 DEF Typed, Join, Leave
  <2> QED BY <1>2, <2>2, <2>3 DEF Typed, Join, Leave, conversation
<1>3. CASE Dissolve
  BY <1>3 DEF Typed, Dissolve, history
<1>4. CASE UNCHANGED vars
  BY <1>4 DEF Typed, vars, conversation, history
<1> QED BY <1>1, <1>2, <1>3, <1>4 DEF Next

\* A step that commits no message leaves the table and the row's last ID alone.
LEMMA TableUnchanged ==
  ASSUME [Next]_vars, ~ \E p \in Requests : SendCommit(p)
  PROVE  messages' = messages /\ lastLocalID' = lastLocalID
<1>1. ASSUME NEW p \in Requests, RequestStep(p), ~SendCommit(p)
      PROVE  messages' = messages /\ lastLocalID' = lastLocalID
  BY <1>1 DEF RequestStep, SendArrive, ListArrive, MarkLookup, SendLock, SendCheck, SendRecipients,
       Push, MarkUpdate, MarkLast, MarkAnswer, ListCheck, ListPage, Reply, conversation
<1> QED BY <1>1 DEF Next, Join, Leave, Dissolve, vars, conversation

\* A commit appends one row: its check of the unique index passes because the
\* local ID that the request read is still the last one.
LEMMA CommitAppends ==
  ASSUME IInv, NEW p \in Requests, SendCommit(p)
  PROVE  /\ messages' = Append(messages, [localID |-> lastLocalID + 1, sender |-> req[p].me])
         /\ lastLocalID' = lastLocalID + 1
         /\ req' = [req EXCEPT ![p].pc = "sendRecipients", ![p].item = lastLocalID + 1]
         /\ req[p].me \in Members /\ ~dissolved
<1>1. req[p].newest = lastLocalID /\ req[p].me \in Members /\ ~dissolved
  BY DEF IInv, SendsHold, SendCommit
<1>2. lastLocalID \in Nat /\ lastLocalID = Len(messages) /\ DOMAIN messages = 1 .. Len(messages)
  BY DEF IInv, Typed, Dense
<1>3. \A i \in DOMAIN messages : messages[i].localID # req[p].newest + 1
  BY <1>1, <1>2 DEF IInv, Dense
<1> QED BY <1>1, <1>3 DEF SendCommit

LEMMA DenseStep == IInv /\ [Next]_vars => Dense'
<1> SUFFICES ASSUME IInv, [Next]_vars PROVE Dense'
  OBVIOUS
<1>1. ASSUME NEW p \in Requests, SendCommit(p) PROVE Dense'
  <2> DEFINE row == [localID |-> lastLocalID + 1, sender |-> req[p].me]
  <2>1. messages' = Append(messages, row) /\ lastLocalID' = lastLocalID + 1
    BY <1>1, CommitAppends
  <2>2. row.localID = lastLocalID + 1
    OBVIOUS
  <2>3. messages \in Seq([localID : Nat, sender : Users]) /\ lastLocalID = Len(messages)
        /\ \A i \in 1 .. Len(messages) : messages[i].localID = i
    BY DEF IInv, Typed, Dense
  <2> HIDE DEF row
  <2>4. Len(messages') = Len(messages) + 1 /\ DOMAIN messages' = 1 .. Len(messages) + 1
    BY <2>1, <2>3
  <2>5. \A i \in 1 .. Len(messages) + 1 :
          messages'[i] = IF i = Len(messages) + 1 THEN row ELSE messages[i]
    BY <2>1, <2>3
  <2> QED BY <2>1, <2>2, <2>3, <2>4, <2>5 DEF Dense
<1>2. CASE ~ \E p \in Requests : SendCommit(p)
  BY <1>2, TableUnchanged DEF IInv, Dense
<1> QED BY <1>1, <1>2

\* What a request reads under the lock stays true until it commits: another
\* request, a join, a leave and a dissolution all wait for the lock.
LEMMA SendsHoldStep == IInv /\ [Next]_vars => SendsHold'
<1> SUFFICES ASSUME IInv, [Next]_vars PROVE SendsHold'
  OBVIOUS
<1> USE MessagesAssumption DEF SendsHold, At, Members
<1>a. SendsHold /\ Typed /\ ReqTyped /\ \A q \in Requests : DOMAIN req[q] = Fields
  BY DEF IInv, Typed, ReqTyped, IsRequest
<1>1. ASSUME NEW p \in Requests, RequestStep(p) PROVE SendsHold'
  <2>1. ASSUME NEW u \in Users, SendArrive(p, u) PROVE SendsHold'
    BY <2>1, <1>a DEF SendArrive, Arrive, ReqTyped, Fields, conversation
  <2>2. ASSUME NEW u \in Users, ListArrive(p, u) PROVE SendsHold'
    BY <2>2, <1>a DEF ListArrive, Arrive, ReqTyped, Fields, conversation
  <2>3. ASSUME NEW u \in Users, NEW i \in DOMAIN messages, MarkLookup(p, u, i) PROVE SendsHold'
    BY <2>3, <1>a DEF MarkLookup, ReqTyped, Fields, conversation
  <2>4. CASE SendLock(p)
    BY <2>4, <1>a DEF SendLock, Goto, Finish, Idle, ReqTyped, Fields, conversation
  <2>5. CASE SendCheck(p)
    BY <2>5, <1>a DEF SendCheck, Goto, Finish, Idle, ReqTyped, Fields, conversation
  <2>6. CASE SendCommit(p)
    BY <2>6, <1>a DEF SendCommit, Goto, Finish, Idle, ReqTyped, Fields, conversation
  <2>7. CASE SendRecipients(p)
    BY <2>7, <1>a DEF SendRecipients, Goto, Finish, Idle, ReqTyped, Fields, conversation
  <2>8. CASE Push(p)
    BY <2>8, <1>a DEF Push, Goto, Finish, Idle, ReqTyped, Fields, conversation
  <2>9. CASE MarkUpdate(p)
    <3>1. req[p].item # NotMember /\ DOMAIN lastRead = Users
      BY <1>a DEF ReqTyped, IsRequest, Typed
    <3>2. \A v \in Users : lastRead'[v] # NotMember <=> lastRead[v] # NotMember
      BY <2>9, <3>1 DEF MarkUpdate
    <3>3. \A q \in Requests : /\ req'[q].me = req[q].me /\ req'[q].newest = req[q].newest
                             /\ req'[q].pc \in {req[q].pc, "markLast"}
      BY <2>9, <1>a DEF MarkUpdate, Goto, ReqTyped, Fields
    <3> QED BY <2>9, <1>a, <3>2, <3>3 DEF MarkUpdate, conversation
  <2>10. CASE MarkLast(p)
    BY <2>10, <1>a DEF MarkLast, Goto, Finish, Idle, ReqTyped, Fields, conversation
  <2>11. CASE MarkAnswer(p)
    BY <2>11, <1>a DEF MarkAnswer, Goto, Finish, Idle, ReqTyped, Fields, conversation
  <2>12. CASE ListCheck(p)
    BY <2>12, <1>a DEF ListCheck, Goto, Finish, Idle, ReqTyped, Fields, conversation
  <2>13. CASE ListPage(p)
    BY <2>13, <1>a DEF ListPage, Goto, Finish, Idle, ReqTyped, Fields, conversation
  <2>14. CASE Reply(p)
    BY <2>14, <1>a DEF Reply, Goto, Finish, Idle, ReqTyped, Fields, conversation
  <2> QED
    BY <1>1, <2>1, <2>2, <2>3, <2>4, <2>5, <2>6, <2>7, <2>8, <2>9, <2>10, <2>11, <2>12, <2>13,
       <2>14 DEF RequestStep
<1>2. ASSUME NEW u \in Users, Join(u) \/ Leave(u) PROVE SendsHold'
  BY <1>2, <1>a DEF Join, Leave, Locked, conversation
<1>3. CASE Dissolve
  BY <1>3, <1>a DEF Dissolve, Locked
<1>4. CASE UNCHANGED vars
  BY <1>4, <1>a DEF vars, conversation
<1> QED BY <1>1, <1>2, <1>3, <1>4 DEF Next

\* No read position and no mark gets ahead of the newest message.
LEMMA NotAheadStep == IInv /\ [Next]_vars => NotAhead'
<1> SUFFICES ASSUME IInv, [Next]_vars PROVE NotAhead'
  OBVIOUS
<1> USE MessagesAssumption DEF NotAhead, At, Members
<1>a. NotAhead /\ Typed /\ ReqTyped /\ \A q \in Requests : DOMAIN req[q] = Fields
  BY DEF IInv, Typed, ReqTyped, IsRequest
<1>b. /\ lastLocalID \in Nat
      /\ \A u \in Users : lastRead[u] # NotMember => lastRead[u] \in Nat
      /\ \A q \in Requests : req[q].item \in Nat /\ req[q].newest \in Nat
  BY DEF IInv, Typed, ReqTyped, IsRequest
<1>1. ASSUME NEW p \in Requests, RequestStep(p) PROVE NotAhead'
  <2>1. ASSUME NEW u \in Users, SendArrive(p, u) PROVE NotAhead'
    BY <2>1, <1>a, <1>b DEF SendArrive, Arrive, ReqTyped, Fields, conversation
  <2>2. ASSUME NEW u \in Users, ListArrive(p, u) PROVE NotAhead'
    BY <2>2, <1>a, <1>b DEF ListArrive, Arrive, ReqTyped, Fields, conversation
  <2>3. ASSUME NEW u \in Users, NEW i \in DOMAIN messages, MarkLookup(p, u, i) PROVE NotAhead'
    <3>1. messages[i].localID <= lastLocalID
      BY DEF IInv, Dense, Typed
    <3> QED BY <2>3, <3>1, <1>a, <1>b DEF MarkLookup, ReqTyped, Fields, conversation
  <2>4. CASE SendLock(p)
    BY <2>4, <1>a, <1>b DEF SendLock, Goto, Finish, Idle, ReqTyped, Fields, conversation
  <2>5. CASE SendCheck(p)
    BY <2>5, <1>a, <1>b DEF SendCheck, Goto, Finish, Idle, ReqTyped, Fields, conversation
  <2>6. CASE SendCommit(p)
    <3>1. /\ lastLocalID' = lastLocalID + 1 /\ lastRead' = lastRead
          /\ req' = [req EXCEPT ![p].pc = "sendRecipients", ![p].item = lastLocalID + 1]
      BY <2>6, CommitAppends DEF SendCommit
    <3> QED BY <3>1, <1>a, <1>b DEF ReqTyped, Fields
  <2>7. CASE SendRecipients(p)
    BY <2>7, <1>a, <1>b DEF SendRecipients, Goto, Finish, Idle, ReqTyped, Fields, conversation
  <2>8. CASE Push(p)
    BY <2>8, <1>a, <1>b DEF Push, Goto, Finish, Idle, ReqTyped, Fields, conversation
  <2>9. CASE MarkUpdate(p)
    BY <2>9, <1>a, <1>b DEF MarkUpdate, Goto, Finish, Idle, ReqTyped, Fields, conversation
  <2>10. CASE MarkLast(p)
    BY <2>10, <1>a, <1>b DEF MarkLast, Goto, Finish, Idle, ReqTyped, Fields, conversation
  <2>11. CASE MarkAnswer(p)
    BY <2>11, <1>a, <1>b DEF MarkAnswer, Goto, Finish, Idle, ReqTyped, Fields, conversation
  <2>12. CASE ListCheck(p)
    BY <2>12, <1>a, <1>b DEF ListCheck, Goto, Finish, Idle, ReqTyped, Fields, conversation
  <2>13. CASE ListPage(p)
    BY <2>13, <1>a, <1>b DEF ListPage, Goto, Finish, Idle, ReqTyped, Fields, conversation
  <2>14. CASE Reply(p)
    BY <2>14, <1>a, <1>b DEF Reply, Goto, Finish, Idle, ReqTyped, Fields, conversation
  <2> QED
    BY <1>1, <2>1, <2>2, <2>3, <2>4, <2>5, <2>6, <2>7, <2>8, <2>9, <2>10, <2>11, <2>12, <2>13,
       <2>14 DEF RequestStep
<1>2. ASSUME NEW u \in Users, Join(u) \/ Leave(u) PROVE NotAhead'
  <2>1. DOMAIN lastRead = Users /\ lastLocalID' = lastLocalID /\ req' = req
    BY <1>2 DEF IInv, Typed, Join, Leave, conversation
  <2>2. \A v \in Users : lastRead'[v] \in {lastRead[v], 0, NotMember}
    BY <1>2, <2>1 DEF Join, Leave
  <2> QED BY <2>1, <2>2, <1>a, <1>b
<1>3. CASE Dissolve
  BY <1>3, <1>a DEF Dissolve
<1>4. CASE UNCHANGED vars
  BY <1>4, <1>a DEF vars, conversation
<1> QED BY <1>1, <1>2, <1>3, <1>4 DEF Next

LEMMA Invariant == Spec => []IInv
<1>1. IInv /\ [Next]_vars => IInv'
  BY TypedStep, DenseStep, SendsHoldStep, NotAheadStep DEF IInv
<1> QED BY Initially, <1>1, PTL DEF Spec

-----------------------------------------------------------------------------
\* A step of one request leaves the local variables of the others alone.
LEMMA OthersUnchanged ==
  ASSUME Typed, NEW p \in Requests, RequestStep(p), NEW q \in Requests \ {p}
  PROVE  req'[q] = req[q]
BY DEF Typed, ReqTyped, RequestStep, SendArrive, ListArrive, Arrive, MarkLookup, SendLock, SendCheck,
     SendCommit, SendRecipients, Push, MarkUpdate, MarkLast, MarkAnswer, ListCheck, ListPage,
     Reply, Goto, Finish

\* What a step of a request other than a commit does to a send that has
\* committed: it reads its recipients, pushes to one of them, or is done.
LEMMA SentOnly ==
  ASSUME Typed, NEW p \in Requests, RequestStep(p), ~SendCommit(p)
  PROVE  \/ SendRecipients(p) \/ Push(p)
         \/ /\ ~At(p, "sendRecipients") /\ ~At(p, "push")
            /\ ~At(p, "sendRecipients")' /\ ~At(p, "push")'
            /\ pushed' = pushed
<1> USE DEF Typed, ReqTyped, IsRequest, Fields, At, Arrive, Goto, Finish, Idle, history
<1>1. ASSUME NEW u \in Users, SendArrive(p, u) \/ ListArrive(p, u)
      PROVE  /\ ~At(p, "sendRecipients") /\ ~At(p, "push")
             /\ ~At(p, "sendRecipients")' /\ ~At(p, "push")' /\ pushed' = pushed
  BY <1>1 DEF SendArrive, ListArrive
<1>2. ASSUME NEW u \in Users, NEW i \in DOMAIN messages, MarkLookup(p, u, i)
      PROVE  /\ ~At(p, "sendRecipients") /\ ~At(p, "push")
             /\ ~At(p, "sendRecipients")' /\ ~At(p, "push")' /\ pushed' = pushed
  BY <1>2 DEF MarkLookup
<1>3. ASSUME SendLock(p) \/ SendCheck(p) \/ MarkUpdate(p) \/ MarkLast(p) \/ MarkAnswer(p)
             \/ ListCheck(p) \/ Reply(p)
      PROVE  /\ ~At(p, "sendRecipients") /\ ~At(p, "push")
             /\ ~At(p, "sendRecipients")' /\ ~At(p, "push")' /\ pushed' = pushed
  BY <1>3 DEF SendLock, SendCheck, MarkUpdate, MarkLast, MarkAnswer, ListCheck, Reply
<1>4. ASSUME ListPage(p)
      PROVE  /\ ~At(p, "sendRecipients") /\ ~At(p, "push")
             /\ ~At(p, "sendRecipients")' /\ ~At(p, "push")' /\ pushed' = pushed
  BY <1>4 DEF ListPage
<1> QED BY <1>1, <1>2, <1>3, <1>4 DEF RequestStep

\* The table only grows at its end.
LEMMA RowsStay ==
  ASSUME IInv, [Next]_vars
  PROVE  /\ DOMAIN messages \subseteq DOMAIN messages'
         /\ \A i \in DOMAIN messages : messages'[i] = messages[i]
<1>1. messages \in Seq([localID : Nat, sender : Users])
  BY DEF IInv, Typed
<1>2. ASSUME NEW p \in Requests, SendCommit(p)
      PROVE  /\ DOMAIN messages \subseteq DOMAIN messages'
             /\ \A i \in DOMAIN messages : messages'[i] = messages[i]
  <2> DEFINE row == [localID |-> lastLocalID + 1, sender |-> req[p].me]
  <2>1. messages' = Append(messages, row)
    BY <1>2, CommitAppends
  <2> HIDE DEF row
  <2> QED BY <1>1, <2>1
<1> QED BY <1>2, TableUnchanged

LEMMA PushesItsOwnStep == IInv /\ PushesItsOwn /\ [Next]_vars => PushesItsOwn'
<1> SUFFICES ASSUME IInv, PushesItsOwn, [Next]_vars PROVE PushesItsOwn'
  OBVIOUS
<1>a. Typed /\ ReqTyped /\ \A q \in Requests : DOMAIN req[q] = Fields
  BY DEF IInv, Typed, ReqTyped, IsRequest
<1>1. ASSUME NEW p \in Requests, RequestStep(p) PROVE PushesItsOwn'
  <2>1. \A q \in Requests \ {p} : req'[q] = req[q]
    BY <1>1, <1>a, OthersUnchanged
  <2>2. SUFFICES At(p, "sendRecipients")' \/ At(p, "push")'
                   => req'[p].item \in DOMAIN messages' /\ messages'[req'[p].item].sender = req'[p].me
    BY <2>1, RowsStay DEF PushesItsOwn, At
  <2>3. CASE SendCommit(p)
    <3>1. req'[p].item = lastLocalID + 1 /\ req'[p].me = req[p].me
      <4>1. req' = [req EXCEPT ![p].pc = "sendRecipients", ![p].item = lastLocalID + 1]
        BY <2>3, CommitAppends
      <4> QED BY <4>1, <1>a DEF ReqTyped, Fields
    <3>2. messages \in Seq([localID : Nat, sender : Users]) /\ Len(messages) = lastLocalID
      BY DEF IInv, Typed, Dense
    <3>3. messages' = Append(messages, [localID |-> lastLocalID + 1, sender |-> req[p].me])
      BY <2>3, CommitAppends
    <3>4. lastLocalID + 1 \in DOMAIN messages'
          /\ messages'[lastLocalID + 1] = [localID |-> lastLocalID + 1, sender |-> req[p].me]
      BY <3>2, <3>3
    <3> QED BY <3>1, <3>4
  <2>4. CASE SendRecipients(p) \/ Push(p)
    BY <2>4, <1>a, RowsStay
    DEF SendRecipients, Push, Goto, Finish, Idle, PushesItsOwn, At, ReqTyped, Fields
  <2> QED BY <1>1, <1>a, <2>3, <2>4, SentOnly
<1>2. CASE req' = req
  BY <1>2, RowsStay DEF PushesItsOwn, At
<1> QED BY <1>1, <1>2 DEF Next, Join, Leave, Dissolve, vars

\* One message for one member: it is handed to SendToUser, or about to be.
Underway(i, u) ==
  \E p \in Requests :
    /\ req[p].item = i
    /\ At(p, "sendRecipients") \/ (At(p, "push") /\ u \in req[p].recipients)

\* A request that has read its recipients has all of them still to push to; one
\* that pushes leaves out nobody but the user it pushes to.
LEMMA UnderwayStep ==
  ASSUME IInv, PushesItsOwn, NEW p \in Requests, RequestStep(p),
         NEW i \in DOMAIN messages \ unpushed', NEW u \in Members, Underway(i, u)
  PROVE  u = messages[i].sender \/ <<u, i>> \in pushed' \/ Underway(i, u)'
<1>a. Typed /\ ReqTyped /\ DOMAIN req[p] = Fields
  BY DEF IInv, Typed, ReqTyped, IsRequest
<1>1. PICK q \in Requests :
        /\ req[q].item = i
        /\ req[q].pc = "sendRecipients" \/ (req[q].pc = "push" /\ u \in req[q].recipients)
  BY DEF Underway, At
<1>2. CASE q # p
  <2>1. req'[q] = req[q]
    BY <1>2, <1>a, OthersUnchanged
  <2> QED BY <1>1, <2>1 DEF Underway, At
<1>3. CASE q = p /\ SendRecipients(p)
  <2>1. messages[i].sender = req[p].me
    BY <1>1, <1>3 DEF PushesItsOwn, SendRecipients, At
  <2>2. req'[p].item = i /\ req'[p].pc = "push" /\ req'[p].recipients = Members \ {req[p].me}
    <3>1. req[p].item = i /\ req[p].item \notin unpushed'
      BY <1>1, <1>3
    <3>2. req' = [req EXCEPT ![p].pc = "push", ![p].recipients = Members \ {req[p].me}]
      BY <1>3, <3>1 DEF SendRecipients
    <3> QED BY <3>1, <3>2, <1>a DEF ReqTyped, Fields
  <2> QED BY <2>1, <2>2 DEF Underway, At
<1>4. CASE q = p /\ Push(p)
  <2>1. u \in req[p].recipients /\ req[p].item = i /\ req[p].pc = "push"
    BY <1>1, <1>4 DEF Push, At
  <2>2. PICK v \in req[p].recipients :
          /\ pushed' = pushed \cup {<<v, i>>}
          /\ req' = [req EXCEPT ![p].recipients = @ \ {v}]
    BY <1>4, <2>1 DEF Push
  <2>3. CASE v = u
    BY <2>2, <2>3
  <2>4. CASE v # u
    <3>1. req'[p].item = i /\ req'[p].pc = "push" /\ u \in req'[p].recipients
      BY <2>1, <2>2, <2>4, <1>a DEF ReqTyped, Fields
    <3> QED BY <3>1 DEF Underway, At
  <2> QED BY <2>3, <2>4
<1>5. CASE q = p /\ SendCommit(p)
  BY <1>1, <1>5 DEF SendCommit, At
<1>6. SendCommit(p) \/ SendRecipients(p) \/ Push(p) \/ (~At(p, "sendRecipients") /\ ~At(p, "push"))
  BY <1>a, SentOnly, Zenon
<1>7. CASE q = p /\ ~At(p, "sendRecipients") /\ ~At(p, "push")
  BY <1>1, <1>7 DEF At
<1> QED BY <1>2, <1>3, <1>4, <1>5, <1>6, <1>7

\* Only a commit adds a message, and it is a request's.
LEMMA CommitsOnly ==
  ASSUME NEW p \in Requests, RequestStep(p), messages' # messages
  PROVE  SendCommit(p)
BY DEF RequestStep, SendArrive, ListArrive, MarkLookup, SendLock, SendCheck, SendRecipients,
     Push, MarkUpdate, MarkLast, MarkAnswer, ListCheck, ListPage, Reply

\* No request makes or unmakes a member, or takes a push back.
LEMMA MembersStay ==
  ASSUME Typed, NEW p \in Requests, RequestStep(p)
  PROVE  /\ Members' = Members /\ joinedAt' = joinedAt
         /\ pushed \subseteq pushed' /\ unpushed \subseteq unpushed'
<1>1. CASE MarkUpdate(p)
  <2>1. DOMAIN lastRead = Users /\ req[p].item # NotMember
    BY MessagesAssumption DEF Typed, ReqTyped, IsRequest
  <2>2. lastRead' = lastRead \/ /\ lastRead' = [lastRead EXCEPT ![req[p].me] = req[p].item]
                                /\ lastRead[req[p].me] # NotMember
    BY <1>1 DEF MarkUpdate, Members
  <2>3. \A v \in Users : lastRead'[v] # NotMember <=> lastRead[v] # NotMember
    BY <2>1, <2>2
  <2> QED BY <1>1, <2>3 DEF MarkUpdate, Members, history
<1>2. CASE ~MarkUpdate(p)
  BY <1>2 DEF RequestStep, SendArrive, ListArrive, MarkLookup, SendLock, SendCheck, SendCommit,
       SendRecipients, Push, MarkLast, MarkAnswer, ListCheck, ListPage, Reply, history, Members
<1> QED BY <1>1, <1>2

\* A message whose recipients were not found is there.
UnpushedThere == unpushed \subseteq DOMAIN messages

LEMMA UnpushedThereStep ==
  IInv /\ PushesItsOwn /\ UnpushedThere /\ [Next]_vars => UnpushedThere'
<1> SUFFICES ASSUME IInv, PushesItsOwn, UnpushedThere, [Next]_vars PROVE UnpushedThere'
  OBVIOUS
<1>1. DOMAIN messages \subseteq DOMAIN messages'
  BY RowsStay
<1>2. ASSUME NEW p \in Requests, SendRecipients(p) PROVE UnpushedThere'
  <2>1. req[p].item \in DOMAIN messages
    BY <1>2 DEF PushesItsOwn, SendRecipients
  <2> QED BY <1>1, <1>2, <2>1 DEF SendRecipients, UnpushedThere
<1>3. ASSUME NEW p \in Requests, RequestStep(p), ~SendRecipients(p) PROVE unpushed' = unpushed
  BY <1>3 DEF RequestStep, SendArrive, ListArrive, MarkLookup, SendLock, SendCheck, SendCommit,
       Push, MarkUpdate, MarkLast, MarkAnswer, ListCheck, ListPage, Reply, history
<1>4. ASSUME unpushed' = unpushed PROVE UnpushedThere'
  BY <1>1, <1>4 DEF UnpushedThere
<1> QED BY <1>2, <1>3, <1>4 DEF Next, Join, Leave, Dissolve, vars, history

LEMMA EveryMemberStep ==
  IInv /\ PushesItsOwn /\ MembersGetTheirMessages /\ [Next]_vars => MembersGetTheirMessages'
<1> SUFFICES ASSUME IInv, PushesItsOwn, MembersGetTheirMessages, [Next]_vars,
                    NEW i \in DOMAIN messages' \ unpushed', NEW u \in Members'
             PROVE  \/ u = messages'[i].sender \/ joinedAt'[u] >= i \/ <<u, i>> \in pushed'
                    \/ Underway(i, u)'
  BY DEF MembersGetTheirMessages, Underway
<1>a. Typed /\ ReqTyped /\ DOMAIN messages = 1 .. Len(messages) /\ Len(messages) \in Nat
  BY DEF IInv, Typed
<1>b. ASSUME i \in DOMAIN messages, i \notin unpushed, u \in Members
      PROVE  \/ u = messages[i].sender \/ joinedAt[u] >= i \/ <<u, i>> \in pushed
             \/ Underway(i, u)
  BY <1>b DEF MembersGetTheirMessages, Underway
<1>1. ASSUME NEW p \in Requests, RequestStep(p), i \in DOMAIN messages
      PROVE  \/ u = messages'[i].sender \/ joinedAt'[u] >= i \/ <<u, i>> \in pushed'
             \/ Underway(i, u)'
  <2>1. /\ Members' = Members /\ joinedAt' = joinedAt /\ pushed \subseteq pushed'
        /\ i \notin unpushed
    BY <1>1, <1>a, MembersStay
  <2>2. messages'[i] = messages[i]
    BY <1>1, RowsStay
  <2>3. CASE Underway(i, u)
    BY <1>1, <2>1, <2>2, <2>3, UnderwayStep, Zenon
  <2> QED BY <1>1, <1>b, <2>1, <2>2, <2>3
<1>2. ASSUME NEW p \in Requests, RequestStep(p), i \notin DOMAIN messages
      PROVE  Underway(i, u)'
  <2>1. SendCommit(p)
    BY <1>2, CommitsOnly
  <2>2. messages' = Append(messages, [localID |-> lastLocalID + 1, sender |-> req[p].me])
        /\ req' = [req EXCEPT ![p].pc = "sendRecipients", ![p].item = lastLocalID + 1]
    BY <2>1, CommitAppends
  <2>3. messages \in Seq([localID : Nat, sender : Users]) /\ Len(messages) = lastLocalID
    BY DEF IInv, Typed, Dense
  <2>4. i = lastLocalID + 1
    BY <1>2, <1>a, <2>2, <2>3
  <2>5. req'[p].item = i /\ req'[p].pc = "sendRecipients"
    BY <2>2, <2>4, <1>a DEF ReqTyped, IsRequest, Fields
  <2> QED BY <2>5 DEF Underway, At
<1>3. ASSUME NEW v \in Users, Join(v) \/ Leave(v)
      PROVE  \/ u = messages'[i].sender \/ joinedAt'[u] >= i \/ <<u, i>> \in pushed'
             \/ Underway(i, u)'
  <2>1. messages' = messages /\ pushed' = pushed /\ req' = req /\ unpushed' = unpushed
    BY <1>3 DEF Join, Leave
  <2>2. CASE u = v
    <3>1. Join(v)
      BY <1>3, <1>a, <2>2 DEF Leave, Members, Typed
    <3> QED BY <3>1, <2>1, <2>2, <1>a DEF Join, Typed
  <2>3. CASE u # v
    <3>1. u \in Members /\ joinedAt'[u] = joinedAt[u]
      BY <1>3, <2>3, <1>a DEF Join, Leave, Members, Typed
    <3> QED BY <3>1, <2>1, <1>b DEF Underway, At
  <2> QED BY <2>2, <2>3
<1>4. CASE Dissolve \/ UNCHANGED vars
  <2>1. /\ messages' = messages /\ pushed' = pushed /\ req' = req
        /\ joinedAt' = joinedAt /\ lastRead' = lastRead /\ unpushed' = unpushed
    BY <1>4 DEF Dissolve, vars, history
  <2> QED BY <2>1, <1>b DEF Underway, At, Members
<1> QED BY <1>1, <1>2, <1>3, <1>4 DEF Next

\* Whoever has been a member since before a message was committed has had it
\* pushed, or the send of it is still under way, unless the message's recipients
\* could not be read or its commit was not heard of: for any number of users,
\* of requests at a time and of messages.
THEOREM EveryMember == Spec => []MembersGetTheirMessages
<1>1. Init => MembersGetTheirMessages
  BY DEF Init, MembersGetTheirMessages
<1>2. IInv /\ PushesItsOwn /\ MembersGetTheirMessages /\ [Next]_vars
        => PushesItsOwn' /\ MembersGetTheirMessages'
  BY PushesItsOwnStep, EveryMemberStep
<1> QED BY Initially, Invariant, <1>1, <1>2, PTL DEF Spec

-----------------------------------------------------------------------------
\* The unread count answered to a member is never larger than the true one:
\* the newest local ID was read before, and read positions only advance.
THEOREM UnreadSound == Spec => UnreadNeverOverstated
<1> DEFINE Sound(p) == At(p, "markAnswer") /\ req'[p].pc = "answered"
                         => req'[p].unread <= lastLocalID - lastRead[req[p].me]
<1>1. ASSUME IInv, [Next]_vars, NEW p \in Requests PROVE Sound(p)
  <2>a. Typed /\ ReqTyped /\ DOMAIN req[p] = Fields
    BY <1>1 DEF IInv, Typed, ReqTyped, IsRequest
  <2>1. CASE MarkAnswer(p)
    <3>1. req[p].newest \in Nat /\ lastLocalID \in Nat /\ req[p].newest <= lastLocalID
      BY <1>1, <2>1 DEF IInv, Typed, ReqTyped, IsRequest, NotAhead, MarkAnswer
    <3>2. CASE req[p].me \in Members
      <4>1. lastRead[req[p].me] \in Nat /\ lastRead[req[p].me] <= lastLocalID
        BY <1>1, <3>2 DEF IInv, Typed, NotAhead, Members
      <4>2. req'[p].unread = Unread(req[p].newest, lastRead[req[p].me])
        BY <2>1, <2>a, <3>2 DEF MarkAnswer, ReqTyped, Fields
      <4> QED BY <3>1, <4>1, <4>2 DEF Unread
    <3>3. CASE req[p].me \notin Members
      <4>1. req'[p].pc = "idle"
        BY <2>1, <2>a, <3>3 DEF MarkAnswer, Finish, Idle, ReqTyped
      <4> QED BY <4>1
    <3> QED BY <3>2, <3>3
  <2>2. ASSUME NEW q \in Requests, RequestStep(q), q # p PROVE Sound(p)
    <3>1. req'[p] = req[p]
      BY <2>2, <2>a, OthersUnchanged
    <3> QED BY <3>1 DEF At
  <2>3. CASE RequestStep(p) /\ ~MarkAnswer(p)
    BY <2>3 DEF RequestStep, SendArrive, ListArrive, Arrive, MarkLookup, SendLock, SendCheck,
         SendCommit, SendRecipients, Push, MarkUpdate, MarkLast, ListCheck, ListPage, Reply, At
  <2>4. CASE req' = req
    BY <2>4 DEF At
  <2> QED BY <1>1, <2>1, <2>2, <2>3, <2>4 DEF Next, Join, Leave, Dissolve, vars
<1>2. IInv /\ [Next]_vars => [\A p \in Requests : At(p, "markAnswer") /\ req'[p].pc = "answered"
                                 => req'[p].unread <= lastLocalID - lastRead[req[p].me]]_vars
  BY <1>1
<1> QED BY Invariant, <1>2, PTL DEF Spec, UnreadNeverOverstated

-----------------------------------------------------------------------------
LEMMA LogInitially == Init => Log!Init
<1> SUFFICES ASSUME Init PROVE Log!Init
  OBVIOUS
<1>1. messages = <<>> /\ messages \in Seq([localID : Nat, sender : Users])
  BY DEF Init
<1>2. \A i \in DOMAIN messages : messages[i].localID = i
  BY <1>1
<1>3. LogOf(messages) = [i \in 1 .. Len(messages) |-> messages[i].sender]
  BY <1>1, <1>2, DenseLog, Zenon
<1>4. LogOf(messages) = <<>>
  BY <1>1, <1>3
<1> QED BY <1>4 DEF Init, Log!Init

\* A commit is one message of a member at the end of the log.
LEMMA CommitPosts ==
  ASSUME IInv, Typed', Dense', NEW p \in Requests, SendCommit(p)
  PROVE  Log!Post(req[p].me)
<1> DEFINE row == [localID |-> lastLocalID + 1, sender |-> req[p].me]
<1>1. /\ messages' = Append(messages, row) /\ lastLocalID' = lastLocalID + 1
      /\ req[p].me \in Members /\ ~dissolved
  BY CommitAppends
<1>2. /\ messages \in Seq([localID : Nat, sender : Users])
      /\ messages' \in Seq([localID : Nat, sender : Users])
  BY DEF Typed, IInv
<1>3. LogOf(messages) = [i \in 1 .. Len(messages) |-> messages[i].sender]
  BY <1>2, DenseLog DEF IInv, Dense
<1>4. LogOf(messages') = [i \in 1 .. Len(messages') |-> messages'[i].sender]
  BY <1>2, DenseLog DEF Dense
<1>5. row.sender = req[p].me /\ lastLocalID = Len(messages)
  BY DEF IInv, Dense
<1> HIDE DEF row
<1>6. /\ Len(messages') = lastLocalID + 1
      /\ \A i \in 1 .. lastLocalID + 1 :
           messages'[i] = IF i = lastLocalID + 1 THEN row ELSE messages[i]
  BY <1>1, <1>2, <1>5
<1>7. LogOf(messages') = [i \in 1 .. lastLocalID + 1 |->
                            IF i = lastLocalID + 1 THEN req[p].me ELSE LogOf(messages)[i]]
  <2>1. ASSUME NEW i \in 1 .. lastLocalID + 1
        PROVE  messages'[i].sender = IF i = lastLocalID + 1 THEN req[p].me ELSE LogOf(messages)[i]
    <3>1. CASE i = lastLocalID + 1
      BY <1>5, <1>6, <3>1
    <3>2. CASE i # lastLocalID + 1
      <4>1. i \in 1 .. Len(messages)
        BY <1>2, <1>5, <3>2
      <4> QED BY <1>3, <1>6, <3>2, <4>1
    <3> QED BY <3>1, <3>2
  <2> QED BY <1>4, <1>6, <2>1
<1> QED BY <1>1, <1>7 DEF SendCommit, Log!Post, Log!Members, Members

\* Every step of the statements is a step of the abstract conversation, or
\* leaves it as it is.
LEMMA StepImplements ==
  ASSUME IInv, IInv', [Next]_vars
  PROVE  [Log!Next]_(Log!vars)
<1> USE DEF Log!Next, Log!vars
<1>1. ASSUME NEW p \in Requests, RequestStep(p) PROVE [Log!Next]_(Log!vars)
  <2>1. CASE SendCommit(p)
    <3>1. req[p].me \in Users
      BY <2>1, CommitAppends DEF Members
    <3>2. Log!Post(req[p].me)
      BY <2>1, CommitPosts DEF IInv
    <3> QED BY <3>1, <3>2
  <2>2. CASE MarkUpdate(p)
    <3>1. UNCHANGED <<messages, lastLocalID, dissolved>>
      BY <2>2 DEF MarkUpdate, conversation
    <3>2. CASE lastRead' = lastRead
      BY <3>1, <3>2
    <3>3. CASE lastRead' # lastRead
      <4> DEFINE u == req[p].me
      <4>1. u \in Users /\ lastRead[u] # NotMember /\ lastRead[u] < req[p].item
            /\ lastRead' = [lastRead EXCEPT ![u] = req[p].item]
        BY <2>2, <3>3 DEF MarkUpdate, Members
      <4>2. req[p].item <= lastLocalID /\ req[p].item \in Nat /\ lastLocalID \in Nat
            /\ lastRead[u] \in Nat
        BY <2>2, <4>1 DEF IInv, NotAhead, MarkUpdate, Typed, ReqTyped, IsRequest
      <4>3. req[p].item \in lastRead[u] + 1 .. lastLocalID
        BY <4>1, <4>2
      <4>4. Log!Advance(u)
        BY <3>1, <4>1, <4>3 DEF Log!Advance, Log!Members
      <4> QED BY <4>1, <4>4
    <3> QED BY <3>2, <3>3
  <2>3. CASE ~SendCommit(p) /\ ~MarkUpdate(p)
    <3>1. UNCHANGED <<messages, lastLocalID, dissolved, lastRead>>
      BY <1>1, <2>3 DEF RequestStep, SendArrive, ListArrive, MarkLookup, SendLock, SendCheck,
           SendRecipients, Push, MarkLast, MarkAnswer, ListCheck, ListPage, Reply, conversation
    <3> QED BY <3>1
  <2> QED BY <2>1, <2>2, <2>3
<1>2. ASSUME NEW u \in Users, Join(u) PROVE Log!Enter(u)
  BY <1>2 DEF Join, Locked, Log!Enter, Log!Members, Members, conversation
<1>3. ASSUME NEW u \in Users, Leave(u) PROVE Log!Exit(u)
  BY <1>3 DEF Leave, Locked, Log!Exit, Log!Members, Members, conversation
<1>4. CASE Dissolve
  BY <1>4 DEF Dissolve, Locked, Log!Close
<1>5. CASE UNCHANGED vars
  BY <1>5 DEF vars, conversation
<1> QED BY <1>1, <1>2, <1>3, <1>4, <1>5 DEF Next

\* The statements of sends, marks and reads, however they interleave, with the
\* joins, leaves and the dissolution between them, implement the abstract
\* conversation: one log without gap or repeat, and positions that advance.
THEOREM Implements == Spec => ImplementsConversationLog
<1>1. IInv /\ IInv' /\ [Next]_vars => [Log!Next]_(Log!vars)
  BY StepImplements
<1> QED BY LogInitially, Invariant, <1>1, PTL DEF Spec, ImplementsConversationLog, Log!Spec

-----------------------------------------------------------------------------
(* The bounds of the types, and the walk through the pages.                *)

\* The local variables of a request, when the newest message is n.
Local(n) == [pc : Places, me : Users \cup {Nobody}, item : 0 .. n, newest : 0 .. n,
             recipients : SUBSET Users, unread : 0 .. n, cursor : 0 .. n, got : Seq(1 .. n)]

\* Nothing names a message that has not been committed.
Ranged ==
  /\ req \in [Requests -> Local(lastLocalID)]
  /\ pushed \subseteq Users \X (1 .. lastLocalID)
  /\ joinedAt \in [Users -> 0 .. lastLocalID]

\* Sends that are admitted have room for their message.
Sending == {p \in Requests : req[p].pc \in {"sendLock", "sendCheck", "sendCommit"}}
Capacity == IsFiniteSet(Sending) /\ lastLocalID + Cardinality(Sending) <= MaxMessages

\* A walk has listed consecutive local IDs so far, its cursor is the last one,
\* and it is done only when that is the first message.
Walk(r) ==
  /\ \A i \in 2 .. Len(r.got) : r.got[i] = r.got[i - 1] - 1
  /\ r.pc \notin {"listCheck", "listPage", "listDone"} => r.got = <<>> /\ r.cursor = 0
  /\ r.pc \in {"listCheck", "listPage"} =>
       r.cursor = IF r.got = <<>> THEN 0 ELSE r.got[Len(r.got)]
  /\ r.pc = "listDone" /\ r.got # <<>> => r.got[Len(r.got)] = 1

Walks == \A p \in Requests : Walk(req[p])

BInv == IInv /\ PushesItsOwn /\ Ranged /\ Capacity /\ Walks

-----------------------------------------------------------------------------
\* The rows from the j-th to the k-th are k + 1 - j many.
LEMMA RowsBetween ==
  ASSUME Typed, Dense, NEW k \in 0 .. lastLocalID, NEW j \in 1 .. k + 1
  PROVE  /\ IsFiniteSet({messages[i] : i \in j .. k})
         /\ Cardinality({messages[i] : i \in j .. k}) = k + 1 - j
<1> DEFINE rows == {messages[i] : i \in j .. k}
           f == [i \in j .. k |-> messages[i]]
<1>1. lastLocalID \in Nat /\ j .. k \subseteq DOMAIN messages
  BY DEF Typed, Dense
<1>2. \A a, b \in j .. k : messages[a] = messages[b] => a = b
  BY <1>1 DEF Dense
<1>3. f \in Bijection(j .. k, rows)
  <2>1. f \in [j .. k -> rows]
    OBVIOUS
  <2>2. \A a, b \in j .. k : f[a] = f[b] => a = b
    BY <1>2
  <2>3. \A r \in rows : \E a \in j .. k : f[a] = r
    OBVIOUS
  <2> HIDE DEF f, rows
  <2>4. f \in Injection(j .. k, rows)
    BY <2>1, <2>2 DEF Injection, IsInjective
  <2>5. f \in Surjection(j .. k, rows)
    BY <2>1, <2>3 DEF Surjection
  <2> QED BY <2>4, <2>5 DEF Bijection
<1>4. IsFiniteSet(j .. k) /\ Cardinality(j .. k) = k + 1 - j
  <2>1. j \in Int /\ k \in Int /\ j <= k + 1
    BY <1>1
  <2>2. IsFiniteSet(j .. k) /\ Cardinality(j .. k) = IF j > k THEN 0 ELSE k - j + 1
    BY <2>1, FS_Interval
  <2> QED BY <2>1, <2>2
<1> HIDE DEF f, rows
<1>5. ExistsBijection(j .. k, rows)
  BY <1>3 DEF ExistsBijection
<1> QED BY <1>4, <1>5, FS_Bijection DEF rows

\* The page before a cursor is the rows below it, the newest first.
LEMMA PageBelow ==
  ASSUME Typed, Dense, NEW k \in 0 .. lastLocalID, NEW n \in Nat,
         n = IF k < PageSize THEN k ELSE PageSize, NEW before,
         before = IF k = lastLocalID /\ before = 0 THEN 0 ELSE k + 1
  PROVE  Page(before) = [i \in 1 .. n |-> messages[k + 1 - i]]
<1> DEFINE found == {messages[i] : i \in 1 .. k}
<1>1. lastLocalID \in Nat /\ DOMAIN messages = 1 .. lastLocalID /\ k \in Nat
      /\ \A i \in 1 .. lastLocalID : messages[i].localID = i
  <2>1. lastLocalID \in Nat /\ messages \in Seq([localID : Nat, sender : Users])
    BY DEF Typed
  <2>2. lastLocalID = Len(messages) /\ \A i \in DOMAIN messages : messages[i].localID = i
    BY DEF Dense
  <2>3. DOMAIN messages = 1 .. lastLocalID
    BY <2>1, <2>2
  <2> QED BY <2>1, <2>2, <2>3
<1>2. {m \in Range(messages) : before = 0 \/ m.localID < before} = found
  <2>1. Range(messages) = {messages[i] : i \in 1 .. lastLocalID}
    BY <1>1 DEF Range
  <2>2. ASSUME NEW i \in 1 .. lastLocalID
        PROVE  before = 0 \/ messages[i].localID < before <=> i \in 1 .. k
    BY <1>1
  <2> QED BY <1>1, <2>1, <2>2
<1>3. Cardinality(found) = k
  <2>1. 1 \in 1 .. k + 1 /\ k + 1 - 1 = k
    BY <1>1
  <2>2. Cardinality({messages[i] : i \in 1 .. k}) = k + 1 - 1
    BY <2>1, RowsBetween
  <2> QED BY <2>1, <2>2
<1>4. ASSUME NEW j \in 1 .. k
      PROVE  Rank(found, messages[j]) = k + 1 - j
  <2>1. {m \in found : m.localID >= messages[j].localID} = {messages[i] : i \in j .. k}
    BY <1>1
  <2>2. j \in 1 .. k + 1
    BY <1>1
  <2> HIDE DEF found
  <2> QED BY <2>1, <2>2, RowsBetween DEF Rank
<1>5. ASSUME NEW i \in 1 .. n
      PROVE  (CHOOSE m \in found : Rank(found, m) = i) = messages[k + 1 - i]
  <2>1. k + 1 - i \in 1 .. k
    BY <1>1, MessagesAssumption
  <2>2. messages[k + 1 - i] \in found /\ Rank(found, messages[k + 1 - i]) = i
    <3>1. Rank(found, messages[k + 1 - i]) = k + 1 - (k + 1 - i)
      BY <1>4, <2>1
    <3> QED BY <1>1, <2>1, <3>1
  <2>3. ASSUME NEW m \in found, Rank(found, m) = i
        PROVE  m = messages[k + 1 - i]
    <3>1. PICK j \in 1 .. k : m = messages[j]
      OBVIOUS
    <3>2. k + 1 - j = i
      BY <1>4, <2>3, <3>1
    <3>3. j = k + 1 - i
      BY <1>1, <3>2
    <3> QED BY <3>1, <3>3
  <2> HIDE DEF found
  <2> QED BY <2>2, <2>3
<1> HIDE DEF found
<1>6. Page(before) = NewestFirst(found)
  BY <1>2 DEF Page
<1>7. NewestFirst(found) = [i \in 1 .. n |-> CHOOSE m \in found : Rank(found, m) = i]
  BY <1>3 DEF NewestFirst
<1> QED BY <1>5, <1>6, <1>7

\* Nothing goes out of range when a message is committed.
LEMMA LocalGrows ==
  ASSUME NEW m \in Nat, NEW n \in Nat, m <= n, NEW r \in Local(m)
  PROVE  r \in Local(n)
<1>1. 0 .. m \subseteq 0 .. n /\ 1 .. m \subseteq 1 .. n
  OBVIOUS
<1>2. \A s \in Seq(1 .. m) : s \in Seq(1 .. n)
  <2> TAKE s \in Seq(1 .. m)
  <2>1. \A i \in 1 .. Len(s) : s[i] \in 1 .. n
    BY <1>1
  <2> QED BY <2>1, SeqDef
<1> QED BY <1>1, <1>2 DEF Local

\* One page more: the walk stays consecutive, and a page that is not full is
\* the end of the history.
LEMMA PageExtends ==
  ASSUME BInv, NEW p \in Requests, ListPage(p)
  PROVE  req'[p] \in Local(lastLocalID) /\ Walk(req'[p])
<1> DEFINE r == req[p]
           c == r.cursor
           k == IF c = 0 THEN lastLocalID ELSE c - 1
           n == IF k < PageSize THEN k ELSE PageSize
           ids == [i \in 1 .. n |-> k + 1 - i]
           got == r.got
<1>1. /\ r \in Local(lastLocalID) /\ r.pc = "listPage" /\ lastLocalID \in Nat
      /\ Typed /\ Dense /\ Walk(r) /\ PageSize \in Nat \ {0}
  BY MessagesAssumption DEF BInv, IInv, Ranged, Walks, Typed, ListPage, At
<1>2. c \in 0 .. lastLocalID /\ got \in Seq(1 .. lastLocalID)
  BY <1>1 DEF Local
<1>3. k \in 0 .. lastLocalID /\ n \in Nat /\ n <= k /\ n <= PageSize
  BY <1>1, <1>2
<1> HIDE DEF k, n, r
<1>4. c = IF k = lastLocalID /\ c = 0 THEN 0 ELSE k + 1
  BY <1>2 DEF k
<1>5. Page(c) = [i \in 1 .. n |-> messages[k + 1 - i]]
  BY <1>1, <1>3, <1>4, PageBelow DEF n
<1>6. Len(Page(c)) = n /\ \A i \in 1 .. n : Page(c)[i].localID = k + 1 - i
  <2>1. \A i \in 1 .. n : k + 1 - i \in 1 .. lastLocalID
    BY <1>1, <1>3
  <2>2. \A i \in 1 .. lastLocalID : messages[i].localID = i
    BY <1>1 DEF Typed, Dense
  <2> QED BY <1>3, <1>5, <2>1, <2>2
<1>7. [i \in DOMAIN Page(c) |-> Page(c)[i].localID] = ids
  BY <1>5, <1>6
<1>8. ids \in Seq(1 .. lastLocalID) /\ Len(ids) = n
  BY <1>1, <1>3
<1>9. req'[p] = [r EXCEPT !.got = got \o ids,
                          !.cursor = IF n = PageSize THEN k + 1 - n ELSE c,
                          !.pc = IF n = PageSize THEN "listCheck" ELSE "listDone"]
  <2>1. req' = [req EXCEPT
                  ![p].got = @ \o [i \in DOMAIN Page(c) |-> Page(c)[i].localID],
                  ![p].cursor = IF Len(Page(c)) = PageSize THEN Page(c)[PageSize].localID ELSE @,
                  ![p].pc = IF Len(Page(c)) = PageSize THEN "listCheck" ELSE "listDone"]
    BY DEF ListPage, r
  <2>2. PageSize = n => Page(c)[PageSize].localID = k + 1 - n
    BY <1>1, <1>6
  <2>3. p \in DOMAIN req
    BY DEF BInv, Ranged
  <2> HIDE DEF ids
  <2> QED BY <1>6, <1>7, <2>1, <2>2, <2>3 DEF r
<1> DEFINE e == got \o ids
<1>10. /\ e \in Seq(1 .. lastLocalID) /\ Len(e) = Len(got) + n
       /\ \A i \in 1 .. Len(got) + n : e[i] = IF i <= Len(got) THEN got[i] ELSE k + 1 - (i - Len(got))
  <2>1. \A i \in 1 .. n : ids[i] = k + 1 - i
    OBVIOUS
  <2> HIDE DEF ids, got
  <2>2. e \in Seq(1 .. lastLocalID) /\ Len(e) = Len(got) + n
    BY <1>2, <1>8
  <2>3. ASSUME NEW i \in 1 .. Len(got) + n
        PROVE  e[i] = IF i <= Len(got) THEN got[i] ELSE ids[i - Len(got)]
    BY <1>2, <1>8, <2>3
  <2>4. Len(got) \in Nat
    BY <1>2
  <2> QED BY <1>3, <2>1, <2>2, <2>3, <2>4
<1>11. r.got = got /\ r.cursor = c
  BY DEF r
<1>12. c = IF got = <<>> THEN 0 ELSE got[Len(got)]
  BY <1>1, <1>11 DEF Walk
<1>13. got # <<>> => Len(got) \in Nat \ {0} /\ got[Len(got)] = k + 1
  <2> SUFFICES ASSUME got # <<>> PROVE Len(got) \in Nat \ {0} /\ got[Len(got)] = k + 1
    OBVIOUS
  <2> HIDE DEF got
  <2>1. Len(got) \in Nat \ {0}
    BY <1>2
  <2>2. Len(got) \in 1 .. Len(got)
    BY <2>1
  <2>3. got[Len(got)] \in 1 .. lastLocalID
    BY <1>2, <2>2, ElementOfSeq
  <2> QED BY <1>1, <1>12, <2>1, <2>3 DEF k
<1>14. \A i \in 2 .. Len(got) : got[i] = got[i - 1] - 1
  BY <1>1, <1>11 DEF Walk
<1> HIDE DEF e, got, c
<1>15. \A i \in 2 .. Len(e) : e[i] = e[i - 1] - 1
  <2> SUFFICES ASSUME NEW i \in 2 .. Len(e) PROVE e[i] = e[i - 1] - 1
    OBVIOUS
  <2>0. Len(got) \in Nat /\ i - 1 \in 1 .. Len(got) + n /\ i \in 1 .. Len(got) + n
    BY <1>2, <1>3, <1>10
  <2>1. CASE i <= Len(got)
    BY <1>10, <1>14, <2>0, <2>1
  <2>2. CASE i = Len(got) + 1
    <3>1. got # <<>> /\ e[i - 1] = got[Len(got)] /\ e[i] = k
      BY <1>3, <1>10, <2>0, <2>2
    <3> QED BY <1>3, <1>13, <3>1
  <2>3. CASE i > Len(got) + 1
    BY <1>3, <1>10, <2>0, <2>3
  <2> QED BY <2>0, <2>1, <2>2, <2>3
<1>16. n # 0 => e # <<>> /\ e[Len(e)] = k + 1 - n
  BY <1>2, <1>3, <1>10
<1>17. n # PageSize => n = k
  BY DEF n
<1>18. n = 0 => e = got
  BY <1>2, <1>8, ConcatEmptySeq DEF e, ids
<1>19. n # PageSize /\ e # <<>> => e[Len(e)] = 1
  <2>1. CASE n = 0
    BY <1>3, <1>13, <1>17, <1>18, <2>1
  <2>2. CASE n # 0
    BY <1>3, <1>16, <1>17, <2>2
  <2> QED BY <2>1, <2>2
<1>20. /\ DOMAIN r = Fields
       /\ req'[p].got = e
       /\ req'[p].cursor = IF n = PageSize THEN k + 1 - n ELSE c
       /\ req'[p].pc = IF n = PageSize THEN "listCheck" ELSE "listDone"
  BY <1>1, <1>9 DEF e, Local, Fields
<1>21. Walk(req'[p])
  BY <1>1, <1>15, <1>16, <1>19, <1>20 DEF Walk
<1>22. req'[p] \in Local(lastLocalID)
  <2>1. (IF n = PageSize THEN k + 1 - n ELSE c) \in 0 .. lastLocalID
    BY <1>1, <1>2, <1>3
  <2>2. (IF n = PageSize THEN "listCheck" ELSE "listDone") \in Places
    BY DEF Places
  <2> QED BY <1>1, <1>9, <1>10, <2>1, <2>2 DEF Local, e
<1> QED BY <1>21, <1>22

\* Local variables that are assigned in range stay in range.
LEMMA LocalAssigned ==
  ASSUME NEW n \in Nat, NEW r \in Local(n), NEW pc \in Places, NEW i \in 0 .. n,
         NEW us \in SUBSET Users
  PROVE  /\ [r EXCEPT !.pc = pc, !.newest = i] \in Local(n)
         /\ [r EXCEPT !.pc = pc, !.unread = i] \in Local(n)
         /\ [r EXCEPT !.pc = pc, !.recipients = us] \in Local(n)
         /\ [r EXCEPT !.recipients = us] \in Local(n)
<1> USE DEF Local
<1>1. [r EXCEPT !.pc = pc, !.newest = i] \in Local(n)
  OBVIOUS
<1>2. [r EXCEPT !.pc = pc, !.unread = i] \in Local(n)
  OBVIOUS
<1>3. [r EXCEPT !.pc = pc, !.recipients = us] \in Local(n)
  OBVIOUS
<1>4. [r EXCEPT !.recipients = us] \in Local(n)
  OBVIOUS
<1> QED BY <1>1, <1>2, <1>3, <1>4

\* A step of a request leaves what it remembers in range.
LEMMA RangedRequest ==
  ASSUME BInv, NEW p \in Requests, RequestStep(p), lastLocalID' \in {lastLocalID, lastLocalID + 1},
         lastLocalID' = lastLocalID \/ SendCommit(p)
  PROVE  Ranged'
<1> DEFINE n == lastLocalID
<1>1. /\ n \in Nat /\ req \in [Requests -> Local(n)] /\ req[p] \in Local(n)
      /\ pushed \subseteq Users \X (1 .. n) /\ joinedAt \in [Users -> 0 .. n]
      /\ DOMAIN messages = 1 .. n /\ Members \subseteq Users
  BY DEF BInv, IInv, Ranged, Typed, Dense, Members
<1>2. Idle \in Local(n)
  BY <1>1 DEF Idle, Local, Places
<1>a. 0 \in 0 .. n /\ {"idle", "sendCheck", "push", "markUpdate", "markAnswer", "answered"} \subseteq Places
  BY <1>1 DEF Places
<1>3. ASSUME req' \in [Requests -> Local(n)], lastLocalID' = n, joinedAt' = joinedAt,
             pushed' \subseteq Users \X (1 .. n)
      PROVE  Ranged'
  BY <1>1, <1>3 DEF Ranged
<1>4. CASE SendCommit(p)
  <2>1. /\ lastLocalID' = n + 1 /\ pushed' = pushed /\ joinedAt' = joinedAt
        /\ req' = [req EXCEPT ![p].pc = "sendRecipients", ![p].item = n + 1]
    BY <1>4, CommitAppends DEF BInv, SendCommit, history
  <2>2. \A q \in Requests : req[q] \in Local(n + 1)
    BY <1>1, LocalGrows
  <2>3. req \in [Requests -> Local(n + 1)]
    BY <1>1, <2>2
  <2>4. req' \in [Requests -> Local(n + 1)]
    <3>1. "sendRecipients" \in Places /\ n + 1 \in 0 .. n + 1
      BY <1>1 DEF Places
    <3> QED BY <2>1, <2>3, <3>1 DEF Local
  <2>5. 1 .. n \subseteq 1 .. n + 1 /\ 0 .. n \subseteq 0 .. n + 1
    BY <1>1
  <2>6. pushed' \subseteq Users \X (1 .. n + 1) /\ joinedAt' \in [Users -> 0 .. n + 1]
    BY <1>1, <2>1, <2>5
  <2> QED BY <2>1, <2>4, <2>6 DEF Ranged
<1>5. CASE Push(p)
  <2>1. req' \in [Requests -> Local(n)]
    <3>1. CASE req' = [req EXCEPT ![p] = Idle]
      BY <1>1, <1>2, <3>1
    <3>2. CASE \E u \in req[p].recipients : req' = [req EXCEPT ![p].recipients = @ \ {u}]
      <4>1. PICK u \in req[p].recipients : req' = [req EXCEPT ![p].recipients = @ \ {u}]
        BY <3>2
      <4>2. req[p].recipients \ {u} \in SUBSET Users
        BY <1>1 DEF Local
      <4>3. [req[p] EXCEPT !.recipients = req[p].recipients \ {u}] \in Local(n)
        BY <1>1, <1>a, <4>2, LocalAssigned
      <4> QED BY <1>1, <4>1, <4>3
    <3> QED BY <1>5, <3>1, <3>2 DEF Push, Finish
  <2>2. req[p].item \in 1 .. n /\ req[p].recipients \subseteq Users
    BY <1>1, <1>5 DEF BInv, PushesItsOwn, Push, Local
  <2>3. pushed' \subseteq Users \X (1 .. n)
    BY <1>1, <1>5, <2>2 DEF Push
  <2> QED BY <1>3, <1>5, <2>1, <2>3 DEF Push, conversation
<1>6. CASE ListPage(p)
  <2>1. req'[p] \in Local(n)
    BY <1>6, PageExtends
  <2>2. \A q \in Requests \ {p} : req'[q] = req[q]
    BY OthersUnchanged DEF BInv, IInv
  <2>3. req' = [q \in Requests |-> req'[q]]
    BY <1>1, <1>6 DEF ListPage
  <2>4. req' \in [Requests -> Local(n)]
    BY <1>1, <2>1, <2>2, <2>3
  <2> QED BY <1>1, <1>3, <1>6, <2>4 DEF ListPage, conversation, history
<1>7. CASE ~SendCommit(p) /\ ~Push(p) /\ ~ListPage(p)
  <2>1. lastLocalID' = n /\ pushed' = pushed /\ joinedAt' = joinedAt
    BY <1>7 DEF RequestStep, SendArrive, ListArrive, MarkLookup, SendLock, SendCheck,
         SendRecipients, MarkUpdate, MarkLast, MarkAnswer, ListCheck, Reply, conversation, history
  <2>2. SUFFICES req' \in [Requests -> Local(n)]
    BY <1>1, <1>3, <2>1
  <2>3. ASSUME req' = [req EXCEPT ![p] = Idle] PROVE req' \in [Requests -> Local(n)]
    BY <1>1, <1>2, <2>3
  <2>4. ASSUME NEW place \in Places, req' = [req EXCEPT ![p].pc = place]
        PROVE  req' \in [Requests -> Local(n)]
    BY <1>1, <2>4 DEF Local
  <2>5. ASSUME NEW u \in Users, NEW place \in Places, Arrive(p, u, place)
        PROVE  req' \in [Requests -> Local(n)]
    BY <1>1, <2>5 DEF Arrive, Local
  <2>6. ASSUME NEW u \in Users, NEW i \in DOMAIN messages, MarkLookup(p, u, i)
        PROVE  req' \in [Requests -> Local(n)]
    <3>1. messages[i].localID \in 0 .. n
      BY <1>1 DEF BInv, IInv, Dense
    <3>2. [req[p] EXCEPT !.pc = "markUpdate", !.me = u, !.item = messages[i].localID] \in Local(n)
      BY <1>1, <1>a, <3>1 DEF Local
    <3>3. req' = [req EXCEPT ![p] = [req[p] EXCEPT !.pc = "markUpdate", !.me = u,
                                                   !.item = messages[i].localID]]
      BY <1>1, <2>6 DEF MarkLookup
    <3> QED BY <1>1, <3>2, <3>3
  <2>7. CASE SendLock(p)
    <3>1. [req[p] EXCEPT !.pc = "sendCheck", !.newest = n] \in Local(n)
      <4>1. n \in 0 .. n
        BY <1>1
      <4> QED BY <1>1, <1>a, <4>1, LocalAssigned
    <3>2. req' = [req EXCEPT ![p] = [req[p] EXCEPT !.pc = "sendCheck", !.newest = n]]
      BY <1>1, <2>7 DEF SendLock
    <3> QED BY <1>1, <3>1, <3>2
  <2>8. CASE SendRecipients(p)
    <3>1. PICK us \in SUBSET Users :
            req' = [req EXCEPT ![p].pc = "push", ![p].recipients = us]
      <4>1. Members \ {req[p].me} \in SUBSET Users /\ req[p].recipients \in SUBSET Users
        BY <1>1 DEF Members, Local
      <4>2. CASE req' = [req EXCEPT ![p].pc = "push"]
        <5>1. req' = [req EXCEPT ![p].pc = "push", ![p].recipients = req[p].recipients]
          BY <1>1, <4>2 DEF Local
        <5> QED BY <4>1, <5>1
      <4> QED BY <2>8, <4>1, <4>2 DEF SendRecipients, Goto
    <3>2. [req[p] EXCEPT !.pc = "push", !.recipients = us] \in Local(n)
      BY <1>1, <1>a, LocalAssigned
    <3>3. req' = [req EXCEPT ![p] = [req[p] EXCEPT !.pc = "push", !.recipients = us]]
      BY <1>1, <3>1
    <3> QED BY <1>1, <3>2, <3>3
  <2>9. CASE MarkLast(p)
    <3>1. [req[p] EXCEPT !.pc = "markAnswer", !.newest = n] \in Local(n)
      <4>1. n \in 0 .. n
        BY <1>1
      <4> QED BY <1>1, <1>a, <4>1, LocalAssigned
    <3>2. req' = [req EXCEPT ![p] = [req[p] EXCEPT !.pc = "markAnswer", !.newest = n]]
      BY <1>1, <2>9 DEF MarkLast
    <3> QED BY <1>1, <3>1, <3>2
  <2>10. CASE MarkAnswer(p)
    <3>1. CASE req[p].me \in Members
      <4>1. /\ req[p].newest \in Nat /\ req[p].newest <= n
            /\ lastRead[req[p].me] \in Nat
        BY <1>1, <2>10, <3>1 DEF BInv, IInv, NotAhead, MarkAnswer, Typed, Members, Local
      <4>2. Unread(req[p].newest, lastRead[req[p].me]) \in 0 .. n
        BY <1>1, <4>1 DEF Unread
      <4> DEFINE un == Unread(req[p].newest, lastRead[req[p].me])
      <4>3. [req[p] EXCEPT !.pc = "answered", !.unread = un] \in Local(n)
        BY <1>1, <1>a, <4>2, LocalAssigned
      <4>4. req' = [req EXCEPT ![p] = [req[p] EXCEPT !.pc = "answered", !.unread = un]]
        BY <1>1, <2>10, <3>1 DEF MarkAnswer
      <4> QED BY <1>1, <4>3, <4>4
    <3> QED BY <2>3, <2>10, <3>1 DEF MarkAnswer, Finish
  <2>11. CASE MarkUpdate(p)
    BY <2>4, <2>11 DEF MarkUpdate, Goto, Places
  <2>12. CASE SendCheck(p) \/ ListCheck(p) \/ Reply(p)
    BY <2>3, <2>4, <2>12 DEF SendCheck, ListCheck, Reply, Goto, Finish, Places
  <2>13. ASSUME NEW u \in Users, SendArrive(p, u) \/ ListArrive(p, u)
         PROVE  req' \in [Requests -> Local(n)]
    BY <2>5, <2>13 DEF SendArrive, ListArrive, Places
  <2> QED
    BY <1>7, <2>6, <2>7, <2>8, <2>9, <2>10, <2>11, <2>12, <2>13 DEF RequestStep
<1> QED BY <1>4, <1>5, <1>6, <1>7

LEMMA RangedStep == BInv /\ [Next]_vars => Ranged'
<1> SUFFICES ASSUME BInv, [Next]_vars PROVE Ranged'
  OBVIOUS
<1>1. ASSUME NEW p \in Requests, RequestStep(p) PROVE Ranged'
  <2>1. CASE SendCommit(p)
    <3>1. lastLocalID' = lastLocalID + 1
      BY <2>1, CommitAppends DEF BInv
    <3> QED BY <1>1, <2>1, <3>1, RangedRequest
  <2>2. CASE ~SendCommit(p)
    <3>1. lastLocalID' = lastLocalID
      BY <1>1, <2>2 DEF RequestStep, SendArrive, ListArrive, MarkLookup, SendLock, SendCheck,
           SendRecipients, Push, MarkUpdate, MarkLast, MarkAnswer, ListCheck, ListPage, Reply,
           conversation
    <3> QED BY <1>1, <3>1, RangedRequest
  <2> QED BY <2>1, <2>2
<1>2. ASSUME NEW u \in Users, Join(u) \/ Leave(u) PROVE Ranged'
  <2>1. lastLocalID' = lastLocalID /\ req' = req /\ pushed' = pushed
    BY <1>2 DEF Join, Leave, conversation
  <2>2. lastLocalID \in Nat /\ lastLocalID = Len(messages)
    BY DEF BInv, IInv, Typed, Dense
  <2>3. joinedAt' \in [Users -> 0 .. lastLocalID]
    <3>1. joinedAt \in [Users -> 0 .. lastLocalID] /\ Len(messages) \in 0 .. lastLocalID
          /\ 0 \in 0 .. lastLocalID
      BY <2>2 DEF BInv, Ranged
    <3>2. \/ joinedAt' = [joinedAt EXCEPT ![u] = Len(messages)]
          \/ joinedAt' = [joinedAt EXCEPT ![u] = 0]
      BY <1>2 DEF Join, Leave
    <3> QED BY <3>1, <3>2
  <2> QED BY <2>1, <2>3 DEF BInv, Ranged
<1>3. CASE Dissolve \/ UNCHANGED vars
  <2>1. UNCHANGED <<lastLocalID, req, pushed, joinedAt>>
    BY <1>3 DEF Dissolve, vars, conversation, history
  <2> QED BY <2>1 DEF BInv, Ranged
<1> QED BY <1>1, <1>2, <1>3 DEF Next

\* A send is admitted only while there is room, and its message takes the room
\* that it had.
LEMMA CapacityStep == BInv /\ [Next]_vars => Capacity'
<1> SUFFICES ASSUME BInv, [Next]_vars PROVE Capacity'
  OBVIOUS
<1>a. /\ IsFiniteSet(Sending) /\ Cardinality(Sending) \in Nat
      /\ lastLocalID \in Nat /\ lastLocalID = Len(messages)
      /\ lastLocalID + Cardinality(Sending) <= MaxMessages /\ MaxMessages \in Nat
  BY FS_CardinalityType, MessagesAssumption DEF BInv, Capacity, IInv, Typed, Dense
<1>b. /\ DOMAIN req = Requests
      /\ \A q \in Requests : DOMAIN req[q] = Fields
  BY DEF BInv, IInv, Typed, ReqTyped, IsRequest
<1>1. ASSUME Sending' \subseteq Sending, lastLocalID' = lastLocalID PROVE Capacity'
  <2>1. IsFiniteSet(Sending') /\ Cardinality(Sending') <= Cardinality(Sending)
    BY <1>1, <1>a, FS_Subset
  <2>2. Cardinality(Sending') \in Nat
    BY <2>1, FS_CardinalityType
  <2> QED BY <1>1, <1>a, <2>1, <2>2 DEF Capacity
<1>2. ASSUME NEW p \in Requests, RequestStep(p) PROVE Capacity'
  <2>0. \A q \in Requests \ {p} : req'[q] = req[q]
    BY <1>2, OthersUnchanged DEF BInv, IInv
  <2>1. CASE SendCommit(p)
    <3>1. lastLocalID' = lastLocalID + 1 /\ req'[p].pc = "sendRecipients"
      <4>1. /\ lastLocalID' = lastLocalID + 1
            /\ req' = [req EXCEPT ![p].pc = "sendRecipients", ![p].item = lastLocalID + 1]
        BY <2>1, CommitAppends DEF BInv
      <4> QED BY <4>1, <1>b DEF Fields
    <3>2. p \in Sending /\ Sending' = Sending \ {p}
      BY <2>0, <2>1, <3>1 DEF Sending, SendCommit, At
    <3>3. IsFiniteSet(Sending') /\ Cardinality(Sending') = Cardinality(Sending) - 1
      BY <1>a, <3>2, FS_RemoveElement
    <3> QED BY <1>a, <3>1, <3>3 DEF Capacity
  <2>2. ASSUME NEW u \in Users, SendArrive(p, u) PROVE Capacity'
    <3>1. lastLocalID' = lastLocalID /\ lastLocalID + Cardinality(Sending) < MaxMessages
      BY <2>2, <1>a DEF SendArrive, Claimed, Sending, conversation
    <3>2. p \notin Sending /\ req'[p].pc = "sendLock"
      BY <2>2, <1>b DEF SendArrive, Arrive, At, Sending, Fields
    <3>3. Sending' = Sending \cup {p}
      BY <2>0, <3>2 DEF Sending
    <3>4. IsFiniteSet(Sending') /\ Cardinality(Sending') = Cardinality(Sending) + 1
      BY <1>a, <3>2, <3>3, FS_AddElement
    <3> QED BY <1>a, <3>1, <3>4 DEF Capacity
  <2>3. CASE ~SendCommit(p) /\ ~ \E u \in Users : SendArrive(p, u)
    <3>1. lastLocalID' = lastLocalID
      BY <1>2, <2>3 DEF RequestStep, ListArrive, MarkLookup, SendLock, SendCheck,
           SendRecipients, Push, MarkUpdate, MarkLast, MarkAnswer, ListCheck, ListPage, Reply,
           conversation
    <3>2. p \in Sending' => p \in Sending
      <4>1. CASE SendLock(p) \/ SendCheck(p)
        BY <4>1, <1>b DEF SendLock, SendCheck, Goto, Finish, Idle, Sending, At, Fields
      <4>2. ASSUME ~SendLock(p), ~SendCheck(p)
            PROVE  req'[p].pc \notin {"sendLock", "sendCheck", "sendCommit"}
        <5>1. CASE SendRecipients(p) \/ Push(p)
          BY <5>1, <1>b DEF SendRecipients, Push, Goto, Finish, Idle, Fields, At
        <5>2. CASE MarkUpdate(p) \/ MarkLast(p) \/ MarkAnswer(p)
          BY <5>2, <1>b DEF MarkUpdate, MarkLast, MarkAnswer, Goto, Finish, Idle, Fields
        <5>3. CASE ListCheck(p) \/ Reply(p)
          BY <5>3, <1>b DEF ListCheck, Reply, Goto, Finish, Idle, Fields
        <5>4. CASE ListPage(p)
          BY <5>4, <1>b DEF ListPage, Fields
        <5>5. ASSUME NEW u \in Users, ListArrive(p, u)
              PROVE  req'[p].pc \notin {"sendLock", "sendCheck", "sendCommit"}
          BY <5>5, <1>b DEF ListArrive, Arrive, Fields
        <5>6. ASSUME NEW u \in Users, NEW i \in DOMAIN messages, MarkLookup(p, u, i)
              PROVE  req'[p].pc \notin {"sendLock", "sendCheck", "sendCommit"}
          BY <5>6, <1>b DEF MarkLookup, Fields
        <5> QED BY <1>2, <2>3, <4>2, <5>1, <5>2, <5>3, <5>4, <5>5, <5>6 DEF RequestStep
      <4> QED BY <4>1, <4>2 DEF Sending
    <3>3. Sending' \subseteq Sending
      BY <2>0, <3>2 DEF Sending
    <3> QED BY <1>1, <3>1, <3>3
  <2> QED BY <2>1, <2>2, <2>3
<1>3. CASE req' = req /\ lastLocalID' = lastLocalID
  BY <1>1, <1>3 DEF Sending
<1> QED BY <1>2, <1>3 DEF Next, Join, Leave, Dissolve, vars, conversation

\* Only a reading of a page lists anything, and an answer starts afresh.
LEMMA WalksStep == BInv /\ [Next]_vars => Walks'
<1> SUFFICES ASSUME BInv, [Next]_vars PROVE Walks'
  OBVIOUS
<1>a. /\ DOMAIN req = Requests
      /\ \A q \in Requests : DOMAIN req[q] = Fields /\ Walk(req[q])
  BY DEF BInv, IInv, Typed, ReqTyped, IsRequest, Walks
<1>b. Walk(Idle)
  BY DEF Walk, Idle
<1>1. ASSUME NEW p \in Requests, RequestStep(p) PROVE Walks'
  <2>0. \A q \in Requests \ {p} : req'[q] = req[q]
    BY <1>1, OthersUnchanged DEF BInv, IInv
  <2>1. SUFFICES Walk(req'[p])
    BY <1>a, <2>0 DEF Walks
  <2>2. CASE ListPage(p)
    BY <2>2, PageExtends
  <2>3. CASE req' = [req EXCEPT ![p] = Idle]
    BY <1>a, <1>b, <2>3
  <2>4. ASSUME req'[p].got = req[p].got, req'[p].cursor = req[p].cursor,
               req[p].pc \notin {"listCheck", "listPage", "listDone"},
               req'[p].pc \notin {"listPage", "listDone"}
        PROVE  Walk(req'[p])
    <3>1. req[p].got = <<>> /\ req[p].cursor = 0
      BY <1>a, <2>4 DEF Walk
    <3>2. \A i \in 2 .. Len(<<>>) : FALSE
      OBVIOUS
    <3> QED BY <2>4, <3>1, <3>2 DEF Walk
  <2>5. CASE ListCheck(p)
    <3>1. CASE req' = [req EXCEPT ![p].pc = "listPage"]
      <4>1. /\ req'[p].got = req[p].got /\ req'[p].cursor = req[p].cursor
            /\ req'[p].pc = "listPage" /\ req[p].pc = "listCheck"
        BY <1>a, <2>5, <3>1 DEF ListCheck, At, Fields
      <4> QED BY <1>a, <4>1 DEF Walk
    <3> QED BY <2>3, <2>5, <3>1 DEF ListCheck, Goto, Finish
  <2>6. CASE Reply(p)
    BY <2>3, <2>6 DEF Reply, Finish
  <2>7. ASSUME NEW u \in Users, SendArrive(p, u) \/ ListArrive(p, u) PROVE Walk(req'[p])
    BY <1>a, <2>4, <2>7 DEF SendArrive, ListArrive, Arrive, At, Fields
  <2>8. ASSUME NEW u \in Users, NEW i \in DOMAIN messages, MarkLookup(p, u, i)
        PROVE  Walk(req'[p])
    BY <1>a, <2>4, <2>8 DEF MarkLookup, At, Fields
  <2>9. CASE SendLock(p) \/ SendCheck(p)
    BY <1>a, <2>3, <2>4, <2>9 DEF SendLock, SendCheck, Goto, Finish, At, Fields
  <2>10. CASE SendCommit(p)
    BY <1>a, <2>3, <2>4, <2>10 DEF SendCommit, Finish, At, Fields
  <2>11. CASE SendRecipients(p) \/ Push(p)
    BY <1>a, <2>3, <2>4, <2>11 DEF SendRecipients, Push, Goto, Finish, At, Fields
  <2>12. CASE MarkUpdate(p) \/ MarkLast(p)
    BY <1>a, <2>4, <2>12 DEF MarkUpdate, MarkLast, Goto, At, Fields
  <2>13. CASE MarkAnswer(p)
    BY <1>a, <2>3, <2>4, <2>13 DEF MarkAnswer, Finish, At, Fields
  <2> QED
    BY <1>1, <2>2, <2>5, <2>6, <2>7, <2>8, <2>9, <2>10, <2>11, <2>12, <2>13 DEF RequestStep
<1>2. CASE req' = req
  BY <1>2 DEF BInv, Walks
<1> QED BY <1>1, <1>2 DEF Next, Join, Leave, Dissolve, vars

LEMMA BoundsHold == Spec => []BInv
<1>1. Init => BInv
  <2> SUFFICES ASSUME Init PROVE BInv
    OBVIOUS
  <2>1. req = [p \in Requests |-> Idle] /\ pushed = {} /\ lastLocalID = 0
        /\ joinedAt = [u \in Users |-> 0]
    BY DEF Init
  <2>2. Idle \in Local(0)
    BY DEF Idle, Local, Places
  <2>3. Ranged
    BY <2>1, <2>2 DEF Ranged
  <2>4. Sending = {}
    BY <2>1 DEF Sending, Idle
  <2>5. Capacity
    BY <2>1, <2>4, FS_EmptySet, MessagesAssumption DEF Capacity
  <2>6. Walks
    BY <2>1 DEF Walks, Walk, Idle
  <2> QED BY <2>3, <2>5, <2>6, Initially DEF BInv
<1>2. BInv /\ [Next]_vars => BInv'
  <2>1. IInv /\ [Next]_vars => IInv'
    BY TypedStep, DenseStep, SendsHoldStep, NotAheadStep DEF IInv
  <2> QED BY <2>1, PushesItsOwnStep, RangedStep, CapacityStep, WalksStep DEF BInv
<1> QED BY <1>1, <1>2, PTL DEF Spec

\* Every reachable state is well-typed: no local ID, read position, mark or
\* unread count is past the newest message, and sends that were admitted never
\* outgrow the bound.
THEOREM TypeCorrect == Spec => []TypeOK
<1>1. BInv /\ UnpushedThere => TypeOK
  <2> SUFFICES ASSUME BInv, UnpushedThere PROVE TypeOK
    OBVIOUS
  <2>1. /\ lastLocalID \in Nat /\ MaxMessages \in Nat /\ lastLocalID <= MaxMessages
    BY FS_CardinalityType, MessagesAssumption DEF BInv, IInv, Typed, Capacity
  <2>2. 0 .. lastLocalID \subseteq 0 .. MaxMessages /\ 1 .. lastLocalID \subseteq 1 .. MaxMessages
    BY <2>1
  <2>3. lastRead \in [Users -> (0 .. lastLocalID) \cup {NotMember}]
    <3>1. \A u \in Users : lastRead[u] \in (0 .. lastLocalID) \cup {NotMember}
      BY <2>1 DEF BInv, IInv, Typed, NotAhead, Members
    <3> QED BY <3>1 DEF BInv, IInv, Typed
  <2>4. messages \in Seq([localID : 1 .. MaxMessages, sender : Users])
    <3>1. messages \in Seq([localID : Nat, sender : Users]) /\ Len(messages) = lastLocalID
      BY DEF BInv, IInv, Typed, Dense
    <3>2. \A i \in 1 .. Len(messages) : messages[i] \in [localID : 1 .. MaxMessages, sender : Users]
      <4> TAKE i \in 1 .. Len(messages)
      <4>1. messages[i] \in [localID : Nat, sender : Users]
        BY <3>1, ElementOfSeq, Zenon
      <4>2. messages[i].localID = i /\ i \in 1 .. MaxMessages
        BY <2>2, <3>1 DEF BInv, IInv, Dense
      <4>3. messages[i] = [localID |-> messages[i].localID, sender |-> messages[i].sender]
            /\ messages[i].sender \in Users
        BY <4>1
      <4> QED BY <4>2, <4>3
    <3>3. messages \in [1 .. Len(messages) -> [localID : 1 .. MaxMessages, sender : Users]]
          /\ Len(messages) \in Nat
      <4>1. messages = [i \in 1 .. Len(messages) |-> messages[i]] /\ Len(messages) \in Nat
        BY <3>1
      <4> QED BY <4>1, <3>2, Zenon
    <3> QED BY <3>3, SeqDef, Zenon
  <2>5. req \in [Requests -> Local(MaxMessages)]
    <3>1. \A p \in Requests : req[p] \in Local(MaxMessages)
      BY <2>1, LocalGrows DEF BInv, Ranged
    <3> QED BY <3>1 DEF BInv, Ranged
  <2>6. pushed \subseteq Users \X (1 .. MaxMessages) /\ joinedAt \in [Users -> 0 .. MaxMessages]
    BY <2>2 DEF BInv, Ranged
  <2>7. dissolved \in BOOLEAN /\ rowLock \in Requests \cup {Free}
    BY DEF BInv, IInv, Typed
  <2>8. unpushed \subseteq 1 .. MaxMessages
    <3>1. DOMAIN messages = 1 .. lastLocalID
      BY DEF BInv, IInv, Typed, Dense
    <3> QED BY <2>2, <3>1 DEF UnpushedThere
  <2> QED BY <2>1, <2>3, <2>4, <2>5, <2>6, <2>7, <2>8 DEF TypeOK, Local
<1>2. Init => UnpushedThere
  BY DEF Init, UnpushedThere
<1>3. BInv /\ UnpushedThere /\ [Next]_vars => UnpushedThere'
  BY UnpushedThereStep DEF BInv
<1> QED BY BoundsHold, <1>1, <1>2, <1>3, PTL DEF Spec

\* A client that follows the page tokens to the end has seen every message from
\* the newest of its first page to the first, each once and in order, whatever
\* is sent meanwhile: for any page size and any number of messages.
THEOREM WalkComplete == Spec => []WalkIsComplete
<1>1. BInv => WalkIsComplete
  BY DEF BInv, Walks, Walk, WalkIsComplete, At, Last
<1> QED BY BoundsHold, <1>1, PTL
=============================================================================
