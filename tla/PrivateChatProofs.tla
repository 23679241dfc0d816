-------------------------- MODULE PrivateChatProofs --------------------------
(***************************************************************************)
(* Theorems about PrivateChat, for any users, goroutines, conversations    *)
(* and limits: a standing block stops, a follow is needed, and the limit   *)
(* of messages without a follow back holds, whatever else is committed     *)
(* between the checks of a request.                                        *)
(***************************************************************************)
EXTENDS PrivateChat, TLAPS

\* The places of a request that is past its check for blocks, past its check
\* that its user follows the other, and inside the transaction of a send.
PastBlock  == {"followCheck", "followCreate", "createFollowing", "createExists", "createTx",
               "sendFollowing", "sendBack", "sendInsert"}
PastFollow == {"createExists", "createTx", "sendBack", "sendInsert"}
Sending    == {"sendBlock", "sendFollowing", "sendBack", "sendInsert"}

\* A request that is served is about two users, and a send about the
\* conversation of the two.
Served ==
  \A p \in Requests :
    /\ pc[p] # "idle" => me[p] \in Users /\ other[p] \in Users /\ me[p] # other[p]
    /\ pc[p] \in Sending \cup {"lock"} =>
         conv[p] \in DOMAIN pairs /\ pairs[conv[p]] = {me[p], other[p]}

\* A send holds its conversation's row, and has room for one more message.
HoldsRow ==
  \A p \in Requests :
    pc[p] \in Sending => rowLock[conv[p]] = p /\ sent[conv[p]][me[p]] < MaxSent

\* The history variables say what they are meant to say.
HistoryTrue ==
  /\ follows \subseteq everFollowed
  /\ \A p \in Requests :
       /\ blocked[p] => HasBlock(blocks, me[p], other[p])
       /\ stranger[p] => <<me[p], other[p]>> \notin follows

\* What a check of a request has found out, as far as it lasts.
Checked ==
  \A p \in Requests :
    /\ pc[p] \in PastBlock => ~blocked[p]
    /\ pc[p] \in PastFollow => ~stranger[p]
    /\ pc[p] = "sendInsert" => \/ <<other[p], me[p]>> \in everFollowed
                               \/ sent[conv[p]][me[p]] < FreeMessages

\* A conversation that does not exist yet has no messages.
NoneSent == \A c \in Convs \ DOMAIN pairs, u \in Users : sent[c][u] = 0

IInv == TypeOK /\ Served /\ HoldsRow /\ HistoryTrue /\ Checked /\ NoneSent /\ LimitPerConversation

-----------------------------------------------------------------------------
\* The transaction that creates a conversation adds one pair, or nothing.
LEMMA PairAdded ==
  ASSUME TypeOK, NEW p \in Requests, CreateTx(p)
  PROVE  \/ pairs' = pairs
         \/ \E c \in Convs \ DOMAIN pairs :
              /\ DOMAIN pairs' = DOMAIN pairs \cup {c}
              /\ pairs'[c] = {me[p], other[p]}
              /\ \A d \in DOMAIN pairs : pairs'[d] = pairs[d]
BY DEF CreateTx, WithPair

\* Requests stay about two users, and sends about their conversation.
LEMMA ServedStep == TypeOK /\ Served /\ [Next]_vars => Served'
<1> SUFFICES ASSUME TypeOK, Served, [Next]_vars PROVE Served'
  OBVIOUS
<1> USE DEF Goto, Check, LockedCheck, tables, request, allAlong, Served, TypeOK, Sending
<1>1. ASSUME NEW p \in Requests, NEW u \in Users, NEW v \in Users,
             NEW op \in {"follow", "block", "create", "lock"}, Arrive(p, u, v, op)
      PROVE  Served'
  BY <1>1 DEF Arrive
<1>2. ASSUME NEW u \in Users, NEW v \in Users, Unfollow(u, v) PROVE Served'
  BY <1>2 DEF Unfollow
<1>3. ASSUME NEW u \in Users, NEW v \in Users, Unblock(u, v) PROVE Served'
  BY <1>3 DEF Unblock
<1>4. ASSUME NEW p \in Requests, Step(p) PROVE Served'
  <2>1. CASE FollowBlockCheck(p)
    BY <2>1 DEF FollowBlockCheck
  <2>2. CASE FollowExistsCheck(p)
    BY <2>2 DEF FollowExistsCheck
  <2>3. CASE FollowCreate(p)
    BY <2>3 DEF FollowCreate
  <2>4. CASE BlockCheck(p)
    BY <2>4 DEF BlockCheck
  <2>5. CASE BlockTx(p)
    BY <2>5 DEF BlockTx
  <2>6. CASE CreateBlockCheck(p)
    BY <2>6 DEF CreateBlockCheck
  <2>7. CASE CreateFollowingCheck(p)
    BY <2>7 DEF CreateFollowingCheck
  <2>8. CASE CreateExistsCheck(p)
    BY <2>8 DEF CreateExistsCheck
  <2>9. CASE CreateTx(p)
    <3>1. DOMAIN pairs \subseteq DOMAIN pairs' /\ \A d \in DOMAIN pairs : pairs'[d] = pairs[d]
      BY <2>9, PairAdded
    <3> QED BY <2>9, <3>1 DEF CreateTx, Goto, request, Served, TypeOK, Sending
  <2>10. CASE LockConversation(p)
    BY <2>10 DEF LockConversation
  <2>11. CASE SendBlockCheck(p)
    BY <2>11 DEF SendBlockCheck
  <2>12. CASE SendFollowingCheck(p)
    BY <2>12 DEF SendFollowingCheck
  <2>13. CASE SendLimitCheck(p)
    BY <2>13 DEF SendLimitCheck
  <2>14. CASE SendInsert(p)
    BY <2>14 DEF SendInsert
  <2> QED BY <1>4, <2>1, <2>2, <2>3, <2>4, <2>5, <2>6, <2>7, <2>8, <2>9, <2>10, <2>11, <2>12, <2>13,
          <2>14 DEF Step
<1>5. CASE UNCHANGED vars
  BY <1>5 DEF vars
<1> QED BY <1>1, <1>2, <1>3, <1>4, <1>5 DEF Next

\* The row lock keeps other sends of the conversation out.
LEMMA HoldsRowStep == TypeOK /\ Served /\ HoldsRow /\ [Next]_vars => HoldsRow'
<1> SUFFICES ASSUME TypeOK, Served, HoldsRow, [Next]_vars PROVE HoldsRow'
  OBVIOUS
<1> USE DEF Goto, Check, LockedCheck, tables, request, allAlong, HoldsRow, Served, TypeOK,
            Sending
<1>1. ASSUME NEW p \in Requests, NEW u \in Users, NEW v \in Users,
             NEW op \in {"follow", "block", "create", "lock"}, Arrive(p, u, v, op)
      PROVE  HoldsRow'
  BY <1>1 DEF Arrive
<1>2. ASSUME NEW u \in Users, NEW v \in Users, Unfollow(u, v) PROVE HoldsRow'
  BY <1>2 DEF Unfollow
<1>3. ASSUME NEW u \in Users, NEW v \in Users, Unblock(u, v) PROVE HoldsRow'
  BY <1>3 DEF Unblock
<1>4. ASSUME NEW p \in Requests, Step(p) PROVE HoldsRow'
  <2>1. CASE FollowBlockCheck(p)
    BY <2>1 DEF FollowBlockCheck
  <2>2. CASE FollowExistsCheck(p)
    BY <2>2 DEF FollowExistsCheck
  <2>3. CASE FollowCreate(p)
    BY <2>3 DEF FollowCreate
  <2>4. CASE BlockCheck(p)
    BY <2>4 DEF BlockCheck
  <2>5. CASE BlockTx(p)
    BY <2>5 DEF BlockTx
  <2>6. CASE CreateBlockCheck(p)
    BY <2>6 DEF CreateBlockCheck
  <2>7. CASE CreateFollowingCheck(p)
    BY <2>7 DEF CreateFollowingCheck
  <2>8. CASE CreateExistsCheck(p)
    BY <2>8 DEF CreateExistsCheck
  <2>9. CASE CreateTx(p)
    BY <2>9 DEF CreateTx
  <2>10. CASE LockConversation(p)
    <3>1. conv[p] \in Convs /\ rowLock[conv[p]] = Free /\ sent[conv[p]][me[p]] < MaxSent
          /\ rowLock' = [rowLock EXCEPT ![conv[p]] = p]
      BY <2>10 DEF LockConversation, Served, TypeOK
    <3>2. \A q \in Requests : q # p /\ pc[q] \in Sending => conv[q] # conv[p]
      BY <3>1, PrivateChatAssumption DEF HoldsRow
    <3>3. \A q \in Requests : pc[q] \in Sending => conv[q] \in Convs
      BY DEF Served, TypeOK
    <3> QED BY <2>10, <3>1, <3>2, <3>3
        DEF LockConversation, Goto, tables, request, HoldsRow, TypeOK, Sending
  <2>11. CASE SendBlockCheck(p)
    BY <2>11 DEF SendBlockCheck
  <2>12. CASE SendFollowingCheck(p)
    BY <2>12 DEF SendFollowingCheck
  <2>13. CASE SendLimitCheck(p)
    BY <2>13 DEF SendLimitCheck
  <2>14. CASE SendInsert(p)
    BY <2>14 DEF SendInsert
  <2> QED BY <1>4, <2>1, <2>2, <2>3, <2>4, <2>5, <2>6, <2>7, <2>8, <2>9, <2>10, <2>11, <2>12, <2>13,
          <2>14 DEF Step
<1>5. CASE UNCHANGED vars
  BY <1>5 DEF vars
<1> QED BY <1>1, <1>2, <1>3, <1>4, <1>5 DEF Next

\* Every step that adds or drops a follow or a block keeps the history in step.
LEMMA HistoryTrueStep == TypeOK /\ Served /\ HistoryTrue /\ [Next]_vars => HistoryTrue'
<1> SUFFICES ASSUME TypeOK, Served, HistoryTrue, [Next]_vars PROVE HistoryTrue'
  OBVIOUS
<1> USE DEF Goto, Check, LockedCheck, tables, request, allAlong, HistoryTrue, Served, TypeOK,
            HasBlock
<1>1. ASSUME NEW p \in Requests, NEW u \in Users, NEW v \in Users,
             NEW op \in {"follow", "block", "create", "lock"}, Arrive(p, u, v, op)
      PROVE  HistoryTrue'
  BY <1>1 DEF Arrive
<1>2. ASSUME NEW u \in Users, NEW v \in Users, Unfollow(u, v) PROVE HistoryTrue'
  BY <1>2 DEF Unfollow
<1>3. ASSUME NEW u \in Users, NEW v \in Users, Unblock(u, v) PROVE HistoryTrue'
  BY <1>3 DEF Unblock
<1>4. ASSUME NEW p \in Requests, Step(p) PROVE HistoryTrue'
  <2>1. CASE FollowBlockCheck(p)
    BY <2>1 DEF FollowBlockCheck
  <2>2. CASE FollowExistsCheck(p)
    BY <2>2 DEF FollowExistsCheck
  <2>3. CASE FollowCreate(p)
    BY <2>3 DEF FollowCreate
  <2>4. CASE BlockCheck(p)
    BY <2>4 DEF BlockCheck
  <2>5. CASE BlockTx(p)
    BY <2>5 DEF BlockTx
  <2>6. CASE CreateBlockCheck(p)
    BY <2>6 DEF CreateBlockCheck
  <2>7. CASE CreateFollowingCheck(p)
    BY <2>7 DEF CreateFollowingCheck
  <2>8. CASE CreateExistsCheck(p)
    BY <2>8 DEF CreateExistsCheck
  <2>9. CASE CreateTx(p)
    BY <2>9 DEF CreateTx
  <2>10. CASE LockConversation(p)
    BY <2>10 DEF LockConversation
  <2>11. CASE SendBlockCheck(p)
    BY <2>11 DEF SendBlockCheck
  <2>12. CASE SendFollowingCheck(p)
    BY <2>12 DEF SendFollowingCheck
  <2>13. CASE SendLimitCheck(p)
    BY <2>13 DEF SendLimitCheck
  <2>14. CASE SendInsert(p)
    BY <2>14 DEF SendInsert
  <2> QED BY <1>4, <2>1, <2>2, <2>3, <2>4, <2>5, <2>6, <2>7, <2>8, <2>9, <2>10, <2>11, <2>12, <2>13,
          <2>14 DEF Step
<1>5. CASE UNCHANGED vars
  BY <1>5 DEF vars
<1> QED BY <1>1, <1>2, <1>3, <1>4, <1>5 DEF Next

\* What a check has found out lasts: blocked and stranger only fall in the course of
\* a request, and nobody else sends in the conversation.
LEMMA CheckedStep == TypeOK /\ Served /\ HoldsRow /\ HistoryTrue /\ Checked /\ [Next]_vars => Checked'
<1> SUFFICES ASSUME TypeOK, Served, HoldsRow, HistoryTrue, Checked, [Next]_vars PROVE Checked'
  OBVIOUS
<1> USE DEF Goto, Check, LockedCheck, tables, request, allAlong, Checked, HistoryTrue, HoldsRow,
            Served, TypeOK, HasBlock, PastBlock, PastFollow, Sending
<1>1. ASSUME NEW p \in Requests, NEW u \in Users, NEW v \in Users,
             NEW op \in {"follow", "block", "create", "lock"}, Arrive(p, u, v, op)
      PROVE  Checked'
  BY <1>1 DEF Arrive
<1>2. ASSUME NEW u \in Users, NEW v \in Users, Unfollow(u, v) PROVE Checked'
  BY <1>2 DEF Unfollow
<1>3. ASSUME NEW u \in Users, NEW v \in Users, Unblock(u, v) PROVE Checked'
  BY <1>3 DEF Unblock
<1>4. ASSUME NEW p \in Requests, Step(p) PROVE Checked'
  <2>1. CASE FollowBlockCheck(p)
    BY <2>1 DEF FollowBlockCheck
  <2>2. CASE FollowExistsCheck(p)
    BY <2>2 DEF FollowExistsCheck
  <2>3. CASE FollowCreate(p)
    BY <2>3 DEF FollowCreate
  <2>4. CASE BlockCheck(p)
    BY <2>4 DEF BlockCheck
  <2>5. CASE BlockTx(p)
    BY <2>5 DEF BlockTx
  <2>6. CASE CreateBlockCheck(p)
    BY <2>6 DEF CreateBlockCheck
  <2>7. CASE CreateFollowingCheck(p)
    BY <2>7 DEF CreateFollowingCheck
  <2>8. CASE CreateExistsCheck(p)
    BY <2>8 DEF CreateExistsCheck
  <2>9. CASE CreateTx(p)
    BY <2>9 DEF CreateTx
  <2>10. CASE LockConversation(p)
    BY <2>10 DEF LockConversation
  <2>11. CASE SendBlockCheck(p)
    BY <2>11 DEF SendBlockCheck
  <2>12. CASE SendFollowingCheck(p)
    BY <2>12 DEF SendFollowingCheck
  <2>13. CASE SendLimitCheck(p)
    BY <2>13 DEF SendLimitCheck
  <2>14. CASE SendInsert(p)
    BY <2>14 DEF SendInsert
  <2> QED BY <1>4, <2>1, <2>2, <2>3, <2>4, <2>5, <2>6, <2>7, <2>8, <2>9, <2>10, <2>11, <2>12, <2>13,
          <2>14 DEF Step
<1>5. CASE UNCHANGED vars
  BY <1>5 DEF vars
<1> HIDE DEF Goto, Check, LockedCheck, tables, request, allAlong, Checked, HistoryTrue, HoldsRow,
             Served, TypeOK, HasBlock, PastBlock, PastFollow, Sending
<1> QED BY <1>1, <1>2, <1>3, <1>4, <1>5 DEF Next

\* Messages are sent in conversations that exist.
LEMMA NoneSentStep == TypeOK /\ Served /\ NoneSent /\ [Next]_vars => NoneSent'
<1> SUFFICES ASSUME TypeOK, Served, NoneSent, [Next]_vars PROVE NoneSent'
  OBVIOUS
<1> USE DEF Goto, Check, LockedCheck, tables, request, allAlong, NoneSent, Served, TypeOK,
            Sending
<1>1. ASSUME NEW p \in Requests, NEW u \in Users, NEW v \in Users,
             NEW op \in {"follow", "block", "create", "lock"}, Arrive(p, u, v, op)
      PROVE  NoneSent'
  BY <1>1 DEF Arrive
<1>2. ASSUME NEW u \in Users, NEW v \in Users, Unfollow(u, v) PROVE NoneSent'
  BY <1>2 DEF Unfollow
<1>3. ASSUME NEW u \in Users, NEW v \in Users, Unblock(u, v) PROVE NoneSent'
  BY <1>3 DEF Unblock
<1>4. ASSUME NEW p \in Requests, Step(p) PROVE NoneSent'
  <2>1. CASE FollowBlockCheck(p)
    BY <2>1 DEF FollowBlockCheck
  <2>2. CASE FollowExistsCheck(p)
    BY <2>2 DEF FollowExistsCheck
  <2>3. CASE FollowCreate(p)
    BY <2>3 DEF FollowCreate
  <2>4. CASE BlockCheck(p)
    BY <2>4 DEF BlockCheck
  <2>5. CASE BlockTx(p)
    BY <2>5 DEF BlockTx
  <2>6. CASE CreateBlockCheck(p)
    BY <2>6 DEF CreateBlockCheck
  <2>7. CASE CreateFollowingCheck(p)
    BY <2>7 DEF CreateFollowingCheck
  <2>8. CASE CreateExistsCheck(p)
    BY <2>8 DEF CreateExistsCheck
  <2>9. CASE CreateTx(p)
    <3>1. DOMAIN pairs \subseteq DOMAIN pairs'
      BY <2>9, PairAdded
    <3> QED BY <2>9, <3>1 DEF CreateTx, NoneSent
  <2>10. CASE LockConversation(p)
    BY <2>10 DEF LockConversation
  <2>11. CASE SendBlockCheck(p)
    BY <2>11 DEF SendBlockCheck
  <2>12. CASE SendFollowingCheck(p)
    BY <2>12 DEF SendFollowingCheck
  <2>13. CASE SendLimitCheck(p)
    BY <2>13 DEF SendLimitCheck
  <2>14. CASE SendInsert(p)
    BY <2>14 DEF SendInsert
  <2> QED BY <1>4, <2>1, <2>2, <2>3, <2>4, <2>5, <2>6, <2>7, <2>8, <2>9, <2>10, <2>11, <2>12, <2>13,
          <2>14 DEF Step
<1>5. CASE UNCHANGED vars
  BY <1>5 DEF vars
<1> QED BY <1>1, <1>2, <1>3, <1>4, <1>5 DEF Next

\* An insert finds its check still true: the sender has been followed back, or is below
\* the limit.
LEMMA LimitStep == IInv /\ [Next]_vars => LimitPerConversation'
<1> SUFFICES ASSUME IInv, [Next]_vars PROVE LimitPerConversation'
  OBVIOUS
<1> USE DEF Goto, Check, LockedCheck, tables, request, allAlong, IInv, LimitPerConversation
<1>1. ASSUME NEW p \in Requests, NEW u \in Users, NEW v \in Users,
             NEW op \in {"follow", "block", "create", "lock"}, Arrive(p, u, v, op)
      PROVE  LimitPerConversation'
  BY <1>1 DEF Arrive
<1>2. ASSUME NEW u \in Users, NEW v \in Users, Unfollow(u, v) PROVE LimitPerConversation'
  BY <1>2 DEF Unfollow
<1>3. ASSUME NEW u \in Users, NEW v \in Users, Unblock(u, v) PROVE LimitPerConversation'
  BY <1>3 DEF Unblock
<1>4. ASSUME NEW p \in Requests, Step(p) PROVE LimitPerConversation'
  <2>1. CASE FollowBlockCheck(p)
    BY <2>1 DEF FollowBlockCheck
  <2>2. CASE FollowExistsCheck(p)
    BY <2>2 DEF FollowExistsCheck
  <2>3. CASE FollowCreate(p)
    BY <2>3 DEF FollowCreate
  <2>4. CASE BlockCheck(p)
    BY <2>4 DEF BlockCheck
  <2>5. CASE BlockTx(p)
    BY <2>5 DEF BlockTx
  <2>6. CASE CreateBlockCheck(p)
    BY <2>6 DEF CreateBlockCheck
  <2>7. CASE CreateFollowingCheck(p)
    BY <2>7 DEF CreateFollowingCheck
  <2>8. CASE CreateExistsCheck(p)
    BY <2>8 DEF CreateExistsCheck
  <2>9. CASE CreateTx(p)
    <3>1. ASSUME NEW c \in DOMAIN pairs', NEW u \in Users
          PROVE  (c \in DOMAIN pairs /\ pairs'[c] = pairs[c]) \/ sent[c][u] = 0
      <4>1. c \in DOMAIN pairs \/ c \in Convs \ DOMAIN pairs
        BY <2>9, PairAdded
      <4>2. c \in DOMAIN pairs => pairs'[c] = pairs[c]
        BY <2>9, PairAdded
      <4> QED BY <4>1, <4>2 DEF NoneSent
    <3> QED BY <2>9, <3>1, PrivateChatAssumption DEF CreateTx, IInv, LimitPerConversation
  <2>10. CASE LockConversation(p)
    BY <2>10 DEF LockConversation
  <2>11. CASE SendBlockCheck(p)
    BY <2>11 DEF SendBlockCheck
  <2>12. CASE SendFollowingCheck(p)
    BY <2>12 DEF SendFollowingCheck
  <2>13. CASE SendLimitCheck(p)
    BY <2>13 DEF SendLimitCheck
  <2>14. CASE SendInsert(p)
    <3>1. /\ conv[p] \in DOMAIN pairs /\ conv[p] \in Convs /\ pairs[conv[p]] = {me[p], other[p]}
          /\ me[p] \in Users /\ other[p] \in Users /\ me[p] # other[p]
      BY <2>14 DEF SendInsert, IInv, Served, TypeOK, Sending
    <3>2. <<other[p], me[p]>> \in everFollowed \/ sent[conv[p]][me[p]] < FreeMessages
      BY <2>14 DEF SendInsert, IInv, Checked
    <3>3. sent[conv[p]][me[p]] \in Nat
      BY <3>1 DEF IInv, TypeOK
    <3>4. \A c \in DOMAIN pairs, u \in Users :
            sent'[c][u] = IF c = conv[p] /\ u = me[p] THEN sent[c][u] + 1 ELSE sent[c][u]
      BY <2>14, <3>1 DEF SendInsert, IInv, TypeOK
    <3>5. pairs' = pairs /\ everFollowed' = everFollowed
      BY <2>14 DEF SendInsert
    <3>6. ASSUME NEW c \in DOMAIN pairs, NEW u \in Users, NEW v \in Users,
                 pairs[c] = {u, v}, u # v, <<v, u>> \notin everFollowed
          PROVE  sent'[c][u] <= FreeMessages
      <4>1. CASE c = conv[p] /\ u = me[p]
        <5>1. v = other[p]
          BY <3>1, <3>6, <4>1
        <5> QED BY <3>2, <3>3, <3>4, <3>6, <4>1, <5>1, PrivateChatAssumption
      <4>2. CASE ~(c = conv[p] /\ u = me[p])
        BY <3>4, <3>6, <4>2 DEF IInv, LimitPerConversation
      <4> QED BY <4>1, <4>2
    <3> QED BY <3>5, <3>6 DEF LimitPerConversation
  <2> QED BY <1>4, <2>1, <2>2, <2>3, <2>4, <2>5, <2>6, <2>7, <2>8, <2>9, <2>10, <2>11, <2>12, <2>13,
          <2>14 DEF Step
<1>5. CASE UNCHANGED vars
  BY <1>5 DEF vars
<1> QED BY <1>1, <1>2, <1>3, <1>4, <1>5 DEF Next

\* Every step keeps the types; a send inserts only below the bound it has seen.
LEMMA TypeStep == TypeOK /\ Served /\ HoldsRow /\ [Next]_vars => TypeOK'
<1> SUFFICES ASSUME TypeOK, Served, HoldsRow, [Next]_vars PROVE TypeOK'
  OBVIOUS
<1> USE DEF Goto, Check, LockedCheck, tables, request, allAlong, TypeOK, Served, HoldsRow,
            Places, HasBlock, Sending
<1>1. ASSUME NEW p \in Requests, NEW u \in Users, NEW v \in Users,
             NEW op \in {"follow", "block", "create", "lock"}, Arrive(p, u, v, op)
      PROVE  TypeOK'
  BY <1>1 DEF Arrive
<1>2. ASSUME NEW u \in Users, NEW v \in Users, Unfollow(u, v) PROVE TypeOK'
  BY <1>2 DEF Unfollow
<1>3. ASSUME NEW u \in Users, NEW v \in Users, Unblock(u, v) PROVE TypeOK'
  BY <1>3 DEF Unblock
<1>4. ASSUME NEW p \in Requests, Step(p) PROVE TypeOK'
  <2>1. CASE FollowBlockCheck(p)
    BY <2>1 DEF FollowBlockCheck
  <2>2. CASE FollowExistsCheck(p)
    BY <2>2 DEF FollowExistsCheck
  <2>3. CASE FollowCreate(p)
    BY <2>3 DEF FollowCreate
  <2>4. CASE BlockCheck(p)
    BY <2>4 DEF BlockCheck
  <2>5. CASE BlockTx(p)
    BY <2>5 DEF BlockTx
  <2>6. CASE CreateBlockCheck(p)
    BY <2>6 DEF CreateBlockCheck
  <2>7. CASE CreateFollowingCheck(p)
    BY <2>7 DEF CreateFollowingCheck
  <2>8. CASE CreateExistsCheck(p)
    BY <2>8 DEF CreateExistsCheck
  <2>9. CASE CreateTx(p)
    <3>1. pairs' = pairs \/ \E c \in Convs \ DOMAIN pairs : pairs' = WithPair(c, me[p], other[p])
      BY <2>9 DEF CreateTx
    <3>2. me[p] \in Users /\ other[p] \in Users
      BY <2>9 DEF CreateTx, Served
    <3>3. DOMAIN pairs' \subseteq Convs /\ pairs' \in [DOMAIN pairs' -> SUBSET Users]
      <4>1. CASE pairs' = pairs
        BY <4>1 DEF TypeOK
      <4>2. ASSUME NEW c \in Convs \ DOMAIN pairs, pairs' = WithPair(c, me[p], other[p])
            PROVE  DOMAIN pairs' \subseteq Convs /\ pairs' \in [DOMAIN pairs' -> SUBSET Users]
        BY <3>2, <4>2 DEF WithPair, TypeOK
      <4> QED BY <3>1, <4>1, <4>2
    <3> QED BY <2>9, <3>3 DEF CreateTx, Goto, request, allAlong, TypeOK, Places
  <2>10. CASE LockConversation(p)
    BY <2>10 DEF LockConversation
  <2>11. CASE SendBlockCheck(p)
    BY <2>11 DEF SendBlockCheck
  <2>12. CASE SendFollowingCheck(p)
    BY <2>12 DEF SendFollowingCheck
  <2>13. CASE SendLimitCheck(p)
    BY <2>13 DEF SendLimitCheck
  <2>14. CASE SendInsert(p)
    <3>1. conv[p] \in Convs /\ me[p] \in Users /\ sent[conv[p]][me[p]] < MaxSent
      BY <2>14 DEF SendInsert, Served, HoldsRow, TypeOK, Sending
    <3>2. sent[conv[p]][me[p]] + 1 \in 0 .. MaxSent
      BY <3>1, PrivateChatAssumption DEF TypeOK
    <3>3. sent' \in [Convs -> [Users -> 0 .. MaxSent]]
      BY <2>14, <3>2 DEF SendInsert, TypeOK
    <3> QED BY <2>14, <3>3 DEF SendInsert, Goto, request, allAlong, TypeOK, Places
  <2> QED BY <1>4, <2>1, <2>2, <2>3, <2>4, <2>5, <2>6, <2>7, <2>8, <2>9, <2>10, <2>11, <2>12, <2>13,
          <2>14 DEF Step
<1>5. CASE UNCHANGED vars
  BY <1>5 DEF vars
<1> QED BY <1>1, <1>2, <1>3, <1>4, <1>5 DEF Next

LEMMA Invariant == Spec => []IInv
<1>1. Init => IInv
  <2> SUFFICES ASSUME Init PROVE IInv
    OBVIOUS
  <2> USE PrivateChatAssumption
  <2>1. TypeOK
    BY DEF Init, TypeOK, Places
  <2>2. Served /\ HoldsRow /\ HistoryTrue /\ Checked /\ NoneSent
    BY DEF Init, Served, HoldsRow, HistoryTrue, Checked, NoneSent, Sending, PastBlock, PastFollow
  <2>3. LimitPerConversation
    BY DEF Init, LimitPerConversation
  <2> QED BY <2>1, <2>2, <2>3 DEF IInv
<1>2. IInv /\ [Next]_vars => IInv'
  BY ServedStep, HoldsRowStep, HistoryTrueStep, CheckedStep, NoneSentStep, LimitStep, TypeStep DEF IInv
<1> QED BY <1>1, <1>2, PTL DEF Spec

-----------------------------------------------------------------------------
\* Type correctness, the bound on messages included: no two sends pass the
\* bound together, since the one that counts holds the row.
THEOREM TypeCorrect == Spec => []TypeOK
BY Invariant, PTL DEF IInv

\* A block that stands all through a request stops it before it creates a
\* follow, a conversation or a message.
THEOREM BlocksStop == Spec => []BlockStops
<1>1. IInv => BlockStops
  BY DEF IInv, Checked, PastBlock, BlockStops
<1> QED BY <1>1, Invariant, PTL

\* Nobody opens a private conversation, or writes in it, who did not follow
\* the other at some moment of the request.
THEOREM FollowsNeeded == Spec => []FollowNeeded
<1>1. IInv => FollowNeeded
  BY DEF IInv, Checked, PastFollow, FollowNeeded
<1> QED BY <1>1, Invariant, PTL

\* Who has never been followed back has sent at most FreeMessages messages in
\* the conversation, however many of the sender's requests race.
THEOREM LimitHolds == Spec => []LimitPerConversation
BY Invariant, PTL DEF IInv
=============================================================================
