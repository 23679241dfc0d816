------------------------------- MODULE Messages -------------------------------
(***************************************************************************)
(* One group conversation, statement by statement: SendMessage with the    *)
(* pushes its handler sends, MarkAsRead and GetMessageList, next to        *)
(* members who come and go and an owner who may dissolve the group.        *)
(*                                                                         *)
(* A statement outside a transaction commits by itself.  SendMessage holds *)
(* the row lock of the conversation over several statements; the group     *)
(* operations take the same lock and appear as their commit.  MarkAsRead   *)
(* takes no lock on the conversation: each of its statements sees what is  *)
(* committed by then (READ COMMITTED).                                     *)
(***************************************************************************)
EXTENDS Naturals, Sequences, FiniteSets, SequencesExt

CONSTANTS Users, Requests,   \* users, and the goroutines that serve them
          PageSize,          \* page size of a client that reads the history
          MaxMessages,       \* bound: messages in the conversation
          Free, Nobody, NotMember

ASSUME MessagesAssumption ==
  /\ PageSize \in Nat \ {0} /\ MaxMessages \in Nat
  /\ Free \notin Requests /\ Nobody \notin Users /\ NotMember \notin Nat

VARIABLES dissolved, lastLocalID,  \* the conversation's row
          lastRead,     \* last_read_local_id of each participant, or NotMember
          messages,     \* the table: [localID, sender], at its primary key
          rowLock,      \* the request that holds the conversation's row
          req,          \* what each request does, and its local variables
          pushed,       \* history: <<u, id>> handed to SendToUser
          joinedAt,     \* history: messages there were when a user joined
          unpushed      \* history: messages whose recipients were not found

conversation == <<dissolved, lastLocalID>>
history == <<pushed, joinedAt, unpushed>>
vars == <<conversation, lastRead, messages, rowLock, req, history>>

Members == {u \in Users : lastRead[u] # NotMember}

Places == {"idle", "sendLock", "sendCheck", "sendCommit", "sendRecipients", "push",
           "markUpdate", "markLast", "markAnswer", "answered",
           "listCheck", "listPage", "listDone"}

\* The local variables of a request: the user; the message it is about; the
\* newest local ID as the request read it; whom it has still to push to; the
\* unread count it answers; the page token and the local IDs listed so far.
Idle == [pc |-> "idle", me |-> Nobody, item |-> 0, newest |-> 0,
         recipients |-> {}, unread |-> 0, cursor |-> 0, got |-> <<>>]

At(p, place) == req[p].pc = place
Arrive(p, u, place) == At(p, "idle") /\ req' = [req EXCEPT ![p].me = u, ![p].pc = place]
Goto(p, place) == req' = [req EXCEPT ![p].pc = place]
Finish(p) == req' = [req EXCEPT ![p] = Idle]

Unread(newest, read) == IF newest > read THEN newest - read ELSE 0

-----------------------------------------------------------------------------
(* SendMessage: lock and read the conversation, check the sender, commit.  *)

\* The messages there are and those that may yet be committed.
Claimed == Len(messages) + Cardinality({p \in Requests : req[p].pc \in {"sendLock", "sendCheck", "sendCommit"}})

SendArrive(p, u) ==
  /\ Claimed < MaxMessages
  /\ Arrive(p, u, "sendLock")
  /\ UNCHANGED <<conversation, lastRead, messages, rowLock, history>>

SendLock(p) ==
  /\ At(p, "sendLock") /\ rowLock = Free
  /\ rowLock' = p
  /\ req' = [req EXCEPT ![p].pc = "sendCheck", ![p].newest = lastLocalID]
  /\ UNCHANGED <<conversation, lastRead, messages, history>>

\* Not a member, or dissolved: the transaction rolls back.
SendCheck(p) ==
  /\ At(p, "sendCheck")
  /\ IF req[p].me \in Members /\ ~dissolved
     THEN Goto(p, "sendCommit") /\ UNCHANGED rowLock
     ELSE Finish(p) /\ rowLock' = Free
  /\ UNCHANGED <<conversation, lastRead, messages, history>>

\* The insert and the update of the row, as they commit.  A local ID that is
\* taken breaks the unique index and rolls everything back.
SendCommit(p) ==
  /\ At(p, "sendCommit")
  /\ rowLock' = Free
  /\ LET id == req[p].newest + 1
     IN  IF \E i \in DOMAIN messages : messages[i].localID = id
         THEN Finish(p) /\ UNCHANGED <<messages, lastLocalID>>
         ELSE /\ messages' = Append(messages, [localID |-> id, sender |-> req[p].me])
              /\ lastLocalID' = id
              /\ req' = [req EXCEPT ![p].pc = "sendRecipients", ![p].item = id]
  /\ UNCHANGED <<dissolved, lastRead, history>>

\* Mutant: the recipients come from a list made before the first message.
SendRecipientsCached(p) ==
  /\ At(p, "sendRecipients")
  /\ req' = [req EXCEPT ![p].pc = "push",
                        ![p].recipients = {u \in Members : joinedAt[u] = 0} \ {req[p].me}]
  /\ UNCHANGED <<conversation, lastRead, messages, rowLock, history>>

\* The handler: GetConversationParticipantIDs, then one SendToUser each.  It
\* drops the error of that query and pushes to nobody; nor does it push when
\* the answer to the commit was lost and the transaction is taken to have failed.
SendRecipients(p) ==
  /\ At(p, "sendRecipients")
  /\ \/ /\ req' = [req EXCEPT ![p].pc = "push", ![p].recipients = Members \ {req[p].me}]
        /\ UNCHANGED unpushed
     \/ Goto(p, "push") /\ unpushed' = unpushed \cup {req[p].item}
  /\ UNCHANGED <<conversation, lastRead, messages, rowLock, pushed, joinedAt>>

Push(p) ==
  /\ At(p, "push")
  /\ \/ \E u \in req[p].recipients :
          /\ pushed' = pushed \cup {<<u, req[p].item>>}
          /\ req' = [req EXCEPT ![p].recipients = @ \ {u}]
     \/ req[p].recipients = {} /\ Finish(p) /\ UNCHANGED pushed
  /\ UNCHANGED <<conversation, lastRead, messages, rowLock, joinedAt, unpushed>>

-----------------------------------------------------------------------------
(* MarkAsRead: look the message up; then, in a transaction, advance the    *)
(* read position, read the newest local ID, read the position back.        *)

MarkLookup(p, u, i) ==
  /\ At(p, "idle")
  /\ req' = [req EXCEPT ![p].pc = "markUpdate", ![p].me = u, ![p].item = messages[i].localID]
  /\ UNCHANGED <<conversation, lastRead, messages, rowLock, history>>

\* Mutant: the position is the first message not read.
MarkUpdateNext(p) ==
  /\ At(p, "markUpdate")
  /\ LET u == req[p].me
     IN  lastRead' = IF u \in Members /\ lastRead[u] < req[p].item
                     THEN [lastRead EXCEPT ![u] = req[p].item + 1] ELSE lastRead
  /\ Goto(p, "markLast")
  /\ UNCHANGED <<conversation, messages, rowLock, history>>

MarkUpdate(p) ==
  /\ At(p, "markUpdate")
  /\ LET u == req[p].me
     IN  lastRead' = IF u \in Members /\ lastRead[u] < req[p].item
                     THEN [lastRead EXCEPT ![u] = req[p].item] ELSE lastRead
  /\ Goto(p, "markLast")
  /\ UNCHANGED <<conversation, messages, rowLock, history>>

MarkLast(p) ==
  /\ At(p, "markLast")
  /\ req' = [req EXCEPT ![p].pc = "markAnswer", ![p].newest = lastLocalID]
  /\ UNCHANGED <<conversation, lastRead, messages, rowLock, history>>

\* Mutant: the position is taken from the request, not read back.
MarkAnswerFromRequest(p) ==
  /\ At(p, "markAnswer")
  /\ IF req[p].me \in Members
     THEN req' = [req EXCEPT ![p].pc = "answered",
                             ![p].unread = Unread(req[p].newest, req[p].item)]
     ELSE Finish(p)
  /\ UNCHANGED <<conversation, lastRead, messages, rowLock, history>>

\* A user who is no participant gets an error.
MarkAnswer(p) ==
  /\ At(p, "markAnswer")
  /\ LET u == req[p].me
     IN  IF u \in Members
         THEN req' = [req EXCEPT ![p].pc = "answered",
                                 ![p].unread = Unread(req[p].newest, lastRead[u])]
         ELSE Finish(p)
  /\ UNCHANGED <<conversation, lastRead, messages, rowLock, history>>

-----------------------------------------------------------------------------
(* GetMessageList: check the member and the group, then fetch one page.  A *)
(* client reads on from the page token until there is none.                *)

\* How many of the rows are not before m in the order of local IDs.
Rank(found, m) == Cardinality({n \in found : n.localID >= m.localID})

\* The rows in descending order of their local IDs, a page of them at most.
NewestFirst(found) ==
  LET n == Cardinality(found)
  IN  [i \in 1 .. IF n < PageSize THEN n ELSE PageSize |->
         CHOOSE m \in found : Rank(found, m) = i]

\* Mutant: the message at the cursor is on the next page again.
PageInclusive(before) ==
  NewestFirst({m \in Range(messages) : before = 0 \/ m.localID <= before})

\* The page before a cursor (0: from the newest).
Page(before) ==
  NewestFirst({m \in Range(messages) : before = 0 \/ m.localID < before})

ListArrive(p, u) ==
  /\ Arrive(p, u, "listCheck")
  /\ UNCHANGED <<conversation, lastRead, messages, rowLock, history>>

ListCheck(p) ==
  /\ At(p, "listCheck")
  /\ IF req[p].me \in Members /\ ~dissolved THEN Goto(p, "listPage") ELSE Finish(p)
  /\ UNCHANGED <<conversation, lastRead, messages, rowLock, history>>

\* A full page carries a token, the local ID of its last message.
ListPage(p) ==
  /\ At(p, "listPage")
  /\ LET page == Page(req[p].cursor)
         more == Len(page) = PageSize
     IN  req' = [req EXCEPT ![p].got = @ \o [i \in DOMAIN page |-> page[i].localID],
                            ![p].cursor = IF more THEN page[PageSize].localID ELSE @,
                            ![p].pc = IF more THEN "listCheck" ELSE "listDone"]
  /\ UNCHANGED <<conversation, lastRead, messages, rowLock, history>>

\* The client has its answer: the unread count, or the whole history.
Reply(p) ==
  /\ At(p, "answered") \/ At(p, "listDone")
  /\ Finish(p)
  /\ UNCHANGED <<conversation, lastRead, messages, rowLock, history>>

-----------------------------------------------------------------------------
(* Group operations that touch this conversation, as they commit: all of   *)
(* them lock its row first, and refuse a dissolved group.  Who may do what *)
(* to whom is the matter of Groups.                                        *)

Locked == rowLock = Free /\ ~dissolved

\* addParticipantTx inserts a new row, whose read position is 0.
Join(u) ==
  /\ Locked /\ u \notin Members
  /\ lastRead' = [lastRead EXCEPT ![u] = 0]
  /\ joinedAt' = [joinedAt EXCEPT ![u] = Len(messages)]
  /\ UNCHANGED <<conversation, messages, rowLock, req, pushed, unpushed>>

\* Mutant: the conversation's row is not locked.
LeaveUnlocked(u) ==
  /\ ~dissolved /\ u \in Members
  /\ lastRead' = [lastRead EXCEPT ![u] = NotMember]
  /\ joinedAt' = [joinedAt EXCEPT ![u] = 0]
  /\ UNCHANGED <<conversation, messages, rowLock, req, pushed, unpushed>>

\* LeaveGroup and RemoveGroupMember delete the row.
Leave(u) ==
  /\ Locked /\ u \in Members
  /\ lastRead' = [lastRead EXCEPT ![u] = NotMember]
  /\ joinedAt' = [joinedAt EXCEPT ![u] = 0]
  /\ UNCHANGED <<conversation, messages, rowLock, req, pushed, unpushed>>

Dissolve ==
  /\ Locked
  /\ dissolved' = TRUE
  /\ UNCHANGED <<lastLocalID, lastRead, messages, rowLock, req, history>>

-----------------------------------------------------------------------------
Init ==
  /\ dissolved = FALSE /\ lastLocalID = 0
  /\ lastRead \in [Users -> {0, NotMember}]
  /\ messages = <<>> /\ rowLock = Free
  /\ req = [p \in Requests |-> Idle]
  /\ pushed = {} /\ joinedAt = [u \in Users |-> 0] /\ unpushed = {}

RequestStep(p) ==
  \/ \E u \in Users : SendArrive(p, u) \/ ListArrive(p, u)
  \/ \E u \in Users, i \in DOMAIN messages : MarkLookup(p, u, i)
  \/ SendLock(p) \/ SendCheck(p) \/ SendCommit(p) \/ SendRecipients(p) \/ Push(p)
  \/ MarkUpdate(p) \/ MarkLast(p) \/ MarkAnswer(p)
  \/ ListCheck(p) \/ ListPage(p) \/ Reply(p)

Next ==
  \/ \E p \in Requests : RequestStep(p)
  \/ \E u \in Users : Join(u) \/ Leave(u)
  \/ Dissolve

Spec == Init /\ [][Next]_vars

-----------------------------------------------------------------------------
\* Every variable stays in its domain, and a read position never passes the
\* newest message.
TypeOK ==
  /\ dissolved \in BOOLEAN /\ lastLocalID \in 0 .. MaxMessages
  /\ lastRead \in [Users -> (0 .. lastLocalID) \cup {NotMember}]
  /\ messages \in Seq([localID : 1 .. MaxMessages, sender : Users])
  /\ rowLock \in Requests \cup {Free}
  /\ req \in [Requests -> [pc : Places, me : Users \cup {Nobody},
                           item : 0 .. MaxMessages, newest : 0 .. MaxMessages,
                           recipients : SUBSET Users, unread : 0 .. MaxMessages,
                           cursor : 0 .. MaxMessages, got : Seq(1 .. MaxMessages)]]
  /\ pushed \subseteq Users \X (1 .. MaxMessages)
  /\ joinedAt \in [Users -> 0 .. MaxMessages] /\ unpushed \subseteq 1 .. MaxMessages

\* Once a send has finished its pushes, everyone who has been a member since
\* before the message was committed had it pushed, whoever joined or left in
\* between: the recipients are read after the commit.  The exception is a
\* message whose recipients could not be read, or whose commit was not heard of:
\* it reaches nobody until they fetch the history.
MembersGetTheirMessages ==
  \A i \in DOMAIN messages \ unpushed, u \in Members :
    \/ u = messages[i].sender \/ joinedAt[u] >= i \/ <<u, i>> \in pushed
    \/ \E p \in Requests :
         /\ req[p].item = i
         /\ At(p, "sendRecipients") \/ (At(p, "push") /\ u \in req[p].recipients)

\* A client that follows the page tokens to the end has seen the history, from
\* the newest message of its first page to the first message, each once and in
\* order, however many messages were sent meanwhile.
WalkIsComplete ==
  \A p \in Requests :
    LET got == req[p].got
    IN  /\ \A i \in 2 .. Len(got) : got[i] = got[i - 1] - 1
        /\ At(p, "listDone") /\ got # <<>> => Last(got) = 1

\* The log that a table of messages holds, by local ID.
LogOf(table) ==
  [i \in {m.localID : m \in Range(table)} |-> (CHOOSE m \in Range(table) : m.localID = i).sender]

\* The abstract conversation.
Log == INSTANCE ConversationLog WITH
         log <- LogOf(messages), newest <- lastLocalID, position <- lastRead, closed <- dissolved

\* The statements implement the abstract conversation.  Local IDs are 1, 2, 3,
\* ... without gap or repeat and the row holds the newest (the comment of
\* SendMessage: the pessimistic lock keeps LocalID growing by one); a message
\* is committed only while its sender is a member of a group that is not
\* dissolved, so that no leave, removal or dissolution slips between the checks
\* of SendMessage and its insert; and a read position only advances, never past
\* the newest message, though marks of one user may be carried out in any order.
ImplementsConversationLog == Log!Spec

\* The unread count answered to a member never exceeds the true one at that
\* moment, though its two terms are read by different statements.
UnreadNeverOverstated ==
  [][\A p \in Requests :
       At(p, "markAnswer") /\ req'[p].pc = "answered"
         => req'[p].unread <= lastLocalID - lastRead[req[p].me]]_vars
=============================================================================
