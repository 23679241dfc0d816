-------------------------------- MODULE GroupTx --------------------------------
(***************************************************************************)
(* The group operations of ChatService as the transactions they are: each  *)
(* locks rows (SELECT ... FOR UPDATE) one after another, checks what it    *)
(* reads on the way, and commits writes that it computes from what it has  *)
(* read.  SendMessage and MarkAsRead change no table of Groups and are     *)
(* here for the rows they lock.                                            *)
(*                                                                         *)
(* A lock is held until its transaction ends; a plain read is not blocked  *)
(* and sees what is committed (READ COMMITTED).  A check that fails and an *)
(* error of the database roll the transaction back.                        *)
(***************************************************************************)
EXTENDS Groups

CONSTANTS Txs,          \* goroutines that run a transaction
          MaxOps        \* bound: transactions that change a table

ASSUME GroupTxAssumption ==
  /\ IsFiniteSet(Txs) /\ MaxOps \in Nat
  /\ Nobody \notin Convs \cup Reqs \cup Invs

VARIABLES tx,     \* what each goroutine does, and its local variables
          held,   \* the rows each transaction has locked
          done    \* how many transactions have changed a table

txVars == <<tx, held, done>>
allVars == <<vars, txVars>>

\* The kinds whose transaction calls getGroupActorContext, and all kinds.
ByActor == {"profile", "announce", "role", "transfer", "remove", "leave", "dissolve", "review", "invite"}
Kinds   == ByActor \cup {"apply", "respond", "send", "mark"}

\* The kinds of requests about a user, who in the others is the user u itself.
ByTarget == {"role", "transfer", "remove", "invite"}

\* A request: its kind, the user, the conversation or the join request or
\* invitation it names, the user it is about, and the choice it makes.
Ops ==
  {op \in [kind : Kinds, u : Users, c : Convs \cup {Nobody}, id : Reqs \cup Invs \cup {Nobody},
           target : Users, choice : JoinModes \cup {"admin", "member", "yes", "no", ""}] :
     /\ op.c = Nobody <=> op.kind \in {"review", "respond"}
     /\ op.id \in CASE op.kind = "review"  -> Reqs
                    [] op.kind = "respond" -> Invs
                    [] OTHER               -> {Nobody}
     /\ op.target = op.u \/ op.kind \in ByTarget
     /\ op.choice \in CASE op.kind = "profile"               -> JoinModes
                        [] op.kind = "role"                  -> {"admin", "member"}
                        [] op.kind \in {"review", "respond"} -> {"yes", "no"}
                        [] OTHER                             -> {""}}

Idle == [at |-> "idle", op |-> Nobody, c |-> Nobody, conv |-> Nobody,
         item |-> Nobody, role |-> NotMember, targetRole |-> NotMember]

At(p, place) == tx[p].at = place
Active(p) == ~At(p, "idle")
Kind(p) == tx[p].op.kind

-----------------------------------------------------------------------------
(* Row locks. *)

\* The row that p locks next, when it is about to lock one.
Wanted(p) ==
  LET op == tx[p].op
  IN  CASE At(p, "item")   -> <<op.kind, op.id>>
        [] At(p, "conv")   -> <<"conversation", tx[p].c>>
        [] At(p, "actor")  -> <<"participant", tx[p].c, op.u>>
        [] At(p, "target") -> <<"participant", tx[p].c, op.target>>
        [] OTHER           -> <<"none">>

WaitsFor(p, q) == p # q /\ Wanted(p) \in held[q]

\* FOR UPDATE: wait until nobody else holds the row, and hold it.
Lock(p) ==
  /\ \A q \in Txs : ~WaitsFor(p, q)
  /\ held' = [held EXCEPT ![p] = @ \cup {Wanted(p)}]

-----------------------------------------------------------------------------
(* A transaction, statement by statement. *)

Begin(p, op) ==
  /\ At(p, "idle")
  /\ done + Cardinality({q \in Txs : Active(q)}) < MaxOps
  /\ tx' = [tx EXCEPT ![p] = [Idle EXCEPT
              !.op = op, !.c = op.c,
              !.at = CASE op.kind \in {"review", "respond"} -> "item"
                       [] op.kind = "mark" -> "actor"
                       [] OTHER -> "conv"]]
  /\ UNCHANGED <<vars, held, done>>

\* The join request or invitation, which names the conversation.
LockItem(p) ==
  /\ At(p, "item") /\ Lock(p)
  /\ LET op == tx[p].op
         table == IF op.kind = "review" THEN joinRequests ELSE invitations
     IN  /\ op.id \in DOMAIN table
         /\ op.kind = "respond" => /\ table[op.id].inviteeID = op.u
                                   /\ table[op.id].status = "pending"
         /\ tx' = [tx EXCEPT ![p].item = table[op.id],
                             ![p].c = table[op.id].conversationID,
                             ![p].at = "conv"]
  /\ UNCHANGED <<vars, done>>

\* Mutant: the conversation is read without FOR UPDATE.
ReadConversation(p) ==
  /\ At(p, "conv") /\ UNCHANGED held
  /\ tx[p].c \in DOMAIN conversations
  /\ LET kind == Kind(p)
         row == conversations[tx[p].c]
     IN  /\ kind \in ByActor \cup {"apply"} => row.type = "group"
         /\ kind \in {"apply", "respond"} => row.status # "dissolved"
         /\ kind = "apply" => row.joinMode # "private"
         /\ tx' = [tx EXCEPT ![p].conv = row,
                             ![p].at = IF kind \in ByActor THEN "actor"
                                       ELSE IF kind = "apply" THEN "count" ELSE "commit"]
  /\ UNCHANGED <<vars, done>>

LockConversation(p) ==
  /\ At(p, "conv") /\ Lock(p)
  /\ tx[p].c \in DOMAIN conversations
  /\ LET kind == Kind(p)
         row == conversations[tx[p].c]
     IN  /\ kind \in ByActor \cup {"apply"} => row.type = "group"
         /\ kind \in {"apply", "respond"} => row.status # "dissolved"
         /\ kind = "apply" => row.joinMode # "private"
         /\ tx' = [tx EXCEPT ![p].conv = row,
                             ![p].at = IF kind \in ByActor THEN "actor"
                                       ELSE IF kind = "apply" THEN "count" ELSE "commit"]
  /\ UNCHANGED <<vars, done>>

\* What the role of the user allows, requireActiveGroup included.
ActorMay(kind, role, t) ==
  /\ t.conv.status # "dissolved"
  /\ kind \in {"role", "transfer", "dissolve"} => role = "owner"
  /\ kind \in {"profile", "announce", "review", "invite"} => role \in {"owner", "admin"}
  /\ kind = "leave" => role # "owner"
  /\ kind = "review" => t.item.status = "pending"
  /\ kind \in {"transfer", "remove"} => t.op.target # t.op.u

\* Mutant: MarkAsRead locks the conversation as well, after the participant.
LockActorThenConversation(p) ==
  /\ At(p, "actor") /\ Lock(p)
  /\ tx[p].c \in DOMAIN conversations
  /\ LET kind == Kind(p)
         role == participants[tx[p].c][tx[p].op.u]
     IN  /\ role # NotMember
         /\ kind # "mark" => ActorMay(kind, role, tx[p])
         /\ tx' = [tx EXCEPT ![p].role = role,
                             ![p].at = IF kind \in {"role", "transfer", "remove"} THEN "target"
                                       ELSE IF kind = "mark" THEN "conv"
                                       ELSE IF kind = "invite" THEN "count" ELSE "commit"]
  /\ UNCHANGED <<vars, done>>

\* The user's own row.  MarkAsRead locks no other, and that by updating it.
LockActor(p) ==
  /\ At(p, "actor") /\ Lock(p)
  /\ tx[p].c \in DOMAIN conversations
  /\ LET kind == Kind(p)
         role == participants[tx[p].c][tx[p].op.u]
     IN  /\ role # NotMember
         /\ kind # "mark" => ActorMay(kind, role, tx[p])
         /\ tx' = [tx EXCEPT ![p].role = role,
                             ![p].at = IF kind \in {"role", "transfer", "remove"} THEN "target"
                                       ELSE IF kind = "invite" THEN "count" ELSE "commit"]
  /\ UNCHANGED <<vars, done>>

LockTarget(p) ==
  /\ At(p, "target") /\ Lock(p)
  /\ LET role == participants[tx[p].c][tx[p].op.target]
     IN  /\ role # NotMember
         /\ Kind(p) = "role" => role # "owner"
         /\ Kind(p) = "remove" => Manageable(tx[p].role, role)
         /\ tx' = [tx EXCEPT ![p].targetRole = role, ![p].at = "commit"]
  /\ UNCHANGED <<vars, done>>

\* Plain reads: is the user already in, is an admission of theirs pending?
Count(p) ==
  /\ At(p, "count")
  /\ LET c == tx[p].c
         op == tx[p].op
     IN  /\ ~IsMember(c, op.target)
         /\ IF op.kind = "apply" THEN ~PendingRequest(c, op.target)
                                 ELSE ~PendingInvitation(c, op.target)
  /\ tx' = [tx EXCEPT ![p].at = "commit"]
  /\ UNCHANGED <<vars, held, done>>

End(p) == tx' = [tx EXCEPT ![p] = Idle] /\ held' = [held EXCEPT ![p] = {}]

Rollback(p) == Active(p) /\ End(p) /\ UNCHANGED <<vars, done>>

-----------------------------------------------------------------------------
(* The writes of each kind, computed from what t has read. *)

WriteConversation(t) ==
  LET c == t.c
  IN  /\ \/ /\ t.op.kind = "profile"
            /\ conversations' = [conversations EXCEPT ![c].joinMode = t.op.choice]
         \/ /\ t.op.kind = "announce"
            /\ conversations' = [conversations EXCEPT ![c].announcedBy = t.op.u]
         \/ /\ t.op.kind = "dissolve"
            /\ conversations' = [conversations EXCEPT ![c].status = "dissolved"]
      /\ UNCHANGED <<participants, joinRequests, invitations>>

WriteParticipants(t) ==
  LET c == t.c
  IN  /\ \/ /\ t.op.kind = "role"
            /\ participants' = WithRole(c, t.op.target, t.op.choice)
            /\ UNCHANGED conversations
         \/ /\ t.op.kind = "transfer"
            /\ participants' = [participants EXCEPT ![c][t.op.u] = "member",
                                                    ![c][t.op.target] = "owner"]
            /\ conversations' = [conversations EXCEPT ![c].ownerID = t.op.target]
         \/ /\ t.op.kind \in {"remove", "leave"}
            /\ participants' = WithRole(c, t.op.target, NotMember)
            /\ UNCHANGED conversations
      /\ UNCHANGED <<joinRequests, invitations>>

WriteRequest(t) ==
  LET public == t.conv.joinMode = "public"
      yes == t.op.choice = "yes"
  IN  /\ \/ \E r \in Reqs \ DOMAIN joinRequests :
              /\ t.op.kind = "apply"
              /\ joinRequests' = WithRow(joinRequests, r,
                   [conversationID |-> t.c, applicantID |-> t.op.u,
                    status |-> IF public THEN "approved" ELSE "pending",
                    reviewedBy |-> IF public THEN t.conv.ownerID ELSE Nobody])
              /\ participants' = IF public THEN WithParticipant(t.c, t.op.u) ELSE participants
         \/ /\ t.op.kind = "review"
            /\ joinRequests' = [joinRequests EXCEPT
                 ![t.op.id].status = IF yes THEN "approved" ELSE "rejected",
                 ![t.op.id].reviewedBy = t.op.u]
            /\ participants' = IF yes THEN WithParticipant(t.c, t.item.applicantID)
                                      ELSE participants
      /\ UNCHANGED <<conversations, invitations>>

WriteInvitation(t) ==
  LET yes == t.op.choice = "yes"
  IN  /\ \/ \E i \in Invs \ DOMAIN invitations :
              /\ t.op.kind = "invite"
              /\ invitations' = WithRow(invitations, i,
                   [conversationID |-> t.c, inviteeID |-> t.op.target, status |-> "pending"])
              /\ UNCHANGED participants
         \/ /\ t.op.kind = "respond"
            /\ invitations' = [invitations EXCEPT
                 ![t.op.id].status = IF yes THEN "accepted" ELSE "rejected"]
            /\ participants' = IF yes THEN WithParticipant(t.c, t.op.u) ELSE participants
      /\ UNCHANGED <<conversations, joinRequests>>

Commit(p) ==
  /\ At(p, "commit") /\ End(p)
  /\ LET t == tx[p]
     IN  \/ WriteConversation(t) \/ WriteParticipants(t)
         \/ WriteRequest(t) \/ WriteInvitation(t)
  /\ done' = done + 1

\* The end of SendMessage and MarkAsRead.
CommitMessages(p) ==
  /\ At(p, "commit") /\ Kind(p) \in {"send", "mark"} /\ End(p)
  /\ UNCHANGED <<vars, done>>

-----------------------------------------------------------------------------
TxInit ==
  /\ Init
  /\ tx = [p \in Txs |-> Idle]
  /\ held = [p \in Txs |-> {}]
  /\ done = 0

Step(p) ==
  \/ \E op \in Ops : Begin(p, op)
  \/ LockItem(p) \/ LockConversation(p) \/ LockActor(p) \/ LockTarget(p)
  \/ Count(p) \/ Commit(p) \/ CommitMessages(p) \/ Rollback(p)

\* CreateConversation locks nothing: all its rows are new.
Create ==
  /\ \E u \in Users, c \in Convs :
       \/ \E invited \in SUBSET Users, mode \in JoinModes : CreateGroup(u, c, invited, mode)
       \/ \E v \in Users : CreatePrivate(u, v, c)
  /\ UNCHANGED txVars

TxNext == Create \/ \E p \in Txs : Step(p)

TxSpec == TxInit /\ [][TxNext]_allVars

-----------------------------------------------------------------------------
\* Every variable stays in its domain.
TxTypeOK ==
  /\ TypeOK
  /\ tx \in [Txs -> [at : {"idle", "item", "conv", "actor", "target", "count", "commit"},
                     op : Ops \cup {Nobody}, c : Convs \cup {Nobody},
                     conv : Conversation \cup {Nobody},
                     item : JoinRequest \cup Invitation \cup {Nobody},
                     role : Roles \cup {NotMember}, targetRole : Roles \cup {NotMember}]]
  /\ DOMAIN held = Txs
  /\ done \in 0 .. MaxOps

\* The transactions do what the atomic operations of Groups do: every commit
\* is a step of Groups whose guard holds at that moment, and nothing else
\* changes the tables.
ImplementsGroups == Spec

\* What a transaction has read and will decide by is still true when it
\* commits: the rows it locked are as it read them, and the users it found to
\* be no members, with nothing pending, still are, though no row locks that.
ReadsStillHold ==
  \A p \in Txs :
    LET t == tx[p]
    IN  /\ t.conv # Nobody => t.c \in DOMAIN conversations /\ conversations[t.c] = t.conv
        /\ t.role # NotMember => participants[t.c][t.op.u] = t.role
        /\ t.targetRole # NotMember => participants[t.c][t.op.target] = t.targetRole
        /\ t.item # Nobody =>
             t.item = IF Kind(p) = "review" THEN joinRequests[t.op.id] ELSE invitations[t.op.id]
        /\ At(p, "commit") /\ Kind(p) \in {"apply", "invite"} =>
             /\ ~IsMember(t.c, t.op.target)
             /\ IF Kind(p) = "apply" THEN ~PendingRequest(t.c, t.op.target)
                                     ELSE ~PendingInvitation(t.c, t.op.target)

\* No transactions wait for each other in a circle, though some lock a request
\* or an invitation before the conversation and some a participant alone.
NoDeadlock ==
  ~ \E S \in (SUBSET Txs) \ {{}} : \A p \in S : \E q \in S : WaitsFor(p, q)
=============================================================================
