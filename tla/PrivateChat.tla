----------------------------- MODULE PrivateChat -----------------------------
(***************************************************************************)
(* Follows, blocks and private conversations, statement by statement:      *)
(* Follow, Unfollow, Block, Unblock (relation_service.go) and the private  *)
(* branches of CreateConversation and SendMessage (chat_service.go).       *)
(*                                                                         *)
(* Several requests are served at once, one goroutine each.  A statement   *)
(* outside a transaction commits by itself; a transaction that takes no    *)
(* lock is one step, its commit; SendMessage holds the row lock of its     *)
(* conversation over several statements, and its relation checks run       *)
(* outside that transaction, on committed data.                            *)
(***************************************************************************)
EXTENDS Naturals

CONSTANTS Users, Requests,   \* users, and the goroutines that serve them
          Convs,             \* primary keys of conversations
          FreeMessages,      \* messages allowed without a follow back (3)
          MaxSent,           \* bound: messages of a sender in a conversation
          Free, Nobody

ASSUME PrivateChatAssumption ==
  /\ FreeMessages \in Nat /\ MaxSent \in Nat
  /\ Free \notin Requests /\ Nobody \notin Users

VARIABLES follows, blocks,   \* the tables relations and block_relations
          pairs,             \* private conversation -> its two participants
          sent,              \* sent[c][u]: u's messages in c
          rowLock,           \* holder of the row lock of each conversation
          pc, me, other, conv,   \* what each goroutine does, for whom, where
          everFollowed,      \* history: every follow there has been
          blocked, stranger  \* history: all along a request, a block between
                             \* the two users stood, or the first user did
                             \* not follow the second

tables  == <<follows, blocks, pairs, sent>>
request == <<me, other, conv>>
allAlong == <<blocked, stranger>>
vars == <<tables, rowLock, pc, request, everFollowed, allAlong>>

Places == {"idle", "follow", "followCheck", "followCreate", "block", "blockTx",
           "create", "createFollowing", "createExists", "createTx",
           "lock", "sendBlock", "sendFollowing", "sendBack", "sendInsert"}

Goto(p, at) == pc' = [pc EXCEPT ![p] = at]

\* HasBlockingRelation, in either direction.
HasBlock(B, u, v) == <<u, v>> \in B \/ <<v, u>> \in B

\* A check that fails ends the request with an error.
Check(p, ok, next) == Goto(p, IF ok THEN next ELSE "idle")

-----------------------------------------------------------------------------
\* A request arrives: op for v, on behalf of u.
Arrive(p, u, v, op) ==
  /\ pc[p] = "idle" /\ u # v
  /\ me' = [me EXCEPT ![p] = u]
  /\ other' = [other EXCEPT ![p] = v]
  /\ blocked' = [blocked EXCEPT ![p] = HasBlock(blocks, u, v)]
  /\ stranger' = [stranger EXCEPT ![p] = <<u, v>> \notin follows]
  /\ \/ op \in {"follow", "block", "create"} /\ UNCHANGED conv
     \/ /\ op = "lock"
        /\ \E c \in DOMAIN pairs :
             /\ pairs[c] = {u, v} /\ sent[c][u] < MaxSent
             /\ conv' = [conv EXCEPT ![p] = c]
  /\ Goto(p, op)
  /\ UNCHANGED <<tables, rowLock, everFollowed>>

\* Unfollow and Unblock are one statement each.
Unfollow(u, v) ==
  /\ <<u, v>> \in follows
  /\ follows' = follows \ {<<u, v>>}
  /\ UNCHANGED <<blocks, pairs, sent, rowLock, pc, request, everFollowed, allAlong>>

Unblock(u, v) ==
  /\ <<u, v>> \in blocks
  /\ blocks' = blocks \ {<<u, v>>}
  /\ blocked' = [p \in Requests |-> blocked[p] /\ HasBlock(blocks', me[p], other[p])]
  /\ UNCHANGED <<follows, pairs, sent, rowLock, pc, request, everFollowed, stranger>>

-----------------------------------------------------------------------------
(* Follow: check for blocks, check for the row, insert it. *)

FollowBlockCheck(p) ==
  /\ pc[p] = "follow"
  /\ Check(p, ~HasBlock(blocks, me[p], other[p]), "followCheck")
  /\ UNCHANGED <<tables, rowLock, request, everFollowed, allAlong>>

FollowExistsCheck(p) ==
  /\ pc[p] = "followCheck"
  /\ Check(p, <<me[p], other[p]>> \notin follows, "followCreate")
  /\ UNCHANGED <<tables, rowLock, request, everFollowed, allAlong>>

\* The unique index turns a second insert into an error.
FollowCreate(p) ==
  /\ pc[p] = "followCreate"
  /\ follows' = follows \cup {<<me[p], other[p]>>}
  /\ everFollowed' = everFollowed \cup {<<me[p], other[p]>>}
  /\ stranger' = [q \in Requests |-> stranger[q] /\ <<me[q], other[q]>> \notin follows']
  /\ Goto(p, "idle")
  /\ UNCHANGED <<blocks, pairs, sent, rowLock, request, blocked>>

(* Block: check for the row; then, in a transaction, insert it and delete  *)
(* the follows of both directions.                                         *)

BlockCheck(p) ==
  /\ pc[p] = "block"
  /\ Check(p, <<me[p], other[p]>> \notin blocks, "blockTx")
  /\ UNCHANGED <<tables, rowLock, request, everFollowed, allAlong>>

BlockTx(p) ==
  /\ pc[p] = "blockTx"
  /\ LET pair == <<me[p], other[p]>>
     IN  IF pair \in blocks
         THEN UNCHANGED <<blocks, follows>>
         ELSE /\ blocks' = blocks \cup {pair}
              /\ follows' = follows \ {pair, <<other[p], me[p]>>}
  /\ Goto(p, "idle")
  /\ UNCHANGED <<pairs, sent, rowLock, request, everFollowed, allAlong>>

-----------------------------------------------------------------------------
(* CreateConversation, type PRIVATE: three checks, then the transaction.   *)

CreateBlockCheck(p) ==
  /\ pc[p] = "create"
  /\ Check(p, ~HasBlock(blocks, me[p], other[p]), "createFollowing")
  /\ UNCHANGED <<tables, rowLock, request, everFollowed, allAlong>>

\* Mutant: the direction of the follow is confused.
CreateFollowerCheck(p) ==
  /\ pc[p] = "createFollowing"
  /\ Check(p, <<other[p], me[p]>> \in follows, "createExists")
  /\ UNCHANGED <<tables, rowLock, request, everFollowed, allAlong>>

CreateFollowingCheck(p) ==
  /\ pc[p] = "createFollowing"
  /\ Check(p, <<me[p], other[p]>> \in follows, "createExists")
  /\ UNCHANGED <<tables, rowLock, request, everFollowed, allAlong>>

\* An existing conversation of the two is returned as it is.
CreateExistsCheck(p) ==
  /\ pc[p] = "createExists"
  /\ Check(p, \A c \in DOMAIN pairs : pairs[c] # {me[p], other[p]}, "createTx")
  /\ UNCHANGED <<tables, rowLock, request, everFollowed, allAlong>>

\* The rows of one more conversation, and of its two participants.
WithPair(c, u, v) ==
  [d \in DOMAIN pairs \cup {c} |-> IF d = c THEN {u, v} ELSE pairs[d]]

\* The rows are written together, or the transaction fails as a whole.
CreateTx(p) ==
  /\ pc[p] = "createTx"
  /\ \/ UNCHANGED pairs
     \/ \E c \in Convs \ DOMAIN pairs : pairs' = WithPair(c, me[p], other[p])
  /\ Goto(p, "idle")
  /\ UNCHANGED <<follows, blocks, sent, rowLock, request, everFollowed, allAlong>>

-----------------------------------------------------------------------------
(* SendMessage in a private conversation: lock the row, then check.        *)

\* Mutant: the row is read without FOR UPDATE.
ReadConversation(p) ==
  /\ pc[p] = "lock"
  /\ sent[conv[p]][me[p]] < MaxSent
  /\ rowLock' = [rowLock EXCEPT ![conv[p]] = p]
  /\ Goto(p, "sendBlock")
  /\ UNCHANGED <<tables, request, everFollowed, allAlong>>

LockConversation(p) ==
  /\ pc[p] = "lock"
  /\ rowLock[conv[p]] = Free /\ sent[conv[p]][me[p]] < MaxSent
  /\ rowLock' = [rowLock EXCEPT ![conv[p]] = p]
  /\ Goto(p, "sendBlock")
  /\ UNCHANGED <<tables, request, everFollowed, allAlong>>

\* A check inside the transaction: if it fails, rollback releases the lock.
LockedCheck(p, ok, next) ==
  /\ Check(p, ok, next)
  /\ rowLock' = IF ok THEN rowLock ELSE [rowLock EXCEPT ![conv[p]] = Free]

\* Mutant: only the sender's own blocks count.
SendOwnBlockCheck(p) ==
  /\ pc[p] = "sendBlock"
  /\ LockedCheck(p, <<me[p], other[p]>> \notin blocks, "sendFollowing")
  /\ UNCHANGED <<tables, request, everFollowed, allAlong>>

SendBlockCheck(p) ==
  /\ pc[p] = "sendBlock"
  /\ LockedCheck(p, ~HasBlock(blocks, me[p], other[p]), "sendFollowing")
  /\ UNCHANGED <<tables, request, everFollowed, allAlong>>

SendFollowingCheck(p) ==
  /\ pc[p] = "sendFollowing"
  /\ LockedCheck(p, <<me[p], other[p]>> \in follows, "sendBack")
  /\ UNCHANGED <<tables, request, everFollowed, allAlong>>

\* Not followed back: the sender's messages in the conversation are counted.
SendLimitCheck(p) ==
  /\ pc[p] = "sendBack"
  /\ LockedCheck(p, \/ <<other[p], me[p]>> \in follows
                    \/ sent[conv[p]][me[p]] < FreeMessages, "sendInsert")
  /\ UNCHANGED <<tables, request, everFollowed, allAlong>>

SendInsert(p) ==
  /\ pc[p] = "sendInsert"
  /\ sent' = [sent EXCEPT ![conv[p]][me[p]] = @ + 1]
  /\ rowLock' = [rowLock EXCEPT ![conv[p]] = Free]
  /\ Goto(p, "idle")
  /\ UNCHANGED <<follows, blocks, pairs, request, everFollowed, allAlong>>

-----------------------------------------------------------------------------
Init ==
  /\ follows = {} /\ blocks = {}
  /\ pairs = [c \in {} |-> {}]
  /\ sent = [c \in Convs |-> [u \in Users |-> 0]]
  /\ rowLock = [c \in Convs |-> Free]
  /\ pc = [p \in Requests |-> "idle"]
  /\ me = [p \in Requests |-> Nobody] /\ other = [p \in Requests |-> Nobody]
  /\ conv = [p \in Requests |-> Nobody]
  /\ everFollowed = {}
  /\ blocked = [p \in Requests |-> FALSE] /\ stranger = [p \in Requests |-> FALSE]

Step(p) ==
  \/ FollowBlockCheck(p) \/ FollowExistsCheck(p) \/ FollowCreate(p)
  \/ BlockCheck(p) \/ BlockTx(p)
  \/ CreateBlockCheck(p) \/ CreateFollowingCheck(p) \/ CreateExistsCheck(p) \/ CreateTx(p)
  \/ LockConversation(p)
  \/ SendBlockCheck(p) \/ SendFollowingCheck(p) \/ SendLimitCheck(p) \/ SendInsert(p)

Next ==
  \/ \E u, v \in Users : Unfollow(u, v) \/ Unblock(u, v)
  \/ \E p \in Requests : Step(p)
  \/ \E p \in Requests, u, v \in Users, op \in {"follow", "block", "create", "lock"} :
       Arrive(p, u, v, op)

Spec == Init /\ [][Next]_vars

-----------------------------------------------------------------------------
\* Every variable stays in its domain.
TypeOK ==
  /\ follows \subseteq Users \X Users /\ blocks \subseteq Users \X Users
  /\ DOMAIN pairs \subseteq Convs
  /\ pairs \in [DOMAIN pairs -> SUBSET Users]
  /\ sent \in [Convs -> [Users -> 0 .. MaxSent]]
  /\ rowLock \in [Convs -> Requests \cup {Free}]
  /\ pc \in [Requests -> Places]
  /\ me \in [Requests -> Users \cup {Nobody}]
  /\ other \in [Requests -> Users \cup {Nobody}]
  /\ conv \in [Requests -> Convs \cup {Nobody}]
  /\ everFollowed \subseteq Users \X Users
  /\ blocked \in [Requests -> BOOLEAN] /\ stranger \in [Requests -> BOOLEAN]

\* A block that stands from before a request arrives until its last step stops
\* it: it never gets to create a follow, a conversation or a message between
\* the two users.  (A block that comes after the check does not.)
BlockStops ==
  \A p \in Requests :
    pc[p] \in {"followCreate", "createTx", "sendInsert"} => ~blocked[p]

\* A user opens a private conversation and writes in it only if at some moment
\* of the request the user followed the other, whatever follows, blocks and
\* unfollows other requests commit between the checks.
FollowNeeded ==
  \A p \in Requests : pc[p] \in {"createTx", "sendInsert"} => ~stranger[p]

\* While v has never followed u, u has at most FreeMessages messages in a
\* conversation with v, however many requests of u race: the count is read and
\* the message inserted under one hold of the row lock.
LimitPerConversation ==
  \A c \in DOMAIN pairs, u, v \in Users :
    pairs[c] = {u, v} /\ u # v /\ <<v, u>> \notin everFollowed
      => sent[c][u] <= FreeMessages

\* The comments of CreateConversation: check whether a private conversation
\* exists; it does not, so create one.  Two people have at most one.
OnePrivateConversation ==
  \A c, d \in DOMAIN pairs : pairs[c] = pairs[d] => c = d
=============================================================================
