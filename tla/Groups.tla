------------------------------- MODULE Groups -------------------------------
(***************************************************************************)
(* The membership store of the chat service: conversations, participants,  *)
(* join requests and invitations, and every operation of ChatService that  *)
(* changes them (src/backend/internal/service/chat_service.go).            *)
(*                                                                         *)
(* Each operation is one database transaction whose first statement on     *)
(* the conversation takes its row FOR UPDATE, so an operation is one       *)
(* action here; GroupTx has the transactions and implements this module.   *)
(* A transaction that fails leaves the tables as they were and is therefore*)
(* no step at all.  Names, avatars, texts and the inviter of an invitation *)
(* show in replies only and are left out.  Relations (follow, block) are   *)
(* read before the transaction: any outcome of those checks is possible.   *)
(***************************************************************************)
EXTENDS Naturals, FiniteSets

CONSTANTS Users,      \* UIDs of registered users
          Convs,      \* primary keys of the table conversations
          Reqs,       \* primary keys of the table group_join_requests
          Invs,       \* primary keys of the table group_invitations
          Nobody      \* a NULL or unset user reference

ASSUME NobodyAssumption == Nobody \notin Users

VARIABLES conversations,   \* conversation id -> row
          participants,    \* participants[c][u]: u's role in c, or NotMember
          joinRequests,    \* join request id -> row
          invitations      \* invitation id -> row

vars == <<conversations, participants, joinRequests, invitations>>

-----------------------------------------------------------------------------
JoinModes == {"private", "approval", "public"}
NotMember == "none"
Roles     == {"owner", "admin", "member"}

Conversation == [type : {"private", "group"}, ownerID : Users \cup {Nobody},
                 joinMode : JoinModes, status : {"active", "dissolved"},
                 announcedBy : Users \cup {Nobody}]

JoinRequest == [conversationID : Convs, applicantID : Users,
                status : {"pending", "approved", "rejected"},
                reviewedBy : Users \cup {Nobody}]

Invitation == [conversationID : Convs, inviteeID : Users,
               status : {"pending", "accepted", "rejected"}]

\* A table with one more row: its key becomes part of the domain.
WithRow(table, id, row) ==
  [i \in DOMAIN table \cup {id} |-> IF i = id THEN row ELSE table[i]]

\* A table keyed by some of Keys whose rows follow Schema.
TableOf(table, Keys, Schema) ==
  DOMAIN table \subseteq Keys /\ table \in [DOMAIN table -> Schema]

IsMember(c, u) == participants[c][u] # NotMember

\* Mutant: the type of the conversation is not looked at.
ActorContextOfAnyType(c, u) ==
  c \in DOMAIN conversations /\ IsMember(c, u)

\* getGroupActorContext: the group exists and u takes part in it.
ActorContext(c, u) ==
  /\ c \in DOMAIN conversations
  /\ conversations[c].type = "group"
  /\ IsMember(c, u)

\* requireActiveGroup
ActiveGroup(c) == conversations[c].status # "dissolved"

\* hasAnyRole(role, owner, admin)
IsStaff(c, u) == participants[c][u] \in {"owner", "admin"}

\* isGroupRoleManageable(actorRole, targetRole)
Manageable(actorRole, targetRole) ==
  \/ actorRole = "owner" /\ targetRole # "owner"
  \/ actorRole = "admin" /\ targetRole = "member"

\* Mutant: the row is created without its role.
WithParticipantNoRole(c, u) ==
  IF IsMember(c, u) THEN participants
                    ELSE [participants EXCEPT ![c][u] = ""]

\* addParticipantTx: FirstOrCreate keeps the row of a user already in.
WithParticipant(c, u) ==
  IF IsMember(c, u) THEN participants
                    ELSE [participants EXCEPT ![c][u] = "member"]

WithRole(c, u, role) == [participants EXCEPT ![c][u] = role]

PendingRequest(c, u) ==
  \E r \in DOMAIN joinRequests :
    /\ joinRequests[r].conversationID = c
    /\ joinRequests[r].applicantID = u
    /\ joinRequests[r].status = "pending"

PendingInvitation(c, u) ==
  \E i \in DOMAIN invitations :
    /\ invitations[i].conversationID = c
    /\ invitations[i].inviteeID = u
    /\ invitations[i].status = "pending"

-----------------------------------------------------------------------------
\* CreateConversation, type GROUP: the creator owns it; at least 3 people.
CreateGroup(u, c, invited, mode) ==
  /\ c \in Convs \ DOMAIN conversations
  /\ Cardinality(invited \cup {u}) >= 3
  /\ conversations' = WithRow(conversations, c,
       [type |-> "group", ownerID |-> u, joinMode |-> mode,
        status |-> "active", announcedBy |-> Nobody])
  /\ participants' = [participants EXCEPT ![c] =
       [v \in Users |-> IF v = u THEN "owner"
                        ELSE IF v \in invited THEN "member" ELSE NotMember]]
  /\ UNCHANGED <<joinRequests, invitations>>

\* CreateConversation, type PRIVATE: exactly two plain participants.
CreatePrivate(u, v, c) ==
  /\ c \in Convs \ DOMAIN conversations
  /\ u # v
  /\ conversations' = WithRow(conversations, c,
       [type |-> "private", ownerID |-> Nobody, joinMode |-> "private",
        status |-> "active", announcedBy |-> Nobody])
  /\ participants' = [participants EXCEPT ![c] =
       [w \in Users |-> IF w \in {u, v} THEN "member" ELSE NotMember]]
  /\ UNCHANGED <<joinRequests, invitations>>

\* UpdateGroupProfile: the join mode is the part of the profile other
\* operations read; leaving it unspecified is choosing the current one.
UpdateGroupProfile(u, c, mode) ==
  /\ ActorContext(c, u)
  /\ ActiveGroup(c)
  /\ IsStaff(c, u)
  /\ conversations' = [conversations EXCEPT ![c].joinMode = mode]
  /\ UNCHANGED <<participants, joinRequests, invitations>>

UpdateGroupAnnouncement(u, c) ==
  /\ ActorContext(c, u)
  /\ ActiveGroup(c)
  /\ IsStaff(c, u)
  /\ conversations' = [conversations EXCEPT ![c].announcedBy = u]
  /\ UNCHANGED <<participants, joinRequests, invitations>>

UpdateGroupMemberRole(u, c, target, role) ==
  /\ role \in {"admin", "member"}
  /\ ActorContext(c, u)
  /\ ActiveGroup(c)
  /\ participants[c][u] = "owner"
  /\ IsMember(c, target)
  /\ participants[c][target] # "owner"
  /\ participants' = WithRole(c, target, role)
  /\ UNCHANGED <<conversations, joinRequests, invitations>>

\* Mutant: owner_id is not updated.
TransferKeepsOwnerID(u, c, target) ==
  /\ ActorContext(c, u)
  /\ ActiveGroup(c)
  /\ participants[c][u] = "owner"
  /\ target # u
  /\ IsMember(c, target)
  /\ participants' = [participants EXCEPT ![c][u] = "member", ![c][target] = "owner"]
  /\ UNCHANGED <<conversations, joinRequests, invitations>>

\* Mutant: the new owner need not be a member.
TransferToAnyone(u, c, target) ==
  /\ ActorContext(c, u)
  /\ ActiveGroup(c)
  /\ participants[c][u] = "owner"
  /\ target # u
  /\ participants' = [participants EXCEPT ![c][u] = "member", ![c][target] = "owner"]
  /\ conversations' = [conversations EXCEPT ![c].ownerID = target]
  /\ UNCHANGED <<joinRequests, invitations>>

TransferGroupOwnership(u, c, target) ==
  /\ ActorContext(c, u)
  /\ ActiveGroup(c)
  /\ participants[c][u] = "owner"
  /\ target # u
  /\ IsMember(c, target)
  /\ participants' = [participants EXCEPT ![c][u] = "member", ![c][target] = "owner"]
  /\ conversations' = [conversations EXCEPT ![c].ownerID = target]
  /\ UNCHANGED <<joinRequests, invitations>>

RemoveGroupMember(u, c, target) ==
  /\ ActorContext(c, u)
  /\ ActiveGroup(c)
  /\ target # u
  /\ IsMember(c, target)
  /\ Manageable(participants[c][u], participants[c][target])
  /\ participants' = WithRole(c, target, NotMember)
  /\ UNCHANGED <<conversations, joinRequests, invitations>>

LeaveGroup(u, c) ==
  /\ ActorContext(c, u)
  /\ ActiveGroup(c)
  /\ participants[c][u] # "owner"
  /\ participants' = WithRole(c, u, NotMember)
  /\ UNCHANGED <<conversations, joinRequests, invitations>>

DissolveGroup(u, c) ==
  /\ ActorContext(c, u)
  /\ participants[c][u] = "owner"
  /\ ActiveGroup(c)
  /\ conversations' = [conversations EXCEPT ![c].status = "dissolved"]
  /\ UNCHANGED <<participants, joinRequests, invitations>>

-----------------------------------------------------------------------------
\* ApplyToJoinGroup: a public group lets the applicant in at once and files
\* the request as approved by its owner.
ApplyToJoinGroup(u, c, r) ==
  /\ r \in Reqs \ DOMAIN joinRequests
  /\ c \in DOMAIN conversations
  /\ conversations[c].type = "group"
  /\ ActiveGroup(c)
  /\ conversations[c].joinMode # "private"
  /\ ~IsMember(c, u)
  /\ ~PendingRequest(c, u)
  /\ LET public == conversations[c].joinMode = "public"
     IN  /\ joinRequests' = WithRow(joinRequests, r,
              [conversationID |-> c, applicantID |-> u,
               status |-> IF public THEN "approved" ELSE "pending",
               reviewedBy |-> IF public THEN conversations[c].ownerID ELSE Nobody])
         /\ participants' = IF public THEN WithParticipant(c, u) ELSE participants
  /\ UNCHANGED <<conversations, invitations>>

\* Mutant: a processed request may be reviewed again.
ReviewTwice(u, r, approve) ==
  /\ r \in DOMAIN joinRequests
  /\ LET c == joinRequests[r].conversationID
     IN  /\ ActorContext(c, u)
         /\ ActiveGroup(c)
         /\ IsStaff(c, u)
         /\ participants' = IF approve THEN WithParticipant(c, joinRequests[r].applicantID)
                                       ELSE participants
  /\ joinRequests' = [joinRequests EXCEPT
       ![r].status = IF approve THEN "approved" ELSE "rejected",
       ![r].reviewedBy = u]
  /\ UNCHANGED <<conversations, invitations>>

ReviewGroupJoinRequest(u, r, approve) ==
  /\ r \in DOMAIN joinRequests
  /\ LET c == joinRequests[r].conversationID
     IN  /\ ActorContext(c, u)
         /\ ActiveGroup(c)
         /\ IsStaff(c, u)
         /\ joinRequests[r].status = "pending"
         /\ participants' = IF approve THEN WithParticipant(c, joinRequests[r].applicantID)
                                       ELSE participants
  /\ joinRequests' = [joinRequests EXCEPT
       ![r].status = IF approve THEN "approved" ELSE "rejected",
       ![r].reviewedBy = u]
  /\ UNCHANGED <<conversations, invitations>>

\* Mutant: pending invitations are not counted.
InviteAgain(u, c, invitee, i) ==
  /\ i \in Invs \ DOMAIN invitations
  /\ ActorContext(c, u)
  /\ ActiveGroup(c)
  /\ IsStaff(c, u)
  /\ ~IsMember(c, invitee)
  /\ invitations' = WithRow(invitations, i,
       [conversationID |-> c, inviteeID |-> invitee,
        status |-> "pending"])
  /\ UNCHANGED <<conversations, participants, joinRequests>>

\* Mutant: any participant of a conversation may invite.
InviteByAnyMember(u, c, invitee, i) ==
  /\ i \in Invs \ DOMAIN invitations
  /\ c \in DOMAIN conversations
  /\ IsMember(c, u)
  /\ ActiveGroup(c)
  /\ ~IsMember(c, invitee)
  /\ ~PendingInvitation(c, invitee)
  /\ invitations' = WithRow(invitations, i,
       [conversationID |-> c, inviteeID |-> invitee,
        status |-> "pending"])
  /\ UNCHANGED <<conversations, participants, joinRequests>>

InviteToGroup(u, c, invitee, i) ==
  /\ i \in Invs \ DOMAIN invitations
  /\ ActorContext(c, u)
  /\ ActiveGroup(c)
  /\ IsStaff(c, u)
  /\ ~IsMember(c, invitee)
  /\ ~PendingInvitation(c, invitee)
  /\ invitations' = WithRow(invitations, i,
       [conversationID |-> c, inviteeID |-> invitee,
        status |-> "pending"])
  /\ UNCHANGED <<conversations, participants, joinRequests>>

\* Mutant: the invitee joins whatever the answer.
RespondAlwaysJoins(u, i, accept) ==
  /\ i \in DOMAIN invitations
  /\ invitations[i].inviteeID = u
  /\ invitations[i].status = "pending"
  /\ LET c == invitations[i].conversationID
     IN  /\ c \in DOMAIN conversations
         /\ ActiveGroup(c)
         /\ participants' = WithParticipant(c, u)
  /\ invitations' = [invitations EXCEPT
       ![i].status = IF accept THEN "accepted" ELSE "rejected"]
  /\ UNCHANGED <<conversations, joinRequests>>

\* Mutant: requireActiveGroup is not called.
RespondWhenDissolved(u, i, accept) ==
  /\ i \in DOMAIN invitations
  /\ invitations[i].inviteeID = u
  /\ invitations[i].status = "pending"
  /\ LET c == invitations[i].conversationID
     IN  /\ c \in DOMAIN conversations
         /\ participants' = IF accept THEN WithParticipant(c, u) ELSE participants
  /\ invitations' = [invitations EXCEPT
       ![i].status = IF accept THEN "accepted" ELSE "rejected"]
  /\ UNCHANGED <<conversations, joinRequests>>

\* RespondGroupInvitation does not look at the type of the conversation, nor
\* at whether the inviter is still a member of it.
RespondGroupInvitation(u, i, accept) ==
  /\ i \in DOMAIN invitations
  /\ invitations[i].inviteeID = u
  /\ invitations[i].status = "pending"
  /\ LET c == invitations[i].conversationID
     IN  /\ c \in DOMAIN conversations
         /\ ActiveGroup(c)
         /\ participants' = IF accept THEN WithParticipant(c, u) ELSE participants
  /\ invitations' = [invitations EXCEPT
       ![i].status = IF accept THEN "accepted" ELSE "rejected"]
  /\ UNCHANGED <<conversations, joinRequests>>

-----------------------------------------------------------------------------
Init ==
  /\ conversations = [c \in {} |-> Nobody]
  /\ participants = [c \in Convs |-> [u \in Users |-> NotMember]]
  /\ joinRequests = [r \in {} |-> Nobody]
  /\ invitations = [i \in {} |-> Nobody]

\* What u may do to the conversation c.
ConversationStep(u, c) ==
  \/ \E invited \in SUBSET Users, mode \in JoinModes : CreateGroup(u, c, invited, mode)
  \/ \E v \in Users : CreatePrivate(u, v, c)
  \/ \E mode \in JoinModes : UpdateGroupProfile(u, c, mode)
  \/ UpdateGroupAnnouncement(u, c)
  \/ \E target \in Users, role \in Roles : UpdateGroupMemberRole(u, c, target, role)
  \/ \E target \in Users : TransferGroupOwnership(u, c, target)
  \/ \E target \in Users : RemoveGroupMember(u, c, target)
  \/ LeaveGroup(u, c)
  \/ DissolveGroup(u, c)

\* What u may do about a request or an invitation.
AdmissionStep(u) ==
  \/ \E c \in Convs, r \in Reqs : ApplyToJoinGroup(u, c, r)
  \/ \E r \in Reqs, approve \in BOOLEAN : ReviewGroupJoinRequest(u, r, approve)
  \/ \E c \in Convs, invitee \in Users, i \in Invs : InviteToGroup(u, c, invitee, i)
  \/ \E i \in Invs, accept \in BOOLEAN : RespondGroupInvitation(u, i, accept)

Next == \E u \in Users : \/ \E c \in Convs : ConversationStep(u, c)
                         \/ AdmissionStep(u)

Spec == Init /\ [][Next]_vars

-----------------------------------------------------------------------------
\* Every table holds rows of its schema, under keys of its own.
TypeOK ==
  /\ TableOf(conversations, Convs, Conversation)
  /\ participants \in [Convs -> [Users -> Roles \cup {NotMember}]]
  /\ TableOf(joinRequests, Reqs, JoinRequest)
  /\ TableOf(invitations, Invs, Invitation)

GroupIds == {c \in DOMAIN conversations : conversations[c].type = "group"}

\* A group, dissolved or not, has exactly one participant whose role is owner,
\* and it is the user its owner_id names: creation, role changes, transfer,
\* removal, leaving and the three ways in all keep the two tables in step.
\* (The leave handler indexes the remaining members at 0 on the strength of it.)
OneOwner ==
  \A c \in GroupIds :
    /\ conversations[c].ownerID \in Users
    /\ \A u \in Users : participants[c][u] = "owner" <=> u = conversations[c].ownerID

\* No table has a unique index that would forbid it, yet a user never has two
\* join requests pending for one conversation, nor two invitations: the check
\* and the insert run under the lock of the conversation.
OnePending ==
  /\ \A r, s \in DOMAIN joinRequests :
       /\ joinRequests[r].status = "pending" /\ joinRequests[s].status = "pending"
       /\ joinRequests[r].conversationID = joinRequests[s].conversationID
       /\ joinRequests[r].applicantID = joinRequests[s].applicantID
       => r = s
  /\ \A i, j \in DOMAIN invitations :
       /\ invitations[i].status = "pending" /\ invitations[j].status = "pending"
       /\ invitations[i].conversationID = invitations[j].conversationID
       /\ invitations[i].inviteeID = invitations[j].inviteeID
       => i = j

\* A request or an invitation is always for an existing group, never for a
\* private conversation: what RespondGroupInvitation takes for granted.
AdmissionsAreForGroups ==
  /\ \A r \in DOMAIN joinRequests : joinRequests[r].conversationID \in GroupIds
  /\ \A i \in DOMAIN invitations : invitations[i].conversationID \in GroupIds

\* Whoever enters an existing conversation has agreed to it.
EntersByConsent ==
  \A c \in DOMAIN conversations, u \in Users :
    ~IsMember(c, u) /\ IsMember(c, u)' =>
      /\ participants'[c][u] = "member"
      /\ \/ \E i \in DOMAIN invitations :
              /\ invitations[i].status = "pending"
              /\ invitations'[i].conversationID = c
              /\ invitations'[i].inviteeID = u
              /\ invitations'[i].status = "accepted"
         \/ \E r \in DOMAIN joinRequests' :
              /\ \/ r \in DOMAIN joinRequests /\ joinRequests[r].status = "pending"
                 \/ r \notin DOMAIN joinRequests /\ conversations[c].joinMode = "public"
              /\ joinRequests'[r].conversationID = c
              /\ joinRequests'[r].applicantID = u
              /\ joinRequests'[r].status = "approved"

\* Whoever enters an existing conversation enters as a plain member and has
\* agreed to it: a pending invitation of theirs is accepted in that step, or a
\* pending request of theirs approved, or they applied to a public group.
JoinByConsent == [][EntersByConsent]_vars

\* The rows and the members of the private conversations are left alone.
PairStays ==
  \A c \in DOMAIN conversations :
    conversations[c].type = "private" =>
      /\ participants'[c] = participants[c]
      /\ conversations'[c] = conversations[c]

\* The two people of a private conversation stay the two people of it:
\* no group operation and no admission reaches a private conversation.
PrivatePairFixed == [][PairStays]_vars

\* Nothing about the dissolved conversations changes.
DissolvedStays ==
  \A c \in DOMAIN conversations :
    conversations[c].status = "dissolved" =>
      /\ conversations'[c] = conversations[c]
      /\ participants'[c] = participants[c]
      /\ \A r \in DOMAIN joinRequests' :
           joinRequests'[r].conversationID = c =>
             r \in DOMAIN joinRequests /\ joinRequests'[r] = joinRequests[r]
      /\ \A i \in DOMAIN invitations' :
           invitations'[i].conversationID = c =>
             i \in DOMAIN invitations /\ invitations'[i] = invitations[i]

\* A dissolved group is frozen: its row, its members, and the requests and
\* invitations for it never change again, those still pending included.
DissolvedFrozen == [][DissolvedStays]_vars

\* A new owner was a member, and the old one stays as one.
HandsOver ==
  \A c \in DOMAIN conversations :
    conversations'[c].ownerID # conversations[c].ownerID =>
      /\ IsMember(c, conversations'[c].ownerID)
      /\ participants'[c][conversations[c].ownerID] = "member"

\* A group changes hands only by the act of handing it over: the new owner was
\* a member before the step, and the old one is still there as a plain member.
OwnershipHandedOver == [][HandsOver]_vars

\* What is decided was pending, and staff decides about requests.
DecidesOnce ==
  /\ \A r \in DOMAIN joinRequests :
       joinRequests'[r] # joinRequests[r] =>
         /\ joinRequests[r].status = "pending"
         /\ LET c == joinRequests[r].conversationID
            IN  IsStaff(c, joinRequests'[r].reviewedBy) /\ ActiveGroup(c)
  /\ \A r \in DOMAIN joinRequests' \ DOMAIN joinRequests :
       joinRequests'[r].status # "pending" =>
         IsStaff(joinRequests'[r].conversationID, joinRequests'[r].reviewedBy)
  /\ \A i \in DOMAIN invitations :
       invitations'[i] # invitations[i] => invitations[i].status = "pending"

\* A request is decided once, by someone who was owner or admin of an active
\* group when deciding; a decided request or answered invitation is final.
DecidedOnceByStaff == [][DecidesOnce]_vars
=============================================================================
