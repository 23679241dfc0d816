---------------------------- MODULE GroupsProofs ----------------------------
(***************************************************************************)
(* Theorems about the group membership store, for any users, conversations *)
(* and row keys.  First about Groups: its types and its owners; who gets   *)
(* into a conversation; and what one step may do.  Then about GroupTx, for *)
(* any number of transactions at a time: two-phase locking makes every     *)
(* commit an operation of Groups, and the order of the locks excludes      *)
(* deadlock.                                                               *)
(***************************************************************************)
EXTENDS GroupTx, FiniteSetTheorems, TLAPS


\* A table that gains a row of its schema under a legal key is still a table.
LEMMA WithRowType ==
  ASSUME NEW Keys, NEW Schema, NEW table, NEW id \in Keys, NEW row \in Schema,
         TableOf(table, Keys, Schema)
  PROVE  TableOf(WithRow(table, id, row), Keys, Schema)
  BY DEF WithRow, TableOf

\* The participants table keeps its type when one entry, or one conversation's
\* entries, are set to roles.
LEMMA ParticipantsType ==
  ASSUME TypeOK, NEW c \in Convs, NEW u \in Users
  PROVE  /\ WithParticipant(c, u) \in [Convs -> [Users -> Roles \cup {NotMember}]]
         /\ \A role \in Roles \cup {NotMember} :
              WithRole(c, u, role) \in [Convs -> [Users -> Roles \cup {NotMember}]]
  BY DEF TypeOK, TableOf, WithParticipant, WithRole, Roles, NotMember

\* No operation takes a table out of its schema.
LEMMA TypeStep == TypeOK /\ [Next]_vars => TypeOK'
<1> SUFFICES ASSUME TypeOK, [Next]_vars
             PROVE  TypeOK'
  OBVIOUS
<1>1. ASSUME NEW u \in Users, NEW c \in Convs, ConversationStep(u, c)
      PROVE  TypeOK'
  <2>1. ASSUME NEW invited \in SUBSET Users, NEW mode \in JoinModes,
               CreateGroup(u, c, invited, mode)
        PROVE  TypeOK'
    <3> DEFINE row == [type |-> "group", ownerID |-> u, joinMode |-> mode,
                       status |-> "active", announcedBy |-> Nobody]
    <3>1. row \in Conversation
      BY DEF Conversation
    <3>2. conversations' = WithRow(conversations, c, row)
      BY <2>1 DEF CreateGroup
    <3>3. participants' \in [Convs -> [Users -> Roles \cup {NotMember}]]
      BY <2>1 DEF CreateGroup, TypeOK, TableOf, Roles, NotMember
    <3> HIDE DEF row
    <3>4. QED BY <2>1, <3>1, <3>2, <3>3, WithRowType DEF CreateGroup, TypeOK
  <2>2. ASSUME NEW v \in Users, CreatePrivate(u, v, c)
        PROVE  TypeOK'
    <3> DEFINE row == [type |-> "private", ownerID |-> Nobody, joinMode |-> "private",
                       status |-> "active", announcedBy |-> Nobody]
    <3>1. row \in Conversation
      BY DEF Conversation, JoinModes
    <3>2. conversations' = WithRow(conversations, c, row)
      BY <2>2 DEF CreatePrivate
    <3>3. participants' \in [Convs -> [Users -> Roles \cup {NotMember}]]
      BY <2>2 DEF CreatePrivate, TypeOK, TableOf, Roles, NotMember
    <3> HIDE DEF row
    <3>4. QED BY <2>2, <3>1, <3>2, <3>3, WithRowType DEF CreatePrivate, TypeOK
  <2>3. ASSUME NEW mode \in JoinModes, UpdateGroupProfile(u, c, mode)
        PROVE  TypeOK'
    BY <2>3 DEF UpdateGroupProfile, ActorContext, TypeOK, TableOf, Conversation
  <2>4. CASE UpdateGroupAnnouncement(u, c)
    BY <2>4 DEF UpdateGroupAnnouncement, ActorContext, TypeOK, TableOf, Conversation
  <2>5. ASSUME NEW target \in Users, NEW role \in Roles,
               UpdateGroupMemberRole(u, c, target, role)
        PROVE  TypeOK'
    BY <2>5, ParticipantsType DEF UpdateGroupMemberRole, TypeOK, TableOf
  <2>6. ASSUME NEW target \in Users, TransferGroupOwnership(u, c, target)
        PROVE  TypeOK'
    BY <2>6 DEF TransferGroupOwnership, ActorContext, TypeOK, TableOf, Conversation, Roles
  <2>7. ASSUME NEW target \in Users, RemoveGroupMember(u, c, target)
        PROVE  TypeOK'
    BY <2>7, ParticipantsType DEF RemoveGroupMember, TypeOK, TableOf
  <2>8. CASE LeaveGroup(u, c)
    BY <2>8, ParticipantsType DEF LeaveGroup, TypeOK, TableOf
  <2>9. CASE DissolveGroup(u, c)
    BY <2>9 DEF DissolveGroup, ActorContext, TypeOK, TableOf, Conversation
  <2>10. QED
    BY <1>1, <2>1, <2>2, <2>3, <2>4, <2>5, <2>6, <2>7, <2>8, <2>9 DEF ConversationStep
<1>2. ASSUME NEW u \in Users, AdmissionStep(u)
      PROVE  TypeOK'
  <2>1. ASSUME NEW c \in Convs, NEW r \in Reqs, ApplyToJoinGroup(u, c, r)
        PROVE  TypeOK'
    <3> DEFINE public == conversations[c].joinMode = "public"
               row == [conversationID |-> c, applicantID |-> u,
                       status |-> IF public THEN "approved" ELSE "pending",
                       reviewedBy |-> IF public THEN conversations[c].ownerID ELSE Nobody]
    <3>1. row \in JoinRequest
      BY <2>1 DEF ApplyToJoinGroup, TypeOK, TableOf, JoinRequest, Conversation
    <3>2. joinRequests' = WithRow(joinRequests, r, row)
      BY <2>1 DEF ApplyToJoinGroup
    <3>3. participants' \in [Convs -> [Users -> Roles \cup {NotMember}]]
      BY <2>1, ParticipantsType DEF ApplyToJoinGroup, TypeOK, TableOf
    <3> HIDE DEF row
    <3>4. QED BY <2>1, <3>1, <3>2, <3>3, WithRowType DEF ApplyToJoinGroup, TypeOK
  <2>2. ASSUME NEW r \in Reqs, NEW approve \in BOOLEAN,
               ReviewGroupJoinRequest(u, r, approve)
        PROVE  TypeOK'
    <3>1. joinRequests[r] \in JoinRequest
      BY <2>2 DEF ReviewGroupJoinRequest, TypeOK, TableOf
    <3>2. participants' \in [Convs -> [Users -> Roles \cup {NotMember}]]
      BY <2>2, <3>1, ParticipantsType DEF ReviewGroupJoinRequest, TypeOK, TableOf, JoinRequest
    <3>3. DOMAIN joinRequests' = DOMAIN joinRequests
          /\ joinRequests' \in [DOMAIN joinRequests -> JoinRequest]
      BY <2>2, <3>1 DEF ReviewGroupJoinRequest, TypeOK, TableOf, JoinRequest
    <3>4. QED BY <2>2, <3>2, <3>3 DEF ReviewGroupJoinRequest, TypeOK, TableOf
  <2>3. ASSUME NEW c \in Convs, NEW invitee \in Users, NEW i \in Invs,
               InviteToGroup(u, c, invitee, i)
        PROVE  TypeOK'
    <3> DEFINE row == [conversationID |-> c, inviteeID |-> invitee, status |-> "pending"]
    <3>1. row \in Invitation
      BY DEF Invitation
    <3>2. invitations' = WithRow(invitations, i, row)
      BY <2>3 DEF InviteToGroup
    <3> HIDE DEF row
    <3>3. QED BY <2>3, <3>1, <3>2, WithRowType DEF InviteToGroup, TypeOK
  <2>4. ASSUME NEW i \in Invs, NEW accept \in BOOLEAN,
               RespondGroupInvitation(u, i, accept)
        PROVE  TypeOK'
    <3>1. invitations[i] \in Invitation
      BY <2>4 DEF RespondGroupInvitation, TypeOK, TableOf
    <3>2. participants' \in [Convs -> [Users -> Roles \cup {NotMember}]]
      BY <2>4, <3>1, ParticipantsType DEF RespondGroupInvitation, TypeOK, TableOf, Invitation
    <3>3. DOMAIN invitations' = DOMAIN invitations
          /\ invitations' \in [DOMAIN invitations -> Invitation]
      BY <2>4, <3>1 DEF RespondGroupInvitation, TypeOK, TableOf, Invitation
    <3>4. QED BY <2>4, <3>2, <3>3 DEF RespondGroupInvitation, TypeOK, TableOf
  <2>5. QED BY <1>2, <2>1, <2>2, <2>3, <2>4 DEF AdmissionStep
<1>3. CASE UNCHANGED vars
  BY <1>3 DEF vars, TypeOK, TableOf
<1>4. QED BY <1>1, <1>2, <1>3 DEF Next

\* Type correctness: no operation, in any order, takes a table out of its schema.
THEOREM TypeCorrect == Spec => []TypeOK
<1>1. Init => TypeOK
  BY DEF Init, TypeOK, TableOf, NotMember
<1>2. QED BY <1>1, TypeStep, PTL DEF Spec

-----------------------------------------------------------------------------
\* Letting a user in makes nobody else's role change, and no owner.
LEMMA WithParticipantValue ==
  ASSUME TypeOK, NEW c \in Convs, NEW u \in Users
  PROVE  \A d \in Convs, v \in Users :
           \/ WithParticipant(c, u)[d][v] = participants[d][v]
           \/ /\ d = c /\ v = u /\ ~IsMember(c, u)
              /\ WithParticipant(c, u)[d][v] = "member"
  BY DEF TypeOK, WithParticipant, IsMember

\* One owner per group, the one its owner_id names, after every history of
\* creations, transfers, removals and admissions.
THEOREM OwnerUnique == Spec => []OneOwner
<1>1. Init => OneOwner
  BY DEF Init, OneOwner, GroupIds
<1>2. TypeOK /\ TypeOK' /\ OneOwner /\ [Next]_vars => OneOwner'
  <2> SUFFICES ASSUME TypeOK, TypeOK', OneOwner, [Next]_vars,
                      NEW d \in GroupIds', NEW v \in Users
               PROVE  /\ conversations'[d].ownerID \in Users
                      /\ participants'[d][v] = "owner" <=> v = conversations'[d].ownerID
    <3>1. CASE Next
      BY <3>1 DEF Next, OneOwner
    <3>2. CASE UNCHANGED vars
      BY <3>2 DEF vars, OneOwner, GroupIds
    <3>3. QED BY <3>1, <3>2
  <2> DEFINE Goal == /\ conversations'[d].ownerID \in Users
                     /\ participants'[d][v] = "owner" <=> v = conversations'[d].ownerID
  <2>0. d \in Convs /\ d \in DOMAIN conversations' /\ conversations'[d].type = "group"
    BY DEF GroupIds, TypeOK, TableOf
  <2>a. ASSUME d \in DOMAIN conversations, conversations'[d] = conversations[d],
               participants'[d][v] = participants[d][v]
        PROVE  Goal
    BY <2>a, <2>0 DEF OneOwner, GroupIds
  <2>b. ASSUME UNCHANGED conversations, NEW e \in Convs, NEW w \in Users,
               participants' = WithParticipant(e, w)
        PROVE  Goal
    <3>1. d \in GroupIds
      BY <2>b, <2>0 DEF GroupIds
    <3>2. CASE participants'[d][v] = participants[d][v]
      BY <2>a, <2>b, <3>1, <3>2 DEF GroupIds
    <3>3. CASE participants'[d][v] # participants[d][v]
      <4>1. participants'[d][v] = "member" /\ ~IsMember(d, v)
        BY <2>b, <3>3, <2>0, WithParticipantValue
      <4>2. v # conversations[d].ownerID /\ conversations[d].ownerID \in Users
        BY <4>1, <3>1 DEF OneOwner, IsMember, NotMember
      <4>3. conversations'[d] = conversations[d]
        BY <2>b
      <4>4. QED BY <4>1, <4>2, <4>3
    <3>4. QED BY <3>2, <3>3
  <2>1. ASSUME NEW u \in Users, NEW c \in Convs, ConversationStep(u, c)
        PROVE  Goal
    <3>1. ASSUME NEW invited \in SUBSET Users, NEW mode \in JoinModes,
                 CreateGroup(u, c, invited, mode)
          PROVE  Goal
      <4>1. CASE d = c
        <5>1. conversations'[c].ownerID = u
          BY <3>1 DEF WithRow, CreateGroup
        <5>2. participants'[c][v] = "owner" <=> v = u
          BY <3>1 DEF CreateGroup, TypeOK, NotMember
        <5>3. QED BY <4>1, <5>1, <5>2
      <4>2. CASE d # c
        <5>1. d \in DOMAIN conversations /\ conversations'[d] = conversations[d]
          BY <2>0, <3>1, <4>2 DEF WithRow, CreateGroup
        <5>2. participants'[d] = participants[d]
          BY <2>0, <3>1, <4>2 DEF CreateGroup, TypeOK
        <5>3. QED BY <2>a, <5>1, <5>2
      <4>3. QED BY <4>1, <4>2
    <3>2. ASSUME NEW x \in Users, CreatePrivate(u, x, c)
          PROVE  Goal
      <4>1. d # c
        BY <2>0, <3>2 DEF WithRow, CreatePrivate
      <4>2. d \in DOMAIN conversations /\ conversations'[d] = conversations[d]
        BY <2>0, <3>2, <4>1 DEF WithRow, CreatePrivate
      <4>3. participants'[d] = participants[d]
        BY <2>0, <3>2, <4>1 DEF CreatePrivate, TypeOK
      <4>4. QED BY <2>a, <4>2, <4>3
    <3>3. ASSUME NEW mode \in JoinModes, UpdateGroupProfile(u, c, mode)
          PROVE  Goal
      BY <2>0, <3>3 DEF UpdateGroupProfile, ActorContext, OneOwner, GroupIds,
                        TypeOK, TableOf, Conversation
    <3>4. CASE UpdateGroupAnnouncement(u, c)
      BY <2>0, <3>4 DEF UpdateGroupAnnouncement, ActorContext, OneOwner, GroupIds,
                        TypeOK, TableOf, Conversation
    <3>5. ASSUME NEW target \in Users, NEW role \in Roles,
                 UpdateGroupMemberRole(u, c, target, role)
          PROVE  Goal
      BY <2>0, <3>5 DEF UpdateGroupMemberRole, WithRole, OneOwner, GroupIds, TypeOK
    <3>6. ASSUME NEW target \in Users, TransferGroupOwnership(u, c, target)
          PROVE  Goal
      <4>1. CASE d = c
        <5>1. conversations'[c].ownerID = target
          BY <3>6 DEF TransferGroupOwnership, ActorContext, TypeOK, TableOf, Conversation
        <5>2. v = u <=> participants[c][v] = "owner"
          BY <3>6 DEF TransferGroupOwnership, ActorContext, OneOwner, GroupIds
        <5>3. participants'[c][v] = IF v = target THEN "owner"
                                    ELSE IF v = u THEN "member" ELSE participants[c][v]
          BY <3>6 DEF TransferGroupOwnership, TypeOK
        <5>4. QED BY <4>1, <5>1, <5>2, <5>3
      <4>2. CASE d # c
        BY <2>0, <2>a, <3>6, <4>2 DEF TransferGroupOwnership, TypeOK, TableOf
      <4>3. QED BY <4>1, <4>2
    <3>7. ASSUME NEW target \in Users, RemoveGroupMember(u, c, target)
          PROVE  Goal
      BY <2>0, <3>7 DEF RemoveGroupMember, Manageable, WithRole, NotMember,
                        OneOwner, GroupIds, TypeOK
    <3>8. CASE LeaveGroup(u, c)
      BY <2>0, <3>8 DEF LeaveGroup, WithRole, NotMember, OneOwner, GroupIds, TypeOK
    <3>9. CASE DissolveGroup(u, c)
      BY <2>0, <3>9 DEF DissolveGroup, ActorContext, OneOwner, GroupIds,
                        TypeOK, TableOf, Conversation
    <3>10. QED
      BY <2>1, <3>1, <3>2, <3>3, <3>4, <3>5, <3>6, <3>7, <3>8, <3>9 DEF ConversationStep
  <2>2. ASSUME NEW u \in Users, AdmissionStep(u)
        PROVE  Goal
    <3>1. ASSUME NEW c \in Convs, NEW r \in Reqs, ApplyToJoinGroup(u, c, r)
          PROVE  Goal
      <4>1. UNCHANGED conversations
        BY <3>1 DEF ApplyToJoinGroup
      <4>2. CASE participants' = WithParticipant(c, u)
        BY <2>b, <4>1, <4>2
      <4>3. CASE participants' = participants
        BY <2>0, <2>a, <4>1, <4>3
      <4>4. QED BY <3>1, <4>2, <4>3 DEF ApplyToJoinGroup
    <3>2. ASSUME NEW r \in Reqs, NEW approve \in BOOLEAN,
                 ReviewGroupJoinRequest(u, r, approve)
          PROVE  Goal
      <4> DEFINE c == joinRequests[r].conversationID
                 w == joinRequests[r].applicantID
      <4>1. UNCHANGED conversations /\ c \in Convs /\ w \in Users
        BY <3>2 DEF ReviewGroupJoinRequest, TypeOK, TableOf, JoinRequest
      <4>2. CASE participants' = WithParticipant(c, w)
        BY <2>b, <4>1, <4>2
      <4>3. CASE participants' = participants
        BY <2>0, <2>a, <4>1, <4>3
      <4>4. QED BY <3>2, <4>2, <4>3 DEF ReviewGroupJoinRequest
    <3>3. ASSUME NEW c \in Convs, NEW invitee \in Users, NEW i \in Invs,
                 InviteToGroup(u, c, invitee, i)
          PROVE  Goal
      BY <2>0, <2>a, <3>3 DEF InviteToGroup
    <3>4. ASSUME NEW i \in Invs, NEW accept \in BOOLEAN,
                 RespondGroupInvitation(u, i, accept)
          PROVE  Goal
      <4> DEFINE c == invitations[i].conversationID
      <4>1. UNCHANGED conversations /\ c \in Convs
        BY <3>4 DEF RespondGroupInvitation, TypeOK, TableOf, Invitation
      <4>2. CASE participants' = WithParticipant(c, u)
        BY <2>b, <4>1, <4>2
      <4>3. CASE participants' = participants
        BY <2>0, <2>a, <4>1, <4>3
      <4>4. QED BY <3>4, <4>2, <4>3 DEF RespondGroupInvitation
    <3>5. QED BY <2>2, <3>1, <3>2, <3>3, <3>4 DEF AdmissionStep
  <2>3. CASE UNCHANGED vars
    BY <2>0, <2>3, <2>a DEF vars
  <2>4. QED BY <2>1, <2>2, <2>3 DEF Next
<1>3. QED BY <1>1, <1>2, TypeCorrect, PTL DEF Spec

-----------------------------------------------------------------------------
(* Who gets into a conversation: admissions are for groups, private pairs  *)
(* and dissolved groups stay as they are, and no user has two admissions   *)
(* pending.                                                                *)

\* No operation deletes a conversation or changes its type.
LEMMA TypeOfConversationFixed ==
  ASSUME TypeOK, [Next]_vars, NEW d \in DOMAIN conversations
  PROVE  d \in DOMAIN conversations' /\ conversations'[d].type = conversations[d].type
<1> DEFINE Goal == d \in DOMAIN conversations' /\ conversations'[d].type = conversations[d].type
<1>1. ASSUME NEW u \in Users, NEW c \in Convs, ConversationStep(u, c)
      PROVE  Goal
  <2>1. ASSUME NEW invited \in SUBSET Users, NEW mode \in JoinModes,
               CreateGroup(u, c, invited, mode)
        PROVE  Goal
    BY <2>1 DEF CreateGroup, WithRow
  <2>2. ASSUME NEW v \in Users, CreatePrivate(u, v, c)
        PROVE  Goal
    BY <2>2 DEF CreatePrivate, WithRow
  <2>3. ASSUME NEW mode \in JoinModes, UpdateGroupProfile(u, c, mode)
        PROVE  Goal
    BY <2>3 DEF UpdateGroupProfile, TypeOK, TableOf, Conversation
  <2>4. CASE UpdateGroupAnnouncement(u, c)
    BY <2>4 DEF UpdateGroupAnnouncement, TypeOK, TableOf, Conversation
  <2>5. ASSUME NEW target \in Users, TransferGroupOwnership(u, c, target)
        PROVE  Goal
    BY <2>5 DEF TransferGroupOwnership, TypeOK, TableOf, Conversation
  <2>6. CASE DissolveGroup(u, c)
    BY <2>6 DEF DissolveGroup, TypeOK, TableOf, Conversation
  <2>7. CASE UNCHANGED conversations
    BY <2>7
  <2>8. QED
    BY <1>1, <2>1, <2>2, <2>3, <2>4, <2>5, <2>6, <2>7
       DEF ConversationStep, UpdateGroupMemberRole, RemoveGroupMember, LeaveGroup
<1>2. CASE UNCHANGED conversations
  BY <1>2
<1>3. QED
  BY <1>1, <1>2 DEF Next, AdmissionStep, vars, ApplyToJoinGroup,
     ReviewGroupJoinRequest, InviteToGroup, RespondGroupInvitation

\* What a step can do to the join requests: nothing, file one for a group, or
\* decide a pending one.
LEMMA RequestStep ==
  ASSUME TypeOK, [Next]_vars
  PROVE  \/ UNCHANGED joinRequests
         \/ \E u \in Users, c \in DOMAIN conversations, r \in Reqs :
              ApplyToJoinGroup(u, c, r)
         \/ \E u \in Users, r \in Reqs, approve \in BOOLEAN :
              ReviewGroupJoinRequest(u, r, approve)
<1>1. ASSUME NEW u \in Users, NEW c \in Convs, ConversationStep(u, c)
      PROVE  UNCHANGED joinRequests
  BY <1>1 DEF ConversationStep, CreateGroup, CreatePrivate, UpdateGroupProfile,
     UpdateGroupAnnouncement, UpdateGroupMemberRole, TransferGroupOwnership,
     RemoveGroupMember, LeaveGroup, DissolveGroup
<1>2. ASSUME NEW u \in Users, NEW c \in Convs, NEW r \in Reqs, ApplyToJoinGroup(u, c, r)
      PROVE  c \in DOMAIN conversations
  BY <1>2 DEF ApplyToJoinGroup
<1>3. ASSUME NEW u \in Users, AdmissionStep(u)
      PROVE  \/ UNCHANGED joinRequests
             \/ \E c \in DOMAIN conversations, r \in Reqs : ApplyToJoinGroup(u, c, r)
             \/ \E r \in Reqs, approve \in BOOLEAN : ReviewGroupJoinRequest(u, r, approve)
  BY <1>2, <1>3 DEF AdmissionStep, InviteToGroup, RespondGroupInvitation
<1>4. QED BY <1>1, <1>3 DEF Next, vars

\* The same for invitations.
LEMMA InvitationStep ==
  ASSUME TypeOK, [Next]_vars
  PROVE  \/ UNCHANGED invitations
         \/ \E u, w \in Users, c \in DOMAIN conversations, i \in Invs :
              InviteToGroup(u, c, w, i)
         \/ \E u \in Users, i \in Invs, accept \in BOOLEAN :
              RespondGroupInvitation(u, i, accept)
<1>1. ASSUME NEW u \in Users, NEW c \in Convs, ConversationStep(u, c)
      PROVE  UNCHANGED invitations
  BY <1>1 DEF ConversationStep, CreateGroup, CreatePrivate, UpdateGroupProfile,
     UpdateGroupAnnouncement, UpdateGroupMemberRole, TransferGroupOwnership,
     RemoveGroupMember, LeaveGroup, DissolveGroup
<1>2. ASSUME NEW u \in Users, NEW c \in Convs, NEW w \in Users, NEW i \in Invs,
             InviteToGroup(u, c, w, i)
      PROVE  c \in DOMAIN conversations
  BY <1>2 DEF InviteToGroup, ActorContext
<1>3. ASSUME NEW u \in Users, AdmissionStep(u)
      PROVE  \/ UNCHANGED invitations
             \/ \E w \in Users, c \in DOMAIN conversations, i \in Invs : InviteToGroup(u, c, w, i)
             \/ \E i \in Invs, accept \in BOOLEAN : RespondGroupInvitation(u, i, accept)
  BY <1>2, <1>3 DEF AdmissionStep, ApplyToJoinGroup, ReviewGroupJoinRequest
<1>4. QED BY <1>1, <1>3 DEF Next, vars

-----------------------------------------------------------------------------
\* Every request and invitation is for a group: RespondGroupInvitation, which
\* does not look at the type of the conversation, never meets a private one.
THEOREM AdmissionsForGroups == Spec => []AdmissionsAreForGroups
<1>1. Init => AdmissionsAreForGroups
  BY DEF Init, AdmissionsAreForGroups
<1>2. TypeOK /\ AdmissionsAreForGroups /\ [Next]_vars => AdmissionsAreForGroups'
  <2> SUFFICES ASSUME TypeOK, AdmissionsAreForGroups, [Next]_vars
               PROVE  AdmissionsAreForGroups'
    OBVIOUS
  <2>0. \A d \in GroupIds : d \in GroupIds'
    BY TypeOfConversationFixed DEF GroupIds
  <2>1. \A r \in DOMAIN joinRequests' : joinRequests'[r].conversationID \in GroupIds'
    <3>1. CASE UNCHANGED joinRequests
      BY <2>0, <3>1 DEF AdmissionsAreForGroups
    <3>2. ASSUME NEW u \in Users, NEW c \in DOMAIN conversations, NEW r \in Reqs,
                 ApplyToJoinGroup(u, c, r)
          PROVE  \A q \in DOMAIN joinRequests' : joinRequests'[q].conversationID \in GroupIds'
      <4>1. c \in GroupIds
        BY <3>2 DEF ApplyToJoinGroup, GroupIds
      <4>2. QED BY <2>0, <3>2, <4>1 DEF ApplyToJoinGroup, WithRow, AdmissionsAreForGroups
    <3>3. ASSUME NEW u \in Users, NEW r \in Reqs, NEW approve \in BOOLEAN,
                 ReviewGroupJoinRequest(u, r, approve)
          PROVE  \A q \in DOMAIN joinRequests' : joinRequests'[q].conversationID \in GroupIds'
      BY <2>0, <3>3 DEF ReviewGroupJoinRequest, AdmissionsAreForGroups, TypeOK, TableOf, JoinRequest
    <3>4. QED BY <3>1, <3>2, <3>3, RequestStep
  <2>2. \A i \in DOMAIN invitations' : invitations'[i].conversationID \in GroupIds'
    <3>1. CASE UNCHANGED invitations
      BY <2>0, <3>1 DEF AdmissionsAreForGroups
    <3>2. ASSUME NEW u \in Users, NEW w \in Users, NEW c \in DOMAIN conversations,
                 NEW i \in Invs, InviteToGroup(u, c, w, i)
          PROVE  \A j \in DOMAIN invitations' : invitations'[j].conversationID \in GroupIds'
      <4>1. c \in GroupIds
        BY <3>2 DEF InviteToGroup, ActorContext, GroupIds
      <4>2. QED BY <2>0, <3>2, <4>1 DEF InviteToGroup, WithRow, AdmissionsAreForGroups
    <3>3. ASSUME NEW u \in Users, NEW i \in Invs, NEW accept \in BOOLEAN,
                 RespondGroupInvitation(u, i, accept)
          PROVE  \A j \in DOMAIN invitations' : invitations'[j].conversationID \in GroupIds'
      BY <2>0, <3>3 DEF RespondGroupInvitation, AdmissionsAreForGroups, TypeOK, TableOf, Invitation
    <3>4. QED BY <3>1, <3>2, <3>3, InvitationStep
  <2>3. QED BY <2>1, <2>2 DEF AdmissionsAreForGroups
<1>3. QED BY <1>1, <1>2, TypeCorrect, PTL DEF Spec

\* At most one request and one invitation pend for a user and a group: the
\* count and the insert of ApplyToJoinGroup and InviteToGroup are one step.
THEOREM PendingUnique == Spec => []OnePending
<1>1. Init => OnePending
  BY DEF Init, OnePending
<1>2. TypeOK /\ OnePending /\ [Next]_vars => OnePending'
  <2> SUFFICES ASSUME TypeOK, OnePending, [Next]_vars
               PROVE  OnePending'
    OBVIOUS
  <2> DEFINE Requests == \A r, s \in DOMAIN joinRequests :
               /\ joinRequests[r].status = "pending" /\ joinRequests[s].status = "pending"
               /\ joinRequests[r].conversationID = joinRequests[s].conversationID
               /\ joinRequests[r].applicantID = joinRequests[s].applicantID
               => r = s
             Invited == \A i, j \in DOMAIN invitations :
               /\ invitations[i].status = "pending" /\ invitations[j].status = "pending"
               /\ invitations[i].conversationID = invitations[j].conversationID
               /\ invitations[i].inviteeID = invitations[j].inviteeID
               => i = j
  <2>1. Requests'
    <3>1. CASE UNCHANGED joinRequests
      BY <3>1 DEF OnePending
    <3>2. ASSUME NEW u \in Users, NEW c \in DOMAIN conversations, NEW r \in Reqs,
                 ApplyToJoinGroup(u, c, r)
          PROVE  Requests'
      BY <3>2 DEF ApplyToJoinGroup, WithRow, PendingRequest, OnePending
    <3>3. ASSUME NEW u \in Users, NEW r \in Reqs, NEW approve \in BOOLEAN,
                 ReviewGroupJoinRequest(u, r, approve)
          PROVE  Requests'
      BY <3>3 DEF ReviewGroupJoinRequest, OnePending, TypeOK, TableOf, JoinRequest
    <3>4. QED BY <3>1, <3>2, <3>3, RequestStep
  <2>2. Invited'
    <3>1. CASE UNCHANGED invitations
      BY <3>1 DEF OnePending
    <3>2. ASSUME NEW u \in Users, NEW w \in Users, NEW c \in DOMAIN conversations,
                 NEW i \in Invs, InviteToGroup(u, c, w, i)
          PROVE  Invited'
      BY <3>2 DEF InviteToGroup, WithRow, PendingInvitation, OnePending
    <3>3. ASSUME NEW u \in Users, NEW i \in Invs, NEW accept \in BOOLEAN,
                 RespondGroupInvitation(u, i, accept)
          PROVE  Invited'
      BY <3>3 DEF RespondGroupInvitation, OnePending, TypeOK, TableOf, Invitation
    <3>4. QED BY <3>1, <3>2, <3>3, InvitationStep
  <2>3. QED BY <2>1, <2>2 DEF OnePending
<1>3. QED BY <1>1, <1>2, TypeCorrect, PTL DEF Spec

-----------------------------------------------------------------------------
\* Letting a user into one conversation leaves the members of the others alone.
LEMMA WithParticipantElsewhere ==
  ASSUME TypeOK, NEW c \in Convs, NEW u \in Users, NEW d \in Convs, d # c
  PROVE  WithParticipant(c, u)[d] = participants[d]
  BY DEF TypeOK, WithParticipant

\* A step that changes the row or the members of an existing conversation finds
\* it active, and finds it a group or enters it through an invitation.
LEMMA ChangeNeedsActive ==
  ASSUME TypeOK, [Next]_vars, NEW d \in DOMAIN conversations,
         ~(conversations'[d] = conversations[d] /\ participants'[d] = participants[d])
  PROVE  /\ conversations[d].status # "dissolved"
         /\ \/ conversations[d].type = "group"
            \/ \E r \in DOMAIN joinRequests : joinRequests[r].conversationID = d
            \/ \E i \in DOMAIN invitations : invitations[i].conversationID = d
<1> DEFINE Same == conversations'[d] = conversations[d] /\ participants'[d] = participants[d]
           Alive == conversations[d].status # "dissolved"
           Admitted == \/ conversations[d].type = "group"
                       \/ \E r \in DOMAIN joinRequests : joinRequests[r].conversationID = d
                       \/ \E i \in DOMAIN invitations : invitations[i].conversationID = d
<1>0. d \in Convs
  BY DEF TypeOK, TableOf
<1>1. ASSUME NEW u \in Users, NEW c \in Convs, ConversationStep(u, c)
      PROVE  Same \/ (Alive /\ Admitted)
  <2>1. ASSUME NEW invited \in SUBSET Users, NEW mode \in JoinModes,
               CreateGroup(u, c, invited, mode)
        PROVE  Same
    BY <1>0, <2>1 DEF CreateGroup, WithRow, TypeOK
  <2>2. ASSUME NEW v \in Users, CreatePrivate(u, v, c)
        PROVE  Same
    BY <1>0, <2>2 DEF CreatePrivate, WithRow, TypeOK
  <2>3. ASSUME NEW mode \in JoinModes, UpdateGroupProfile(u, c, mode)
        PROVE  Same \/ (Alive /\ Admitted)
    BY <1>0, <2>3 DEF UpdateGroupProfile, ActorContext, ActiveGroup, TypeOK, TableOf
  <2>4. CASE UpdateGroupAnnouncement(u, c)
    BY <1>0, <2>4 DEF UpdateGroupAnnouncement, ActorContext, ActiveGroup, TypeOK, TableOf
  <2>5. ASSUME NEW target \in Users, NEW role \in Roles,
               UpdateGroupMemberRole(u, c, target, role)
        PROVE  Same \/ (Alive /\ Admitted)
    BY <1>0, <2>5 DEF UpdateGroupMemberRole, WithRole, ActorContext, ActiveGroup, TypeOK, TableOf
  <2>6. ASSUME NEW target \in Users, TransferGroupOwnership(u, c, target)
        PROVE  Same \/ (Alive /\ Admitted)
    BY <1>0, <2>6 DEF TransferGroupOwnership, ActorContext, ActiveGroup, TypeOK, TableOf
  <2>7. ASSUME NEW target \in Users, RemoveGroupMember(u, c, target)
        PROVE  Same \/ (Alive /\ Admitted)
    BY <1>0, <2>7 DEF RemoveGroupMember, WithRole, ActorContext, ActiveGroup, TypeOK, TableOf
  <2>8. CASE LeaveGroup(u, c)
    BY <1>0, <2>8 DEF LeaveGroup, WithRole, ActorContext, ActiveGroup, TypeOK, TableOf
  <2>9. CASE DissolveGroup(u, c)
    BY <1>0, <2>9 DEF DissolveGroup, ActorContext, ActiveGroup, TypeOK, TableOf
  <2>10. QED
    BY <1>1, <2>1, <2>2, <2>3, <2>4, <2>5, <2>6, <2>7, <2>8, <2>9 DEF ConversationStep
<1>2. ASSUME NEW u \in Users, AdmissionStep(u)
      PROVE  Same \/ (Alive /\ Admitted)
  <2>1. ASSUME NEW c \in Convs, NEW r \in Reqs, ApplyToJoinGroup(u, c, r)
        PROVE  Same \/ (Alive /\ Admitted)
    BY <1>0, <2>1, WithParticipantElsewhere DEF ApplyToJoinGroup, ActiveGroup
  <2>2. ASSUME NEW r \in Reqs, NEW approve \in BOOLEAN,
               ReviewGroupJoinRequest(u, r, approve)
        PROVE  Same \/ (Alive /\ Admitted)
    <3>1. joinRequests[r].conversationID \in Convs /\ joinRequests[r].applicantID \in Users
      BY <2>2 DEF ReviewGroupJoinRequest, TypeOK, TableOf, JoinRequest
    <3>2. QED
      BY <1>0, <2>2, <3>1, WithParticipantElsewhere DEF ReviewGroupJoinRequest, ActiveGroup
  <2>3. ASSUME NEW c \in Convs, NEW w \in Users, NEW i \in Invs, InviteToGroup(u, c, w, i)
        PROVE  Same
    BY <2>3 DEF InviteToGroup
  <2>4. ASSUME NEW i \in Invs, NEW accept \in BOOLEAN, RespondGroupInvitation(u, i, accept)
        PROVE  Same \/ (Alive /\ Admitted)
    <3>1. invitations[i].conversationID \in Convs
      BY <2>4 DEF RespondGroupInvitation, TypeOK, TableOf, Invitation
    <3>2. QED
      BY <1>0, <2>4, <3>1, WithParticipantElsewhere DEF RespondGroupInvitation, ActiveGroup
  <2>5. QED BY <1>2, <2>1, <2>2, <2>3, <2>4 DEF AdmissionStep
<1>3. CASE UNCHANGED vars
  BY <1>3 DEF vars
<1>4. QED BY <1>1, <1>2, <1>3 DEF Next

\* The two people of a private conversation stay the two people of it: no
\* admission is for a private conversation, and nothing else reaches it.
THEOREM PairFixed == Spec => PrivatePairFixed
<1>1. TypeOK /\ AdmissionsAreForGroups /\ [Next]_vars => [PairStays]_vars
  <2> SUFFICES ASSUME TypeOK, AdmissionsAreForGroups, [Next]_vars,
                      NEW d \in DOMAIN conversations, conversations[d].type = "private"
               PROVE  participants'[d] = participants[d] /\ conversations'[d] = conversations[d]
    BY DEF PairStays
  <2>1. d \notin GroupIds
    BY DEF GroupIds
  <2>2. QED BY <2>1, ChangeNeedsActive DEF AdmissionsAreForGroups, GroupIds
<1>2. QED BY <1>1, TypeCorrect, AdmissionsForGroups, PTL DEF Spec, PrivatePairFixed

\* A dissolved group is frozen, with every request and invitation for it:
\* each operation calls requireActiveGroup under the lock of the row.
THEOREM Frozen == Spec => DissolvedFrozen
<1>1. TypeOK /\ [Next]_vars => [DissolvedStays]_vars
  <2> SUFFICES ASSUME TypeOK, [Next]_vars,
                      NEW d \in DOMAIN conversations, conversations[d].status = "dissolved"
               PROVE  /\ conversations'[d] = conversations[d]
                      /\ participants'[d] = participants[d]
                      /\ \A r \in DOMAIN joinRequests' :
                           joinRequests'[r].conversationID = d =>
                             r \in DOMAIN joinRequests /\ joinRequests'[r] = joinRequests[r]
                      /\ \A i \in DOMAIN invitations' :
                           invitations'[i].conversationID = d =>
                             i \in DOMAIN invitations /\ invitations'[i] = invitations[i]
    BY DEF DissolvedStays
  <2>1. conversations'[d] = conversations[d] /\ participants'[d] = participants[d]
    BY ChangeNeedsActive
  <2> DEFINE Kept == \A r \in DOMAIN joinRequests' :
                       joinRequests'[r].conversationID = d =>
                         r \in DOMAIN joinRequests /\ joinRequests'[r] = joinRequests[r]
             Standing == \A i \in DOMAIN invitations' :
                           invitations'[i].conversationID = d =>
                             i \in DOMAIN invitations /\ invitations'[i] = invitations[i]
  <2>2. Kept
    <3>1. ASSUME NEW u \in Users, NEW c \in DOMAIN conversations, NEW r \in Reqs,
                 ApplyToJoinGroup(u, c, r)
          PROVE  Kept
      BY <3>1 DEF ApplyToJoinGroup, ActiveGroup, WithRow
    <3>2. ASSUME NEW u \in Users, NEW r \in Reqs, NEW approve \in BOOLEAN,
                 ReviewGroupJoinRequest(u, r, approve)
          PROVE  Kept
      BY <3>2 DEF ReviewGroupJoinRequest, ActiveGroup, TypeOK, TableOf, JoinRequest
    <3>3. QED BY <3>1, <3>2, RequestStep
  <2>3. Standing
    <3>1. ASSUME NEW u \in Users, NEW w \in Users, NEW c \in DOMAIN conversations,
                 NEW i \in Invs, InviteToGroup(u, c, w, i)
          PROVE  Standing
      BY <3>1 DEF InviteToGroup, ActiveGroup, WithRow
    <3>2. ASSUME NEW u \in Users, NEW i \in Invs, NEW accept \in BOOLEAN,
                 RespondGroupInvitation(u, i, accept)
          PROVE  Standing
      BY <3>2 DEF RespondGroupInvitation, ActiveGroup, TypeOK, TableOf, Invitation
    <3>3. QED BY <3>1, <3>2, InvitationStep
  <2>4. QED BY <2>1, <2>2, <2>3
<1>2. QED BY <1>1, TypeCorrect, PTL DEF Spec, DissolvedFrozen

-----------------------------------------------------------------------------
(* What one step may do: nobody is let in without having agreed to it, a   *)
(* group changes hands only by handing it over, and a request or an        *)
(* invitation is decided once.                                             *)

\* An operation on a conversation lets nobody into one that already exists.
LEMMA NobodyEnters ==
  ASSUME TypeOK, NEW u \in Users, NEW c \in Convs, ConversationStep(u, c),
         NEW d \in DOMAIN conversations, NEW v \in Users, ~IsMember(d, v)
  PROVE  participants'[d][v] = NotMember
<1> DEFINE Goal == participants'[d][v] = NotMember
<1>0. d \in Convs /\ participants[d][v] = NotMember
  BY DEF TypeOK, TableOf, IsMember
<1>1. ASSUME NEW invited \in SUBSET Users, NEW mode \in JoinModes,
             CreateGroup(u, c, invited, mode)
      PROVE  Goal
  BY <1>0, <1>1 DEF CreateGroup, TypeOK
<1>2. ASSUME NEW w \in Users, CreatePrivate(u, w, c)
      PROVE  Goal
  BY <1>0, <1>2 DEF CreatePrivate, TypeOK
<1>3. ASSUME NEW target \in Users, NEW role \in Roles,
             UpdateGroupMemberRole(u, c, target, role)
      PROVE  Goal
  BY <1>0, <1>3 DEF UpdateGroupMemberRole, WithRole, IsMember, TypeOK
<1>4. ASSUME NEW target \in Users, TransferGroupOwnership(u, c, target)
      PROVE  Goal
  BY <1>0, <1>4 DEF TransferGroupOwnership, ActorContext, IsMember, TypeOK
<1>5. ASSUME NEW target \in Users, RemoveGroupMember(u, c, target)
      PROVE  Goal
  BY <1>0, <1>5 DEF RemoveGroupMember, WithRole, TypeOK
<1>6. CASE LeaveGroup(u, c)
  BY <1>0, <1>6 DEF LeaveGroup, WithRole, TypeOK
<1>7. CASE UNCHANGED participants
  BY <1>0, <1>7
<1>8. QED
  BY <1>1, <1>2, <1>3, <1>4, <1>5, <1>6, <1>7
     DEF ConversationStep, UpdateGroupProfile, UpdateGroupAnnouncement, DissolveGroup

\* Nobody is in a group against their will: a user appears in an existing
\* conversation only by an invitation they accept, an application of theirs
\* that is approved, or an application to a public group.
THEOREM Consent == Spec => JoinByConsent
<1>1. TypeOK /\ [Next]_vars => [EntersByConsent]_vars
  <2> SUFFICES ASSUME TypeOK, [Next]_vars
               PROVE  EntersByConsent
    OBVIOUS
  <2> SUFFICES ASSUME NEW d \in DOMAIN conversations, NEW v \in Users,
                      ~IsMember(d, v), IsMember(d, v)'
               PROVE  /\ participants'[d][v] = "member"
                      /\ \/ \E i \in DOMAIN invitations :
                              /\ invitations[i].status = "pending"
                              /\ invitations'[i].conversationID = d
                              /\ invitations'[i].inviteeID = v
                              /\ invitations'[i].status = "accepted"
                         \/ \E r \in DOMAIN joinRequests' :
                              /\ \/ r \in DOMAIN joinRequests /\ joinRequests[r].status = "pending"
                                 \/ r \notin DOMAIN joinRequests /\ conversations[d].joinMode = "public"
                              /\ joinRequests'[r].conversationID = d
                              /\ joinRequests'[r].applicantID = v
                              /\ joinRequests'[r].status = "approved"
    BY DEF EntersByConsent
  <2> DEFINE Invited == \E i \in DOMAIN invitations :
                          /\ invitations[i].status = "pending"
                          /\ invitations'[i].conversationID = d
                          /\ invitations'[i].inviteeID = v
                          /\ invitations'[i].status = "accepted"
             Applied == \E r \in DOMAIN joinRequests' :
                          /\ \/ r \in DOMAIN joinRequests /\ joinRequests[r].status = "pending"
                             \/ r \notin DOMAIN joinRequests /\ conversations[d].joinMode = "public"
                          /\ joinRequests'[r].conversationID = d
                          /\ joinRequests'[r].applicantID = v
                          /\ joinRequests'[r].status = "approved"
             Goal == participants'[d][v] = "member" /\ (Invited \/ Applied)
  <2>0. d \in Convs /\ participants'[d][v] # participants[d][v]
    BY DEF TypeOK, TableOf, IsMember
  \* Who is let in by WithParticipant is the very user it is called for.
  <2>a. ASSUME NEW c \in Convs, NEW w \in Users, participants' = WithParticipant(c, w)
        PROVE  c = d /\ w = v /\ participants'[d][v] = "member"
    BY <2>0, <2>a, WithParticipantValue
  <2>1. ASSUME NEW u \in Users, NEW c \in Convs, ConversationStep(u, c)
        PROVE  Goal
    BY <2>1, NobodyEnters DEF IsMember
  <2>2. ASSUME NEW u \in Users, AdmissionStep(u)
        PROVE  Goal
    <3>1. ASSUME NEW c \in Convs, NEW r \in Reqs, ApplyToJoinGroup(u, c, r)
          PROVE  Goal
      <4>1. participants' = WithParticipant(c, u) /\ conversations[c].joinMode = "public"
        BY <2>0, <3>1 DEF ApplyToJoinGroup
      <4>2. c = d /\ u = v /\ participants'[d][v] = "member"
        BY <2>a, <4>1
      <4>3. /\ r \in DOMAIN joinRequests' /\ r \notin DOMAIN joinRequests
            /\ joinRequests'[r].conversationID = c
            /\ joinRequests'[r].applicantID = u
            /\ joinRequests'[r].status = "approved"
        BY <3>1, <4>1 DEF ApplyToJoinGroup, WithRow
      <4>4. QED BY <4>1, <4>2, <4>3
    <3>2. ASSUME NEW r \in Reqs, NEW approve \in BOOLEAN,
                 ReviewGroupJoinRequest(u, r, approve)
          PROVE  Goal
      <4> DEFINE c == joinRequests[r].conversationID
                 w == joinRequests[r].applicantID
      <4>1. c \in Convs /\ w \in Users
        BY <3>2 DEF ReviewGroupJoinRequest, TypeOK, TableOf, JoinRequest
      <4>2. approve /\ participants' = WithParticipant(c, w)
        BY <2>0, <3>2 DEF ReviewGroupJoinRequest
      <4>3. c = d /\ w = v /\ participants'[d][v] = "member"
        BY <2>a, <4>1, <4>2
      <4>4. /\ r \in DOMAIN joinRequests' /\ r \in DOMAIN joinRequests
            /\ joinRequests[r].status = "pending"
            /\ joinRequests'[r].conversationID = c
            /\ joinRequests'[r].applicantID = w
            /\ joinRequests'[r].status = "approved"
        BY <3>2, <4>2 DEF ReviewGroupJoinRequest, TypeOK, TableOf, JoinRequest
      <4>5. QED BY <4>3, <4>4
    <3>3. ASSUME NEW c \in Convs, NEW w \in Users, NEW i \in Invs, InviteToGroup(u, c, w, i)
          PROVE  Goal
      BY <2>0, <3>3 DEF InviteToGroup
    <3>4. ASSUME NEW i \in Invs, NEW accept \in BOOLEAN, RespondGroupInvitation(u, i, accept)
          PROVE  Goal
      <4> DEFINE c == invitations[i].conversationID
      <4>1. c \in Convs
        BY <3>4 DEF RespondGroupInvitation, TypeOK, TableOf, Invitation
      <4>2. accept /\ participants' = WithParticipant(c, u)
        BY <2>0, <3>4 DEF RespondGroupInvitation
      <4>3. c = d /\ u = v /\ participants'[d][v] = "member"
        BY <2>a, <4>1, <4>2
      <4>4. /\ i \in DOMAIN invitations
            /\ invitations[i].status = "pending"
            /\ invitations'[i].conversationID = c
            /\ invitations'[i].inviteeID = u
            /\ invitations'[i].status = "accepted"
        BY <3>4, <4>2 DEF RespondGroupInvitation, TypeOK, TableOf, Invitation
      <4>5. QED BY <4>3, <4>4
    <3>5. QED BY <2>2, <3>1, <3>2, <3>3, <3>4 DEF AdmissionStep
  <2>3. CASE UNCHANGED vars
    BY <2>0, <2>3 DEF vars
  <2>4. QED BY <2>1, <2>2, <2>3 DEF Next
<1>2. QED BY <1>1, TypeCorrect, PTL DEF Spec, JoinByConsent

-----------------------------------------------------------------------------
\* A group changes hands only by the act of handing it over, to a member, and
\* whoever hands it over stays in it.
THEOREM HandedOver == Spec => OwnershipHandedOver
<1>1. TypeOK /\ OneOwner /\ [Next]_vars => [HandsOver]_vars
  <2> SUFFICES ASSUME TypeOK, OneOwner, [Next]_vars
               PROVE  HandsOver
    OBVIOUS
  <2> SUFFICES ASSUME NEW d \in DOMAIN conversations,
                      conversations'[d].ownerID # conversations[d].ownerID
               PROVE  /\ IsMember(d, conversations'[d].ownerID)
                      /\ participants'[d][conversations[d].ownerID] = "member"
    BY DEF HandsOver
  <2>1. ASSUME NEW u \in Users, NEW c \in Convs, ConversationStep(u, c)
        PROVE  \E target \in Users : c = d /\ TransferGroupOwnership(u, c, target)
    <3>1. ASSUME NEW invited \in SUBSET Users, NEW mode \in JoinModes,
                 CreateGroup(u, c, invited, mode)
          PROVE  FALSE
      BY <3>1 DEF CreateGroup, WithRow
    <3>2. ASSUME NEW w \in Users, CreatePrivate(u, w, c)
          PROVE  FALSE
      BY <3>2 DEF CreatePrivate, WithRow
    <3>3. ASSUME NEW mode \in JoinModes, UpdateGroupProfile(u, c, mode)
          PROVE  FALSE
      BY <3>3 DEF UpdateGroupProfile, TypeOK, TableOf, Conversation
    <3>4. ASSUME UpdateGroupAnnouncement(u, c)
          PROVE  FALSE
      BY <3>4 DEF UpdateGroupAnnouncement, TypeOK, TableOf, Conversation
    <3>5. ASSUME NEW target \in Users, TransferGroupOwnership(u, c, target)
          PROVE  c = d
      BY <3>5 DEF TransferGroupOwnership, TypeOK, TableOf
    <3>6. ASSUME DissolveGroup(u, c)
          PROVE  FALSE
      BY <3>6 DEF DissolveGroup, TypeOK, TableOf, Conversation
    <3>7. ~UNCHANGED conversations
      OBVIOUS
    <3>8. QED
      BY <2>1, <3>1, <3>2, <3>3, <3>4, <3>5, <3>6, <3>7
         DEF ConversationStep, UpdateGroupMemberRole, RemoveGroupMember, LeaveGroup
  <2>2. ASSUME NEW u \in Users, NEW target \in Users, TransferGroupOwnership(u, d, target)
        PROVE  /\ IsMember(d, conversations'[d].ownerID)
               /\ participants'[d][conversations[d].ownerID] = "member"
    <3>1. conversations'[d].ownerID = target /\ IsMember(d, target)
      BY <2>2 DEF TransferGroupOwnership, TypeOK, TableOf, Conversation
    <3>2. conversations[d].ownerID = u
      BY <2>2 DEF TransferGroupOwnership, ActorContext, OneOwner, GroupIds
    <3>3. participants'[d][u] = "member"
      BY <2>2 DEF TransferGroupOwnership, TypeOK, TableOf
    <3>4. QED BY <3>1, <3>2, <3>3
  <2>3. QED
    BY <2>1, <2>2 DEF Next, vars, AdmissionStep, ApplyToJoinGroup,
       ReviewGroupJoinRequest, InviteToGroup, RespondGroupInvitation
<1>2. QED BY <1>1, TypeCorrect, OwnerUnique, PTL DEF Spec, OwnershipHandedOver

-----------------------------------------------------------------------------
\* A request is decided once and by staff, an invitation answered once; what
\* ApplyToJoinGroup files as approved names the owner as its reviewer.
THEOREM DecidedOnce == Spec => DecidedOnceByStaff
<1>1. TypeOK /\ OneOwner /\ [Next]_vars => [DecidesOnce]_vars
  <2> SUFFICES ASSUME TypeOK, OneOwner, [Next]_vars
               PROVE  DecidesOnce
    OBVIOUS
  <2>1. ASSUME NEW q \in DOMAIN joinRequests, joinRequests'[q] # joinRequests[q]
        PROVE  /\ joinRequests[q].status = "pending"
               /\ IsStaff(joinRequests[q].conversationID, joinRequests'[q].reviewedBy)
               /\ ActiveGroup(joinRequests[q].conversationID)
    <3>1. ASSUME NEW u \in Users, NEW c \in DOMAIN conversations, NEW r \in Reqs,
                 ApplyToJoinGroup(u, c, r)
          PROVE  FALSE
      BY <2>1, <3>1 DEF ApplyToJoinGroup, WithRow
    <3>2. ASSUME NEW u \in Users, NEW r \in Reqs, NEW approve \in BOOLEAN,
                 ReviewGroupJoinRequest(u, r, approve)
          PROVE  q = r /\ joinRequests'[q].reviewedBy = u
      BY <2>1, <3>2 DEF ReviewGroupJoinRequest, TypeOK, TableOf, JoinRequest
    <3>3. QED BY <2>1, <3>1, <3>2, RequestStep DEF ReviewGroupJoinRequest
  <2>2. ASSUME NEW q \in DOMAIN joinRequests' \ DOMAIN joinRequests,
               joinRequests'[q].status # "pending"
        PROVE  IsStaff(joinRequests'[q].conversationID, joinRequests'[q].reviewedBy)
    <3>1. ASSUME NEW u \in Users, NEW c \in DOMAIN conversations, NEW r \in Reqs,
                 ApplyToJoinGroup(u, c, r)
          PROVE  IsStaff(joinRequests'[q].conversationID, joinRequests'[q].reviewedBy)
      <4>1. joinRequests'[q].conversationID = c
            /\ joinRequests'[q].reviewedBy = conversations[c].ownerID
        BY <2>2, <3>1 DEF ApplyToJoinGroup, WithRow
      <4>2. participants[c][conversations[c].ownerID] = "owner"
        BY <3>1 DEF ApplyToJoinGroup, OneOwner, GroupIds
      <4>3. QED BY <4>1, <4>2 DEF IsStaff
    <3>2. ASSUME NEW u \in Users, NEW r \in Reqs, NEW approve \in BOOLEAN,
                 ReviewGroupJoinRequest(u, r, approve)
          PROVE  FALSE
      BY <2>2, <3>2 DEF ReviewGroupJoinRequest, TypeOK, TableOf, JoinRequest
    <3>3. QED BY <2>2, <3>1, <3>2, RequestStep
  <2>3. ASSUME NEW j \in DOMAIN invitations, invitations'[j] # invitations[j]
        PROVE  invitations[j].status = "pending"
    <3>1. ASSUME NEW u \in Users, NEW w \in Users, NEW c \in DOMAIN conversations,
                 NEW i \in Invs, InviteToGroup(u, c, w, i)
          PROVE  FALSE
      BY <2>3, <3>1 DEF InviteToGroup, WithRow
    <3>2. ASSUME NEW u \in Users, NEW i \in Invs, NEW accept \in BOOLEAN,
                 RespondGroupInvitation(u, i, accept)
          PROVE  j = i
      BY <2>3, <3>2 DEF RespondGroupInvitation, TypeOK, TableOf, Invitation
    <3>3. QED BY <2>3, <3>1, <3>2, InvitationStep DEF RespondGroupInvitation
  <2>4. QED BY <2>1, <2>2, <2>3 DEF DecidesOnce
<1>2. QED BY <1>1, TypeCorrect, OwnerUnique, PTL DEF Spec, DecidedOnceByStaff

-----------------------------------------------------------------------------
(* The transactions of GroupTx.                                            *)

\* What a transaction t has locked, read and checked by the place it is at.
PastItem(t)   == t.at \notin {"idle", "item"} /\ t.op.kind \in {"review", "respond"}
PastConv(t)   == t.at \in {"actor", "target", "count", "commit"} /\ t.op.kind # "mark"
PastActor(t)  == t.at \in {"target", "count", "commit"} /\ t.op.kind \in ByActor \cup {"mark"}
PastTarget(t) == t.at = "commit" /\ t.op.kind \in {"role", "transfer", "remove"}
PastCount(t)  == t.at = "commit" /\ t.op.kind \in {"apply", "invite"}

ItemRow(t) == <<t.op.kind, t.op.id>>
ConvRow(t) == <<"conversation", t.c>>
ActorRow(t) == <<"participant", t.c, t.op.u>>
TargetRow(t) == <<"participant", t.c, t.op.target>>

Rows(t) ==
  (IF PastItem(t) THEN {ItemRow(t)} ELSE {}) \cup (IF PastConv(t) THEN {ConvRow(t)} ELSE {}) \cup
  (IF PastActor(t) THEN {ActorRow(t)} ELSE {}) \cup (IF PastTarget(t) THEN {TargetRow(t)} ELSE {})

\* A transaction holds the rows it has passed, and nobody else holds them.
Locked ==
  /\ held = [p \in Txs |-> Rows(tx[p])]
  /\ \A p, q \in Txs : p # q => Rows(tx[p]) \cap Rows(tx[q]) = {}

\* Every transaction is at a place that its kind leads to.
Course(t) ==
  \/ t = Idle
  \/ /\ t.op \in Ops /\ t.at # "idle"
     /\ t.at = "item"   => t.op.kind \in {"review", "respond"}
     /\ t.at = "conv"   => t.op.kind # "mark"
     /\ t.at = "actor"  => t.op.kind \in ByActor \cup {"mark"}
     /\ t.at = "target" => t.op.kind \in {"role", "transfer", "remove"}
     /\ t.at = "count"  => t.op.kind \in {"apply", "invite"}

Items(t) == IF t.op.kind = "review" THEN joinRequests ELSE invitations

\* Each thing read is what it was, and has passed the checks that follow the
\* read; what has not been read yet is empty.
ItemHolds(t) ==
  IF PastItem(t)
  THEN /\ t.op.id \in DOMAIN Items(t) /\ t.item = Items(t)[t.op.id]
       /\ t.c = t.item.conversationID
       /\ t.op.kind = "respond" => t.item.inviteeID = t.op.u /\ t.item.status = "pending"
  ELSE t.item = Nobody /\ (t # Idle => t.c = t.op.c)

ConvHolds(t) ==
  IF PastConv(t)
  THEN /\ t.c \in DOMAIN conversations /\ t.conv = conversations[t.c]
       /\ t.op.kind \in ByActor \cup {"apply"} => t.conv.type = "group"
       /\ t.op.kind \in {"apply", "respond"} => t.conv.status # "dissolved"
       /\ t.op.kind = "apply" => t.conv.joinMode # "private"
  ELSE t.conv = Nobody

ActorHolds(t) ==
  IF PastActor(t)
  THEN /\ t.c \in DOMAIN conversations /\ t.role = participants[t.c][t.op.u]
       /\ t.role # NotMember
       /\ t.op.kind # "mark" => ActorMay(t.op.kind, t.role, t)
  ELSE t.role = NotMember

TargetHolds(t) ==
  IF PastTarget(t)
  THEN /\ t.targetRole = participants[t.c][t.op.target] /\ t.targetRole # NotMember
       /\ t.op.kind = "role" => t.targetRole # "owner"
       /\ t.op.kind = "remove" => Manageable(t.role, t.targetRole)
  ELSE t.targetRole = NotMember

CountHolds(t) ==
  PastCount(t) => /\ ~IsMember(t.c, t.op.target)
                  /\ t.op.kind = "apply" => ~PendingRequest(t.c, t.op.target)
                  /\ t.op.kind = "invite" => ~PendingInvitation(t.c, t.op.target)

Holds(t) == ItemHolds(t) /\ ConvHolds(t) /\ ActorHolds(t) /\ TargetHolds(t) /\ CountHolds(t)

\* The bound on the transactions counts those that are still to commit.
Running == {p \in Txs : Active(p)}
Budget  == done \in Nat /\ done + Cardinality(Running) <= MaxOps

IInv == /\ TxTypeOK /\ Locked /\ Budget
        /\ \A p \in Txs : Course(tx[p]) /\ Holds(tx[p])

-----------------------------------------------------------------------------
TxRecord == [at : {"idle", "item", "conv", "actor", "target", "count", "commit"},
             op : Ops \cup {Nobody}, c : Convs \cup {Nobody},
             conv : Conversation \cup {Nobody},
             item : JoinRequest \cup Invitation \cup {Nobody},
             role : Roles \cup {NotMember}, targetRole : Roles \cup {NotMember}]

\* What a request of each kind names.
LEMMA OpFields ==
  ASSUME NEW op \in Ops
  PROVE  /\ op.u \in Users /\ op.target \in Users /\ op.kind \in Kinds
         /\ op.kind \notin {"review", "respond"} => op.c \in Convs
         /\ op.kind = "profile" => op.choice \in JoinModes
         /\ op.kind = "role" => op.choice \in {"admin", "member"}
         /\ op.kind \in {"apply", "leave"} => op.target = op.u
         /\ op.kind = "review" => op.id \in Reqs
         /\ op.kind = "respond" => op.id \in Invs
  BY GroupTxAssumption DEF Ops, ByTarget, ByActor

\* A transaction that has passed its checks and commits is an operation of
\* Groups, whose guard holds at that moment.
LEMMA CommitIsStep ==
  ASSUME TypeOK, NEW p \in Txs, Course(tx[p]), Holds(tx[p]), Commit(p)
  PROVE  Next
<1> DEFINE t == tx[p]
           op == t.op
<1>1. t # Idle /\ op \in Ops /\ t.at = "commit"
  BY DEF Commit, At, Course, Idle
<1>2. op.u \in Users /\ op.target \in Users
  BY <1>1, OpFields
<1>3. t.c \in Convs
  BY <1>1, OpFields DEF Holds, ItemHolds, ConvHolds, ActorHolds, PastItem, PastConv, PastActor,
                        Kinds, ByActor, TypeOK, TableOf
<1>4. ASSUME op.kind \in ByActor
      PROVE  /\ ActorContext(t.c, op.u) /\ ActiveGroup(t.c)
             /\ t.role = participants[t.c][op.u] /\ ActorMay(op.kind, t.role, t)
  BY <1>1, <1>4 DEF Holds, ConvHolds, ActorHolds, PastConv, PastActor, ByActor, ActorMay,
                    ActorContext, ActiveGroup, IsMember
<1>5. CASE WriteConversation(t)
  <2>1. CASE op.kind = "profile"
    BY <1>1, <1>2, <1>3, <1>4, <1>5, <2>1, OpFields
       DEF WriteConversation, ByActor, ActorMay, IsStaff, UpdateGroupProfile, Next, ConversationStep
  <2>2. CASE op.kind = "announce"
    BY <1>2, <1>3, <1>4, <1>5, <2>2
       DEF WriteConversation, ByActor, ActorMay, IsStaff, UpdateGroupAnnouncement, Next, ConversationStep
  <2>3. CASE op.kind = "dissolve"
    BY <1>2, <1>3, <1>4, <1>5, <2>3
       DEF WriteConversation, ByActor, ActorMay, DissolveGroup, Next, ConversationStep
  <2> QED BY <1>5, <2>1, <2>2, <2>3 DEF WriteConversation
<1>6. CASE WriteParticipants(t)
  <2>1. CASE op.kind = "role"
    <3>1. IsMember(t.c, op.target) /\ participants[t.c][op.target] # "owner"
      BY <1>1, <2>1 DEF Holds, TargetHolds, PastTarget, IsMember
    <3>2. op.choice \in {"admin", "member"} /\ op.choice \in Roles
      BY <1>1, <2>1, OpFields DEF Roles
    <3> QED BY <1>2, <1>3, <1>4, <1>6, <2>1, <3>1, <3>2
       DEF WriteParticipants, ByActor, ActorMay, UpdateGroupMemberRole, Next, ConversationStep
  <2>2. CASE op.kind = "transfer"
    <3>1. IsMember(t.c, op.target)
      BY <1>1, <2>2 DEF Holds, TargetHolds, PastTarget, IsMember
    <3> QED BY <1>2, <1>3, <1>4, <1>6, <2>2, <3>1
       DEF WriteParticipants, ByActor, ActorMay, TransferGroupOwnership, Next, ConversationStep
  <2>3. CASE op.kind = "remove"
    <3>1. /\ IsMember(t.c, op.target)
          /\ Manageable(t.role, participants[t.c][op.target])
      BY <1>1, <2>3 DEF Holds, TargetHolds, PastTarget, IsMember
    <3> QED BY <1>2, <1>3, <1>4, <1>6, <2>3, <3>1
       DEF WriteParticipants, ByActor, ActorMay, RemoveGroupMember, Next, ConversationStep
  <2>4. CASE op.kind = "leave"
    <3>1. op.target = op.u
      BY <1>1, <2>4, OpFields
    <3> QED BY <1>2, <1>3, <1>4, <1>6, <2>4, <3>1
       DEF WriteParticipants, ByActor, ActorMay, LeaveGroup, Next, ConversationStep
  <2> QED BY <1>6, <2>1, <2>2, <2>3, <2>4 DEF WriteParticipants
<1>7. CASE WriteRequest(t)
  <2>1. ASSUME op.kind = "apply", NEW r \in Reqs \ DOMAIN joinRequests,
               joinRequests' = WithRow(joinRequests, r,
                   [conversationID |-> t.c, applicantID |-> t.op.u,
                    status |-> IF t.conv.joinMode = "public" THEN "approved" ELSE "pending",
                    reviewedBy |-> IF t.conv.joinMode = "public" THEN t.conv.ownerID ELSE Nobody]),
               participants' = IF t.conv.joinMode = "public" THEN WithParticipant(t.c, t.op.u)
                                                             ELSE participants
        PROVE  Next
    <3>1. op.target = op.u
      BY <1>1, <2>1, OpFields
    <3>2. /\ t.c \in DOMAIN conversations /\ t.conv = conversations[t.c]
          /\ t.conv.type = "group" /\ t.conv.status # "dissolved" /\ t.conv.joinMode # "private"
      BY <1>1, <2>1 DEF Holds, ConvHolds, PastConv
    <3>3. ~IsMember(t.c, op.u) /\ ~PendingRequest(t.c, op.u)
      BY <1>1, <2>1, <3>1 DEF Holds, CountHolds, PastCount
    <3>4. UNCHANGED <<conversations, invitations>>
      BY <1>7 DEF WriteRequest
    <3>5. ApplyToJoinGroup(op.u, t.c, r)
      BY <2>1, <3>2, <3>3, <3>4 DEF ApplyToJoinGroup, ActiveGroup
    <3> QED BY <1>2, <1>3, <3>5 DEF Next, AdmissionStep
  <2>2. CASE op.kind = "review"
    <3>1. /\ op.id \in DOMAIN joinRequests /\ t.item = joinRequests[op.id]
          /\ t.c = t.item.conversationID
      BY <1>1, <2>2 DEF Holds, ItemHolds, PastItem, Items
    <3>2. op.id \in Reqs
      BY <1>1, <2>2, OpFields
    <3>3. ReviewGroupJoinRequest(op.u, op.id, op.choice = "yes")
      BY <1>4, <1>7, <2>2, <3>1
         DEF WriteRequest, ByActor, ActorMay, IsStaff, ReviewGroupJoinRequest
    <3> QED BY <1>2, <3>2, <3>3 DEF Next, AdmissionStep
  <2> QED BY <1>7, <2>1, <2>2 DEF WriteRequest
<1>8. CASE WriteInvitation(t)
  <2>1. CASE op.kind = "invite"
    <3>1. ~IsMember(t.c, op.target) /\ ~PendingInvitation(t.c, op.target)
      BY <1>1, <2>1 DEF Holds, CountHolds, PastCount
    <3> QED BY <1>2, <1>3, <1>4, <1>8, <2>1, <3>1
       DEF WriteInvitation, ByActor, ActorMay, IsStaff, InviteToGroup, Next, AdmissionStep
  <2>2. CASE op.kind = "respond"
    <3>1. /\ op.id \in DOMAIN invitations /\ t.c = invitations[op.id].conversationID
          /\ invitations[op.id].inviteeID = op.u /\ invitations[op.id].status = "pending"
      BY <1>1, <2>2 DEF Holds, ItemHolds, PastItem, Items
    <3>2. t.c \in DOMAIN conversations /\ ActiveGroup(t.c)
      BY <1>1, <2>2 DEF Holds, ConvHolds, PastConv, ActiveGroup
    <3>3. op.id \in Invs
      BY <1>1, <2>2, OpFields
    <3>4. RespondGroupInvitation(op.u, op.id, op.choice = "yes")
      BY <1>8, <2>2, <3>1, <3>2 DEF WriteInvitation, RespondGroupInvitation
    <3> QED BY <1>2, <3>3, <3>4 DEF Next, AdmissionStep
  <2> QED BY <1>8, <2>1, <2>2 DEF WriteInvitation
<1> QED BY <1>5, <1>6, <1>7, <1>8 DEF Commit

-----------------------------------------------------------------------------
\* What a step leaves of the tables for somebody who has locked rows outside
\* rows and does not hold the conversation c.
Frame(c, rows) ==
  /\ \A d \in DOMAIN conversations :
       d \in DOMAIN conversations' /\ (d # c => conversations'[d] = conversations[d])
  /\ \A d \in DOMAIN conversations, u \in Users :
       \/ participants'[d][u] = participants[d][u]
       \/ d = c /\ (participants[d][u] = NotMember \/ <<"participant", d, u>> \in rows)
  /\ \A r \in DOMAIN joinRequests :
       /\ r \in DOMAIN joinRequests'
       /\ <<"review", r>> \notin rows => joinRequests'[r] = joinRequests[r]
  /\ \A i \in DOMAIN invitations :
       /\ i \in DOMAIN invitations'
       /\ <<"respond", i>> \notin rows => invitations'[i] = invitations[i]
  /\ \A d \in Convs \ {c}, u \in Users :
       /\ PendingRequest(d, u)' => PendingRequest(d, u)
       /\ PendingInvitation(d, u)' => PendingInvitation(d, u)

\* A new conversation touches nothing that is there.
LEMMA CreateFrame ==
  ASSUME TypeOK, Create
  PROVE  \E c \in Convs \ DOMAIN conversations : Frame(c, {})
<1>1. ASSUME NEW u \in Users, NEW c \in Convs, NEW invited \in SUBSET Users, NEW mode \in JoinModes,
             CreateGroup(u, c, invited, mode)
      PROVE  c \notin DOMAIN conversations /\ Frame(c, {})
  BY <1>1 DEF CreateGroup, WithRow, Frame, TypeOK, TableOf, PendingRequest, PendingInvitation
<1>2. ASSUME NEW u \in Users, NEW v \in Users, NEW c \in Convs, CreatePrivate(u, v, c)
      PROVE  c \notin DOMAIN conversations /\ Frame(c, {})
  BY <1>2 DEF CreatePrivate, WithRow, Frame, TypeOK, TableOf, PendingRequest, PendingInvitation
<1> QED BY <1>1, <1>2 DEF Create

\* A commit changes only rows it has locked, rows that are new, and the
\* memberships, and what pends, in the conversation that it has locked.
LEMMA CommitFrame ==
  ASSUME TypeOK, NEW p \in Txs, Course(tx[p]), Holds(tx[p]), Commit(p)
  PROVE  Frame(tx[p].c, Rows(tx[p])) /\ PastConv(tx[p])
<1> DEFINE t == tx[p]
           op == t.op
<1>1. t # Idle /\ op \in Ops /\ t.at = "commit"
  BY DEF Commit, At, Course, Idle
<1>2. op.u \in Users /\ op.target \in Users
  BY <1>1, OpFields
<1>3. op.kind # "mark"
  BY DEF Commit, WriteConversation, WriteParticipants, WriteRequest, WriteInvitation
<1>4. PastConv(t) /\ t.c \in DOMAIN conversations /\ t.c \in Convs
  BY <1>1, <1>3 DEF PastConv, Holds, ConvHolds, TypeOK, TableOf
<1>5. CASE WriteConversation(t)
  BY <1>4, <1>5 DEF WriteConversation, Frame, TypeOK, TableOf, PendingRequest, PendingInvitation
<1>6. CASE WriteParticipants(t)
  <2>1. op.kind \in {"role", "transfer", "remove"} => TargetRow(t) \in Rows(t)
    BY <1>1 DEF Rows, PastTarget
  <2>2. op.kind \in {"role", "transfer", "remove", "leave"} => ActorRow(t) \in Rows(t)
    BY <1>1 DEF Rows, PastActor, ByActor
  <2>3. op.kind = "leave" => op.target = op.u
    BY <1>1, OpFields
  <2>4. \A d \in Convs, u \in Users :
          \/ participants'[d][u] = participants[d][u]
          \/ d = t.c /\ <<"participant", d, u>> \in Rows(t)
    <3>1. CASE op.kind = "role"
      BY <1>2, <1>4, <1>6, <2>1, <3>1 DEF WriteParticipants, WithRole, TypeOK, TargetRow
    <3>2. CASE op.kind = "transfer"
      <4>1. participants' = [participants EXCEPT ![t.c][op.u] = "member", ![t.c][op.target] = "owner"]
        BY <1>6, <3>2 DEF WriteParticipants
      <4>2. ASSUME NEW d \in Convs, NEW u \in Users, d # t.c \/ u \notin {op.u, op.target}
            PROVE  participants'[d][u] = participants[d][u]
        BY <4>1, <4>2 DEF TypeOK
      <4> QED BY <2>1, <2>2, <3>2, <4>2 DEF ActorRow, TargetRow
    <3>3. CASE op.kind = "remove"
      BY <1>2, <1>4, <1>6, <2>1, <3>3 DEF WriteParticipants, WithRole, TypeOK, TargetRow
    <3>4. CASE op.kind = "leave"
      BY <1>2, <1>4, <1>6, <2>2, <2>3, <3>4 DEF WriteParticipants, WithRole, TypeOK, ActorRow
    <3> QED BY <1>6, <3>1, <3>2, <3>3, <3>4 DEF WriteParticipants
  <2>5. UNCHANGED <<joinRequests, invitations>>
    BY <1>6 DEF WriteParticipants
  <2>6. \A d \in DOMAIN conversations :
          d \in DOMAIN conversations' /\ (d # t.c => conversations'[d] = conversations[d])
    BY <1>4, <1>6 DEF WriteParticipants, TypeOK, TableOf
  <2> QED BY <1>4, <2>4, <2>5, <2>6 DEF Frame, TypeOK, TableOf, PendingRequest, PendingInvitation
<1>7. CASE WriteRequest(t)
  <2>1. ASSUME NEW w \in Users, participants' = WithParticipant(t.c, w) \/ UNCHANGED participants
        PROVE  \A d \in DOMAIN conversations, u \in Users :
                 \/ participants'[d][u] = participants[d][u]
                 \/ d = t.c /\ participants[d][u] = NotMember
    BY <1>4, <2>1, WithParticipantValue DEF TypeOK, TableOf, IsMember
  <2>2. CASE op.kind = "apply"
    <3>1. PICK r \in Reqs \ DOMAIN joinRequests : joinRequests' = WithRow(joinRequests, r,
                   [conversationID |-> t.c, applicantID |-> t.op.u,
                    status |-> IF t.conv.joinMode = "public" THEN "approved" ELSE "pending",
                    reviewedBy |-> IF t.conv.joinMode = "public" THEN t.conv.ownerID ELSE Nobody])
      BY <1>7, <2>2 DEF WriteRequest
    <3>2. participants' = WithParticipant(t.c, op.u) \/ UNCHANGED participants
      BY <1>7, <2>2 DEF WriteRequest
    <3>3. UNCHANGED <<conversations, invitations>>
      BY <1>7 DEF WriteRequest
    <3>4. \A d \in Convs \ {t.c}, u \in Users : PendingRequest(d, u)' => PendingRequest(d, u)
      BY <3>1 DEF PendingRequest, WithRow
    <3> QED BY <1>2, <1>4, <2>1, <3>1, <3>2, <3>3, <3>4
       DEF Frame, WithRow, PendingInvitation, TypeOK, TableOf
  <2>3. CASE op.kind = "review"
    <3>1. op.id \in DOMAIN joinRequests /\ t.item = joinRequests[op.id] /\ ItemRow(t) \in Rows(t)
      BY <1>1, <2>3 DEF Holds, ItemHolds, PastItem, Items, Rows
    <3>2. t.item.applicantID \in Users
      BY <3>1 DEF TypeOK, TableOf, JoinRequest
    <3>3. participants' = WithParticipant(t.c, t.item.applicantID) \/ UNCHANGED participants
      BY <1>7, <2>3 DEF WriteRequest
    <3>4. /\ UNCHANGED <<conversations, invitations>> /\ DOMAIN joinRequests' = DOMAIN joinRequests
          /\ \A r \in DOMAIN joinRequests : r # op.id => joinRequests'[r] = joinRequests[r]
          /\ joinRequests'[op.id].status # "pending"
      BY <1>7, <2>3, <3>1 DEF WriteRequest, TypeOK, TableOf, JoinRequest
    <3>5. \A d \in Convs \ {t.c}, u \in Users : PendingRequest(d, u)' => PendingRequest(d, u)
      BY <3>1, <3>4 DEF PendingRequest
    <3> QED BY <1>4, <2>1, <2>3, <3>1, <3>2, <3>3, <3>4, <3>5
       DEF Frame, ItemRow, PendingInvitation, TypeOK, TableOf
  <2> QED BY <1>7, <2>2, <2>3 DEF WriteRequest
<1>8. CASE WriteInvitation(t)
  <2>1. CASE op.kind = "invite"
    <3>1. PICK i \in Invs \ DOMAIN invitations : invitations' = WithRow(invitations, i,
                   [conversationID |-> t.c, inviteeID |-> t.op.target, status |-> "pending"])
      BY <1>8, <2>1 DEF WriteInvitation
    <3>2. UNCHANGED <<conversations, participants, joinRequests>>
      BY <1>8, <2>1 DEF WriteInvitation
    <3>3. \A d \in Convs \ {t.c}, u \in Users : PendingInvitation(d, u)' => PendingInvitation(d, u)
      BY <3>1 DEF PendingInvitation, WithRow
    <3> QED BY <1>4, <3>1, <3>2, <3>3 DEF Frame, WithRow, PendingRequest, TypeOK, TableOf
  <2>2. CASE op.kind = "respond"
    <3>1. op.id \in DOMAIN invitations /\ ItemRow(t) \in Rows(t)
      BY <1>1, <2>2 DEF Holds, ItemHolds, PastItem, Items, Rows
    <3>2. participants' = WithParticipant(t.c, op.u) \/ UNCHANGED participants
      BY <1>8, <2>2 DEF WriteInvitation
    <3>3. \A d \in DOMAIN conversations, u \in Users :
             \/ participants'[d][u] = participants[d][u]
             \/ d = t.c /\ participants[d][u] = NotMember
      BY <1>2, <1>4, <3>2, WithParticipantValue DEF TypeOK, TableOf, IsMember
    <3>4. /\ UNCHANGED <<conversations, joinRequests>> /\ DOMAIN invitations' = DOMAIN invitations
          /\ \A i \in DOMAIN invitations : i # op.id => invitations'[i] = invitations[i]
          /\ invitations'[op.id].status # "pending"
      BY <1>8, <2>2, <3>1 DEF WriteInvitation, TypeOK, TableOf, Invitation
    <3>5. \A d \in Convs \ {t.c}, u \in Users : PendingInvitation(d, u)' => PendingInvitation(d, u)
      BY <3>1, <3>4 DEF PendingInvitation
    <3> QED BY <1>4, <2>2, <3>1, <3>3, <3>4, <3>5
       DEF Frame, ItemRow, PendingRequest, TypeOK, TableOf
  <2> QED BY <1>8, <2>1, <2>2 DEF WriteInvitation
<1> QED BY <1>4, <1>5, <1>6, <1>7, <1>8 DEF Commit

\* Whoever has locked other rows, and does not hold c, finds what it has read
\* as it was.
LEMMA Stable ==
  ASSUME TypeOK, NEW q \in Txs, Course(tx[q]), Holds(tx[q]), tx'[q] = tx[q],
         NEW c, NEW rows, Frame(c, rows), Rows(tx[q]) \cap rows = {},
         PastConv(tx[q]) => tx[q].c # c
  PROVE  Holds(tx[q])'
<1> DEFINE s == tx[q]
<1>1. CASE s = Idle
  BY <1>1 DEF Idle, Holds, ItemHolds, ConvHolds, ActorHolds, TargetHolds, CountHolds,
              PastItem, PastConv, PastActor, PastTarget, PastCount
<1>2. CASE s # Idle
  <2>1. s.op \in Ops /\ s.op.u \in Users /\ s.op.target \in Users
    BY <1>2, OpFields DEF Course
  <2>2. ItemHolds(s)'
    <3>1. PastItem(s) => ItemRow(s) \notin rows
      BY DEF Rows
    <3> QED BY <3>1 DEF Holds, ItemHolds, PastItem, Items, ItemRow, Frame
  <2>3. ConvHolds(s)'
    BY DEF Holds, ConvHolds, PastConv, Frame
  <2>4. ActorHolds(s)'
    <3>1. PastActor(s) => ActorRow(s) \notin rows
      BY DEF Rows
    <3> QED BY <2>1, <3>1 DEF Holds, ActorHolds, PastActor, ActorRow, Frame, ActorMay
  <2>5. TargetHolds(s)'
    <3>1. PastTarget(s) => PastConv(s)
      BY DEF PastTarget, PastConv
    <3>2. PastConv(s) => s.c \in DOMAIN conversations
      BY DEF Holds, ConvHolds
    <3>3. PastTarget(s) => participants'[s.c][s.op.target] = participants[s.c][s.op.target]
      BY <2>1, <3>1, <3>2 DEF Frame
    <3>4. TargetHolds(s) /\ (PastTarget(s)' <=> PastTarget(s))
      BY DEF Holds, PastTarget
    <3> QED BY <3>3, <3>4 DEF TargetHolds
  <2>6. CountHolds(s)'
    <3>1. PastCount(s) => PastConv(s)
      BY DEF PastCount, PastConv
    <3>2. PastConv(s) => s.c \in DOMAIN conversations /\ s.c \in Convs
      BY DEF Holds, ConvHolds, TypeOK, TableOf
    <3> QED BY <2>1, <3>1, <3>2 DEF Holds, CountHolds, PastCount, IsMember, Frame
  <2> QED BY <2>2, <2>3, <2>4, <2>5, <2>6 DEF Holds
<1> QED BY <1>1, <1>2

-----------------------------------------------------------------------------
\* What is to be shown of a transaction that has moved on.
Moved(p) == tx' \in [Txs -> TxRecord] /\ Course(tx[p])' /\ Holds(tx[p])'

\* The statements of one transaction leave the others where they are.
LEMMA OthersStay ==
  ASSUME tx \in [Txs -> TxRecord], NEW p \in Txs, Step(p), NEW q \in Txs \ {p}
  PROVE  tx'[q] = tx[q]
  BY DEF Step, Begin, LockItem, LockConversation, LockActor, LockTarget, Count, Commit,
         CommitMessages, Rollback, End

\* A request is taken up: nothing is locked and nothing read.
LEMMA BeginMoves ==
  ASSUME IInv, NEW p \in Txs, NEW op \in Ops, Begin(p, op)
  PROVE  Moved(p) /\ Rows(tx[p])' = {} /\ Rows(tx[p]) = {}
<1>1. tx[p] = Idle /\ tx \in [Txs -> TxRecord]
  BY DEF IInv, Course, Begin, At, TxTypeOK, TxRecord
<1> DEFINE place == CASE op.kind \in {"review", "respond"} -> "item"
                      [] op.kind = "mark" -> "actor"
                      [] OTHER -> "conv"
<1>2. tx' = [tx EXCEPT ![p] = [Idle EXCEPT !.op = op, !.c = op.c, !.at = place]]
  BY DEF Begin
<1>3. place \in {"item", "actor", "conv"} /\ op.c \in Convs \cup {Nobody}
  BY DEF Ops
<1> HIDE DEF place
<1>4. /\ tx'[p].at = place /\ tx'[p].op = op /\ tx'[p].c = op.c
      /\ tx'[p].item = Nobody /\ tx'[p].conv = Nobody
      /\ tx'[p].role = NotMember /\ tx'[p].targetRole = NotMember
      /\ tx'[p] \in TxRecord /\ tx' \in [Txs -> TxRecord]
  BY <1>1, <1>2, <1>3 DEF TxRecord, Idle
<1>5. Course(tx[p])'
  BY <1>3, <1>4, OpFields DEF Course, Kinds, place
<1>6. Holds(tx[p])'
  BY <1>3, <1>4, OpFields DEF place, Holds, ItemHolds, ConvHolds, ActorHolds, TargetHolds, CountHolds,
                        PastItem, PastConv, PastActor, PastTarget, PastCount
<1>7. Rows(tx[p])' = {}
  BY <1>3, <1>4 DEF place, Rows, PastItem, PastConv, PastActor, PastTarget
<1>8. Rows(tx[p]) = {}
  BY <1>1 DEF Rows, PastItem, PastConv, PastActor, PastTarget, Idle
<1> QED BY <1>4, <1>5, <1>6, <1>7, <1>8 DEF Moved

\* The request or invitation is locked, and read under the lock.
LEMMA LockItemMoves ==
  ASSUME IInv, NEW p \in Txs, LockItem(p)
  PROVE  Moved(p) /\ Rows(tx[p])' = Rows(tx[p]) \cup {Wanted(p)}
<1> DEFINE t == tx[p]
           item == Items(t)[t.op.id]
<1>1. TypeOK /\ tx \in [Txs -> TxRecord] /\ t \in TxRecord /\ t.at = "item"
  BY DEF IInv, TxTypeOK, TxRecord, LockItem, At
<1>2. /\ t # Idle /\ t.op \in Ops /\ t.op.kind \in {"review", "respond"}
      /\ Holds(t)
  BY <1>1 DEF IInv, Course, Idle
<1>3. /\ t.op.id \in DOMAIN Items(t)
      /\ t.op.kind = "respond" => item.inviteeID = t.op.u /\ item.status = "pending"
      /\ tx' = [tx EXCEPT ![p] = [t EXCEPT !.item = item, !.c = item.conversationID, !.at = "conv"]]
  BY <1>1, <1>2 DEF LockItem, Items
<1>4. item \in JoinRequest \cup Invitation /\ item.conversationID \in Convs
  BY <1>1, <1>2, <1>3 DEF Items, TypeOK, TableOf, JoinRequest, Invitation
<1> HIDE DEF item
<1>5. /\ tx'[p].at = "conv" /\ tx'[p].op = t.op /\ tx'[p].c = item.conversationID
      /\ tx'[p].item = item /\ tx'[p].conv = t.conv
      /\ tx'[p].role = t.role /\ tx'[p].targetRole = t.targetRole
      /\ tx'[p] \in TxRecord
  BY <1>1, <1>3, <1>4 DEF TxRecord
<1>6. tx' \in [Txs -> TxRecord]
  BY <1>1, <1>3, <1>5
<1>7. Course(tx[p])'
  BY <1>2, <1>5 DEF Course
<1>8. UNCHANGED vars
  BY DEF LockItem
<1>9. Holds(tx[p])'
  BY <1>1, <1>2, <1>3, <1>5, <1>8
     DEF item, Items, vars, Holds, ItemHolds, ConvHolds, ActorHolds, TargetHolds, CountHolds,
         PastItem, PastConv, PastActor, PastTarget, PastCount
<1>10. Rows(tx[p])' = Rows(tx[p]) \cup {Wanted(p)}
  BY <1>1, <1>2, <1>5 DEF Rows, Wanted, At, ItemRow, PastItem, PastConv, PastActor, PastTarget
<1> QED BY <1>6, <1>7, <1>9, <1>10 DEF Moved

\* The row of the conversation is locked, and read under the lock.
LEMMA LockConversationMoves ==
  ASSUME IInv, NEW p \in Txs, LockConversation(p)
  PROVE  Moved(p) /\ Rows(tx[p])' = Rows(tx[p]) \cup {Wanted(p)}
<1> DEFINE t == tx[p]
           row == conversations[t.c]
           place == IF t.op.kind \in ByActor THEN "actor"
                    ELSE IF t.op.kind = "apply" THEN "count" ELSE "commit"
<1>1. TypeOK /\ tx \in [Txs -> TxRecord] /\ t \in TxRecord /\ t.at = "conv"
  BY DEF IInv, TxTypeOK, TxRecord, LockConversation, At
<1>2. t # Idle /\ t.op \in Ops /\ t.op.kind \in Kinds \ {"mark"} /\ Holds(t)
  BY <1>1, OpFields DEF IInv, Course, Idle
<1>3. /\ t.c \in DOMAIN conversations
      /\ t.op.kind \in ByActor \cup {"apply"} => row.type = "group"
      /\ t.op.kind \in {"apply", "respond"} => row.status # "dissolved"
      /\ t.op.kind = "apply" => row.joinMode # "private"
      /\ tx' = [tx EXCEPT ![p] = [t EXCEPT !.conv = row, !.at = place]]
  BY <1>1, <1>2 DEF LockConversation, Kind
<1>4. row \in Conversation
  BY <1>1, <1>3 DEF TypeOK, TableOf
<1> HIDE DEF row, place
<1>5. /\ tx'[p].at = place /\ tx'[p].op = t.op /\ tx'[p].c = t.c
      /\ tx'[p].item = t.item /\ tx'[p].conv = row
      /\ tx'[p].role = t.role /\ tx'[p].targetRole = t.targetRole
      /\ tx'[p] \in TxRecord
  BY <1>1, <1>3, <1>4 DEF TxRecord, place
<1>6. tx' \in [Txs -> TxRecord]
  BY <1>1, <1>3, <1>5
<1>7. Course(tx[p])'
  BY <1>2, <1>5 DEF Course, place, Kinds, ByActor
<1>8. UNCHANGED vars
  BY DEF LockConversation
<1>9. Holds(tx[p])'
  <2>1. ItemHolds(tx[p])'
    BY <1>1, <1>2, <1>5, <1>8 DEF place, vars, Holds, ItemHolds, PastItem, Items, Idle
  <2>2. ConvHolds(tx[p])'
    BY <1>1, <1>2, <1>3, <1>5, <1>8 DEF place, row, vars, ConvHolds, PastConv
  <2>3. ActorHolds(tx[p])' /\ TargetHolds(tx[p])' /\ CountHolds(tx[p])'
    BY <1>1, <1>2, <1>5, <1>8
       DEF place, vars, Holds, ActorHolds, TargetHolds, CountHolds,
           PastActor, PastTarget, PastCount, ByActor
  <2> QED BY <2>1, <2>2, <2>3 DEF Holds
<1>10. Rows(tx[p])' = Rows(tx[p]) \cup {Wanted(p)}
  BY <1>1, <1>2, <1>5
     DEF place, Rows, Wanted, At, ItemRow, ConvRow, PastItem, PastConv, PastActor, PastTarget, ByActor
<1> QED BY <1>6, <1>7, <1>9, <1>10 DEF Moved

\* The user's own row is locked, and decides what the user may do.
LEMMA LockActorMoves ==
  ASSUME IInv, NEW p \in Txs, LockActor(p)
  PROVE  Moved(p) /\ Rows(tx[p])' = Rows(tx[p]) \cup {Wanted(p)}
<1> DEFINE t == tx[p]
           role == participants[t.c][t.op.u]
           place == IF t.op.kind \in {"role", "transfer", "remove"} THEN "target"
                    ELSE IF t.op.kind = "invite" THEN "count" ELSE "commit"
<1>1. TypeOK /\ tx \in [Txs -> TxRecord] /\ t \in TxRecord /\ t.at = "actor"
  BY DEF IInv, TxTypeOK, TxRecord, LockActor, At
<1>2. t # Idle /\ t.op \in Ops /\ t.op.kind \in ByActor \cup {"mark"} /\ Holds(t)
  BY <1>1 DEF IInv, Course, Idle
<1>3. /\ t.c \in DOMAIN conversations /\ role # NotMember
      /\ t.op.kind # "mark" => ActorMay(t.op.kind, role, t)
      /\ tx' = [tx EXCEPT ![p] = [t EXCEPT !.role = role, !.at = place]]
  BY <1>1, <1>2 DEF LockActor, Kind
<1>4. role \in Roles \cup {NotMember}
  BY <1>1, <1>2, <1>3, OpFields DEF TypeOK, TableOf
<1> HIDE DEF role, place
<1>5. /\ tx'[p].at = place /\ tx'[p].op = t.op /\ tx'[p].c = t.c
      /\ tx'[p].item = t.item /\ tx'[p].conv = t.conv
      /\ tx'[p].role = role /\ tx'[p].targetRole = t.targetRole
      /\ tx'[p] \in TxRecord
  BY <1>1, <1>3, <1>4 DEF TxRecord, place
<1>6. tx' \in [Txs -> TxRecord]
  BY <1>1, <1>3, <1>5
<1>7. Course(tx[p])'
  BY <1>2, <1>5 DEF Course, place
<1>8. UNCHANGED vars
  BY DEF LockActor
<1>9. Holds(tx[p])'
  <2>1. ItemHolds(tx[p])'
    BY <1>1, <1>2, <1>5, <1>8 DEF place, vars, Holds, ItemHolds, PastItem, Items, Idle
  <2>2. ConvHolds(tx[p])'
    BY <1>1, <1>2, <1>5, <1>8 DEF place, vars, Holds, ConvHolds, PastConv
  <2>3. ActorHolds(tx[p])'
    BY <1>1, <1>2, <1>3, <1>5, <1>8 DEF place, role, vars, ActorHolds, PastActor, ActorMay
  <2>4. TargetHolds(tx[p])' /\ CountHolds(tx[p])'
    BY <1>1, <1>2, <1>5, <1>8
       DEF place, vars, Holds, TargetHolds, CountHolds, PastTarget, PastCount, ByActor
  <2> QED BY <2>1, <2>2, <2>3, <2>4 DEF Holds
<1>10. Rows(tx[p])' = Rows(tx[p]) \cup {Wanted(p)}
  BY <1>1, <1>2, <1>5
     DEF place, Rows, Wanted, At, ItemRow, ConvRow, ActorRow, PastItem, PastConv, PastActor, PastTarget
<1> QED BY <1>6, <1>7, <1>9, <1>10 DEF Moved

\* The row of the user whom the request is about is locked.
LEMMA LockTargetMoves ==
  ASSUME IInv, NEW p \in Txs, LockTarget(p)
  PROVE  Moved(p) /\ Rows(tx[p])' = Rows(tx[p]) \cup {Wanted(p)}
<1> DEFINE t == tx[p]
           role == participants[t.c][t.op.target]
<1>1. TypeOK /\ tx \in [Txs -> TxRecord] /\ t \in TxRecord /\ t.at = "target"
  BY DEF IInv, TxTypeOK, TxRecord, LockTarget, At
<1>2. t # Idle /\ t.op \in Ops /\ t.op.kind \in {"role", "transfer", "remove"} /\ Holds(t)
  BY <1>1 DEF IInv, Course, Idle
<1>3. /\ role # NotMember
      /\ t.op.kind = "role" => role # "owner"
      /\ t.op.kind = "remove" => Manageable(t.role, role)
      /\ tx' = [tx EXCEPT ![p] = [t EXCEPT !.targetRole = role, !.at = "commit"]]
  BY <1>1 DEF LockTarget, Kind
<1>4. role \in Roles \cup {NotMember}
  BY <1>1, <1>2, OpFields DEF Holds, ConvHolds, PastConv, TypeOK, TableOf
<1> HIDE DEF role
<1>5. /\ tx'[p].at = "commit" /\ tx'[p].op = t.op /\ tx'[p].c = t.c
      /\ tx'[p].item = t.item /\ tx'[p].conv = t.conv
      /\ tx'[p].role = t.role /\ tx'[p].targetRole = role
      /\ tx'[p] \in TxRecord
  BY <1>1, <1>3, <1>4 DEF TxRecord
<1>6. tx' \in [Txs -> TxRecord]
  BY <1>1, <1>3, <1>5
<1>7. Course(tx[p])'
  BY <1>2, <1>5 DEF Course
<1>8. UNCHANGED vars
  BY DEF LockTarget
<1>9. Holds(tx[p])'
  <2>1. ItemHolds(tx[p])' /\ ConvHolds(tx[p])'
    BY <1>1, <1>2, <1>5, <1>8
       DEF vars, Holds, ItemHolds, ConvHolds, PastItem, PastConv, Items, Idle
  <2>2. ActorHolds(tx[p])'
    BY <1>1, <1>2, <1>5, <1>8 DEF vars, Holds, ActorHolds, PastActor, ActorMay, ByActor
  <2>3. TargetHolds(tx[p])' /\ CountHolds(tx[p])'
    BY <1>1, <1>2, <1>3, <1>5, <1>8 DEF role, vars, TargetHolds, CountHolds, PastTarget, PastCount
  <2> QED BY <2>1, <2>2, <2>3 DEF Holds
<1>10. Rows(tx[p])' = Rows(tx[p]) \cup {Wanted(p)}
  BY <1>1, <1>2, <1>5
     DEF Rows, Wanted, At, ItemRow, ConvRow, ActorRow, TargetRow,
         PastItem, PastConv, PastActor, PastTarget, ByActor
<1> QED BY <1>6, <1>7, <1>9, <1>10 DEF Moved

\* The plain reads of an application or an invitation lock nothing.
LEMMA CountMoves ==
  ASSUME IInv, NEW p \in Txs, Count(p)
  PROVE  Moved(p) /\ Rows(tx[p])' = Rows(tx[p])
<1> DEFINE t == tx[p]
<1>1. TypeOK /\ tx \in [Txs -> TxRecord] /\ t \in TxRecord /\ t.at = "count"
  BY DEF IInv, TxTypeOK, TxRecord, Count, At
<1>2. t # Idle /\ t.op \in Ops /\ t.op.kind \in {"apply", "invite"} /\ Holds(t)
  BY <1>1 DEF IInv, Course, Idle
<1>3. /\ ~IsMember(t.c, t.op.target)
      /\ t.op.kind = "apply" => ~PendingRequest(t.c, t.op.target)
      /\ t.op.kind = "invite" => ~PendingInvitation(t.c, t.op.target)
      /\ tx' = [tx EXCEPT ![p] = [t EXCEPT !.at = "commit"]]
  BY <1>1 DEF Count
<1>5. /\ tx'[p].at = "commit" /\ tx'[p].op = t.op /\ tx'[p].c = t.c
      /\ tx'[p].item = t.item /\ tx'[p].conv = t.conv
      /\ tx'[p].role = t.role /\ tx'[p].targetRole = t.targetRole
      /\ tx'[p] \in TxRecord
  BY <1>1, <1>3 DEF TxRecord
<1>6. tx' \in [Txs -> TxRecord]
  BY <1>1, <1>3, <1>5
<1>7. Course(tx[p])'
  BY <1>2, <1>5 DEF Course
<1>8. UNCHANGED vars
  BY DEF Count
<1>9. Holds(tx[p])'
  <2>1. ItemHolds(tx[p])' /\ ConvHolds(tx[p])'
    BY <1>1, <1>2, <1>5, <1>8
       DEF vars, Holds, ItemHolds, ConvHolds, PastItem, PastConv, Items, Idle
  <2>2. ActorHolds(tx[p])' /\ TargetHolds(tx[p])'
    BY <1>1, <1>2, <1>5, <1>8
       DEF vars, Holds, ActorHolds, TargetHolds, PastActor, PastTarget, ActorMay, ByActor
  <2>3. CountHolds(tx[p])'
    BY <1>3, <1>5, <1>8 DEF vars, CountHolds, IsMember, PendingRequest, PendingInvitation
  <2> QED BY <2>1, <2>2, <2>3 DEF Holds
<1>10. Rows(tx[p])' = Rows(tx[p])
  BY <1>1, <1>2, <1>5
     DEF Rows, ItemRow, ConvRow, ActorRow, TargetRow,
         PastItem, PastConv, PastActor, PastTarget, ByActor
<1> QED BY <1>6, <1>7, <1>9, <1>10 DEF Moved

\* The end of a transaction, of either kind.
LEMMA EndMoves ==
  ASSUME IInv, NEW p \in Txs, End(p)
  PROVE  Moved(p) /\ Rows(tx[p])' = {}
<1>1. tx'[p] = Idle /\ Idle \in TxRecord /\ tx' \in [Txs -> TxRecord]
  BY DEF End, IInv, TxTypeOK, TxRecord, Idle, NotMember
<1>2. Course(tx[p])' /\ Holds(tx[p])'
  BY <1>1 DEF Idle, Course, Holds, ItemHolds, ConvHolds, ActorHolds, TargetHolds, CountHolds,
              PastItem, PastConv, PastActor, PastTarget, PastCount
<1>3. Rows(tx[p])' = {}
  BY <1>1 DEF Idle, Rows, PastItem, PastConv, PastActor, PastTarget
<1> QED BY <1>1, <1>2, <1>3 DEF Moved

-----------------------------------------------------------------------------
\* The bound holds of the transactions that have committed.
LEMMA BudgetBounds ==
  /\ Budget => done \in 0 .. MaxOps
  /\ Budget' => done' \in 0 .. MaxOps
<1>1. IsFiniteSet(Running) /\ IsFiniteSet(Running')
  BY FS_Subset, GroupTxAssumption DEF Running
<1>2. Cardinality(Running) \in Nat /\ Cardinality(Running') \in Nat
  BY <1>1, FS_CardinalityType
<1>3. Budget => done \in 0 .. MaxOps
  BY <1>2, GroupTxAssumption DEF Budget
<1>4. Budget' => done' \in 0 .. MaxOps
  BY <1>2, GroupTxAssumption DEF Budget
<1> QED BY <1>3, <1>4

\* A transaction counts from its beginning, and a commit moves the count.
LEMMA BudgetStep ==
  ASSUME IInv, NEW p \in Txs, Step(p)
  PROVE  Budget'
<1>1. /\ IsFiniteSet(Running) /\ Cardinality(Running) \in Nat /\ done \in Nat
      /\ done + Cardinality(Running) <= MaxOps /\ MaxOps \in Nat
      /\ tx \in [Txs -> TxRecord]
  BY FS_Subset, FS_CardinalityType, GroupTxAssumption DEF Running, IInv, Budget, TxTypeOK, TxRecord
<1>2. \A q \in Txs \ {p} : Active(q)' = Active(q)
  BY <1>1, OthersStay DEF Active, At
<1>3. ASSUME NEW op \in Ops, Begin(p, op) PROVE Budget'
  <2>1. Running' \subseteq Running \cup {p}
    BY <1>2 DEF Running
  <2>2. IsFiniteSet(Running \cup {p}) /\ Cardinality(Running \cup {p}) <= Cardinality(Running) + 1
    <3>1. /\ IsFiniteSet(Running \cup {p})
          /\ Cardinality(Running \cup {p}) =
               IF p \in Running THEN Cardinality(Running) ELSE Cardinality(Running) + 1
      BY <1>1, FS_AddElement, Zenon
    <3> QED BY <1>1, <3>1
  <2>3. Cardinality(Running') <= Cardinality(Running) + 1 /\ Cardinality(Running') \in Nat
    BY <1>1, <2>1, <2>2, FS_Subset, FS_CardinalityType
  <2>4. done' = done /\ done + Cardinality(Running) < MaxOps
    BY <1>3 DEF Begin, Running
  <2> QED BY <1>1, <2>3, <2>4 DEF Budget
<1>4. CASE LockItem(p) \/ LockConversation(p) \/ LockActor(p) \/ LockTarget(p) \/ Count(p)
  <2>1. Active(p) /\ done' = done
    BY <1>4 DEF LockItem, LockConversation, LockActor, LockTarget, Count, Active, At
  <2>2. Running' \subseteq Running
    BY <1>2, <2>1 DEF Running
  <2>3. Cardinality(Running') <= Cardinality(Running) /\ Cardinality(Running') \in Nat
    BY <1>1, <2>2, FS_Subset, FS_CardinalityType
  <2> QED BY <1>1, <2>1, <2>3 DEF Budget
<1>5. CASE Active(p) /\ End(p) /\ done' \in {done, done + 1}
  <2>1. Running' = Running \ {p} /\ p \in Running
    BY <1>1, <1>2, <1>5 DEF End, Running, Active, At, Idle
  <2> QED BY <1>1, <1>5, <2>1, FS_RemoveElement DEF Budget
<1>6. (Commit(p) \/ CommitMessages(p) \/ Rollback(p))
        => Active(p) /\ End(p) /\ done' \in {done, done + 1}
  BY DEF Commit, CommitMessages, Rollback, Active, At
<1> QED BY <1>3, <1>4, <1>5, <1>6 DEF Step

\* A transaction that moves on without touching a table, and has afterwards the
\* rows it had and one that nobody else has, or none, keeps the invariant.
LEMMA MovesOn ==
  ASSUME IInv, NEW p \in Txs, Step(p), Moved(p), UNCHANGED vars,
         held' = [held EXCEPT ![p] = Rows(tx[p])'],
         \A q \in Txs \ {p} : Rows(tx[p])' \cap held[q] = {},
         Budget'
  PROVE  IInv'
<1>1. tx \in [Txs -> TxRecord] /\ TypeOK
  BY DEF IInv, TxTypeOK, TxRecord
<1>2. \A q \in Txs \ {p} : tx'[q] = tx[q]
  BY <1>1, OthersStay
<1>3. \A q \in Txs \ {p} : Rows(tx[q])' = Rows(tx[q])
  BY <1>2 DEF Rows, PastItem, PastConv, PastActor, PastTarget, ItemRow, ConvRow, ActorRow, TargetRow
<1>4. Locked'
  BY <1>3 DEF IInv, Locked
<1>5. ASSUME NEW q \in Txs \ {p} PROVE Course(tx[q])' /\ Holds(tx[q])'
  <2>1. Frame(Nobody, {})
    BY DEF Frame, vars, PendingRequest, PendingInvitation
  <2>2. PastConv(tx[q]) => tx[q].c # Nobody
    BY <1>1, GroupTxAssumption DEF IInv, Holds, ConvHolds, TypeOK, TableOf
  <2> QED BY <1>1, <1>2, <2>1, <2>2, Stable DEF IInv, Course
<1>6. TypeOK' /\ done' \in 0 .. MaxOps
  BY <1>1, BudgetBounds DEF vars, TypeOK, TableOf
<1>7. TxTypeOK'
  BY <1>1, <1>4, <1>6 DEF Moved, TxTypeOK, TxRecord, Locked
<1> QED BY <1>4, <1>5, <1>7 DEF IInv, Moved

\* The same for a lock that is granted.
LEMMA LockMovesOn ==
  ASSUME IInv, NEW p \in Txs, Step(p), Moved(p), UNCHANGED vars, Lock(p), Budget',
         Rows(tx[p])' = Rows(tx[p]) \cup {Wanted(p)}
  PROVE  IInv'
<1>1. held' = [held EXCEPT ![p] = Rows(tx[p])']
  BY DEF IInv, Locked, Lock
<1>2. \A q \in Txs \ {p} : Rows(tx[p])' \cap held[q] = {}
  BY DEF IInv, Locked, Lock, WaitsFor
<1> QED BY <1>1, <1>2, MovesOn

\* Every step of one transaction keeps the invariant, and is a step of Groups
\* or leaves its tables alone.
LEMMA TxStep ==
  ASSUME IInv, NEW p \in Txs, Step(p)
  PROVE  IInv' /\ [Next]_vars
<1>0. Budget'
  BY BudgetStep
<1>1. ASSUME NEW op \in Ops, Begin(p, op) PROVE IInv' /\ UNCHANGED vars
  <2>1. held' = [held EXCEPT ![p] = Rows(tx[p])'] /\ UNCHANGED vars
    BY <1>1, BeginMoves DEF IInv, Locked, Begin
  <2> QED BY <1>0, <1>1, <2>1, BeginMoves, MovesOn
<1>2. CASE LockItem(p)
  BY <1>0, <1>2, LockItemMoves, LockMovesOn DEF LockItem
<1>3. CASE LockConversation(p)
  BY <1>0, <1>3, LockConversationMoves, LockMovesOn DEF LockConversation
<1>4. CASE LockActor(p)
  BY <1>0, <1>4, LockActorMoves, LockMovesOn DEF LockActor
<1>5. CASE LockTarget(p)
  BY <1>0, <1>5, LockTargetMoves, LockMovesOn DEF LockTarget
<1>6. CASE Count(p)
  <2>1. held' = [held EXCEPT ![p] = Rows(tx[p])'] /\ UNCHANGED vars
    BY <1>6, CountMoves DEF IInv, Locked, Count
  <2>2. \A q \in Txs \ {p} : Rows(tx[p])' \cap held[q] = {}
    BY <1>6, CountMoves DEF IInv, Locked
  <2> QED BY <1>0, <1>6, <2>1, <2>2, CountMoves, MovesOn
<1>7. CASE Commit(p)
  <2> DEFINE t == tx[p]
  <2>1. TypeOK /\ tx \in [Txs -> TxRecord] /\ Course(t) /\ Holds(t) /\ End(p)
    BY <1>7 DEF IInv, TxTypeOK, TxRecord, Commit
  <2>2. Next /\ TypeOK'
    BY <1>7, <2>1, CommitIsStep, TypeStep
  <2>3. Frame(t.c, Rows(t)) /\ PastConv(t)
    BY <1>7, <2>1, CommitFrame
  <2>4. Moved(p) /\ Rows(tx[p])' = {}
    BY <2>1, EndMoves
  <2>5. \A q \in Txs \ {p} : tx'[q] = tx[q]
    BY <2>1, OthersStay
  <2>6. Locked'
    <3>1. \A q \in Txs \ {p} : Rows(tx[q])' = Rows(tx[q])
      BY <2>5 DEF Rows, PastItem, PastConv, PastActor, PastTarget, ItemRow, ConvRow, ActorRow, TargetRow
    <3> QED BY <2>1, <2>4, <3>1 DEF IInv, Locked, End
  <2>7. ASSUME NEW q \in Txs \ {p} PROVE Course(tx[q])' /\ Holds(tx[q])'
    <3>1. Rows(tx[q]) \cap Rows(t) = {}
      BY DEF IInv, Locked
    <3>2. PastConv(tx[q]) => tx[q].c # t.c
      BY <2>3, <3>1 DEF Rows, ConvRow
    <3> QED BY <2>1, <2>3, <2>5, <3>1, <3>2, Stable DEF IInv, Course
  <2>8. TxTypeOK'
    BY <1>0, <2>2, <2>4, <2>6, BudgetBounds DEF Moved, TxTypeOK, TxRecord, Locked
  <2> QED BY <1>0, <2>2, <2>4, <2>6, <2>7, <2>8 DEF IInv, Moved
<1>8. CASE End(p) /\ UNCHANGED vars
  <2>1. held' = [held EXCEPT ![p] = Rows(tx[p])']
    BY <1>8, EndMoves DEF End
  <2> QED BY <1>0, <1>8, <2>1, EndMoves, MovesOn
<1> QED BY <1>1, <1>2, <1>3, <1>4, <1>5, <1>6, <1>7, <1>8
        DEF Step, CommitMessages, Rollback, LockItem, LockConversation, LockActor, LockTarget, Count

\* A new conversation is outside what anybody has read or locked.
LEMMA CreateStep ==
  ASSUME IInv, Create
  PROVE  IInv' /\ Next
<1>1. TypeOK /\ UNCHANGED <<tx, held, done>>
  BY DEF IInv, TxTypeOK, Create, txVars
<1>2. Next /\ TypeOK'
  BY <1>1, TypeStep DEF Create, Next, ConversationStep
<1>3. PICK c \in Convs \ DOMAIN conversations : Frame(c, {})
  BY <1>1, CreateFrame
<1>4. ASSUME NEW q \in Txs PROVE Course(tx[q])' /\ Holds(tx[q])'
  <2>1. PastConv(tx[q]) => tx[q].c # c
    BY DEF IInv, Holds, ConvHolds
  <2> QED BY <1>1, <1>3, <2>1, Stable DEF IInv, Course
<1>5. Locked' /\ Budget'
  BY <1>1 DEF IInv, Locked, Budget, Running, Active, At, Rows, PastItem, PastConv, PastActor, PastTarget,
              ItemRow, ConvRow, ActorRow, TargetRow
<1> QED BY <1>1, <1>2, <1>4, <1>5 DEF IInv, TxTypeOK

\* The conjunction is inductive.
LEMMA Invariant == TxSpec => []IInv
<1>1. TxInit => IInv
  <2> SUFFICES ASSUME TxInit PROVE IInv
    OBVIOUS
  <2>1. TypeOK
    BY DEF TxInit, Init, TypeOK, TableOf, NotMember
  <2>2. \A p \in Txs : tx[p] = Idle
    BY DEF TxInit
  <2>3. Locked
    BY <2>2 DEF TxInit, Locked, Rows, PastItem, PastConv, PastActor, PastTarget, Idle
  <2>4. \A p \in Txs : Course(tx[p]) /\ Holds(tx[p])
    BY <2>2 DEF Idle, Course, Holds, ItemHolds, ConvHolds, ActorHolds, TargetHolds, CountHolds,
                PastItem, PastConv, PastActor, PastTarget, PastCount
  <2>5. Budget
    <3>1. Running = {}
      BY <2>2 DEF Running, Active, At, Idle
    <3> QED BY <3>1, FS_EmptySet, GroupTxAssumption DEF TxInit, Budget
  <2>6. Idle \in TxRecord
    BY DEF TxRecord, Idle, NotMember
  <2>7. TxTypeOK
    BY <2>1, <2>5, <2>6, BudgetBounds DEF TxInit, TxTypeOK, TxRecord
  <2> QED BY <2>3, <2>4, <2>5, <2>7 DEF IInv
<1>2. IInv /\ [TxNext]_allVars => IInv'
  <2>1. ASSUME IInv, UNCHANGED allVars PROVE IInv'
    BY <2>1 DEF allVars, vars, txVars, IInv, TxTypeOK, TypeOK, TableOf, Locked, Budget, Running, Active,
                At, Rows, PastItem, PastConv, PastActor, PastTarget, PastCount, ItemRow, ConvRow,
                ActorRow, TargetRow, Course, Holds, ItemHolds, ConvHolds, ActorHolds, TargetHolds,
                CountHolds, Items, ActorMay, IsMember, PendingRequest, PendingInvitation
  <2> QED BY <2>1, TxStep, CreateStep DEF TxNext
<1> QED BY <1>1, <1>2, PTL DEF TxSpec

-----------------------------------------------------------------------------
\* Every reachable state of the transactions is well-typed.
THEOREM TxTypeCorrect == TxSpec => []TxTypeOK
<1>1. IInv => TxTypeOK
  BY DEF IInv
<1> QED BY <1>1, Invariant, PTL

\* What a transaction has read under its locks, and what it has counted without
\* one, is still so when it commits.
THEOREM ReadsHold == TxSpec => []ReadsStillHold
<1>1. IInv => ReadsStillHold
  <2> SUFFICES ASSUME IInv, NEW p \in Txs
               PROVE  LET t == tx[p]
    IN  /\ t.conv # Nobody => t.c \in DOMAIN conversations /\ conversations[t.c] = t.conv
        /\ t.role # NotMember => participants[t.c][t.op.u] = t.role
        /\ t.targetRole # NotMember => participants[t.c][t.op.target] = t.targetRole
        /\ t.item # Nobody =>
             t.item = IF Kind(p) = "review" THEN joinRequests[t.op.id] ELSE invitations[t.op.id]
        /\ At(p, "commit") /\ Kind(p) \in {"apply", "invite"} =>
             /\ ~IsMember(t.c, t.op.target)
             /\ IF Kind(p) = "apply" THEN ~PendingRequest(t.c, t.op.target)
                                     ELSE ~PendingInvitation(t.c, t.op.target)
    BY DEF ReadsStillHold
  <2>1. Holds(tx[p])
    BY DEF IInv
  <2> QED BY <2>1 DEF Holds, ItemHolds, ConvHolds, ActorHolds, TargetHolds, CountHolds, PastCount,
                      Items, Kind, At
<1> QED BY <1>1, Invariant, PTL

\* The transactions of ChatService, interleaved statement by statement, are an
\* implementation of the atomic operations of Groups: all that is proved of
\* Groups is true of them.
THEOREM Implements == TxSpec => ImplementsGroups
<1>1. TxInit => Init
  BY DEF TxInit
<1>2. IInv /\ [TxNext]_allVars => [Next]_vars
  BY TxStep, CreateStep DEF TxNext, allVars
<1> QED BY <1>1, <1>2, Invariant, PTL DEF TxSpec, ImplementsGroups, Spec

\* Requests and invitations are locked before conversations, conversations
\* before participants, and MarkAsRead, which locks a participant alone, waits
\* for nothing once it has it: so no transactions wait in a circle.
THEOREM DeadlockFree == TxSpec => []NoDeadlock
<1>1. IInv => NoDeadlock
  <2> SUFFICES ASSUME IInv, NEW S \in SUBSET Txs, S # {},
                      \A p \in S : \E q \in S : WaitsFor(p, q)
               PROVE  FALSE
    BY DEF NoDeadlock
  <2>1. ASSUME NEW p \in Txs, NEW q \in Txs, WaitsFor(p, q)
        PROVE  /\ p # q /\ Wanted(p) \in Rows(tx[q]) /\ tx[q] # Idle
               /\ tx[p].at \in {"item", "conv", "actor", "target"}
    <3>1. p # q /\ Wanted(p) \in Rows(tx[q])
      BY <2>1 DEF WaitsFor, IInv, Locked
    <3>2. <<"none">> \notin Rows(tx[q])
      BY DEF Rows, ItemRow, ConvRow, ActorRow, TargetRow, PastItem
    <3> QED BY <3>1, <3>2 DEF Wanted, At, Rows, Idle, PastItem, PastConv, PastActor, PastTarget
  <2>2. \A q \in S : tx[q].at \in {"item", "conv", "actor", "target"}
    BY <2>1
  \* Who is waited for with a participant's row is about to lock a second one.
  <2>3. ASSUME NEW p \in S, NEW q \in S, WaitsFor(p, q), tx[p].at \in {"actor", "target"}
        PROVE  tx[q].at = "target" /\ PastConv(tx[q]) /\ tx[q].c = tx[p].c
    <3>1. Wanted(p) = <<"participant", tx[p].c, tx[p].op.u>>
            \/ Wanted(p) = <<"participant", tx[p].c, tx[p].op.target>>
      BY <2>3 DEF Wanted, At
    <3>2. Wanted(p) \in Rows(tx[q]) /\ tx[q].at \in {"item", "conv", "actor", "target"}
      BY <2>1, <2>2, <2>3
    <3>3. PastActor(tx[q]) /\ tx[q].c = tx[p].c
      BY <3>1, <3>2 DEF Rows, ItemRow, ConvRow, ActorRow, TargetRow, PastItem, PastActor, PastTarget
    <3>4. tx[q].at = "target" /\ tx[q].op.kind # "mark"
      BY <3>2, <3>3 DEF PastActor, IInv, Course, Idle
    <3> QED BY <3>3, <3>4 DEF PastConv
  <2>4. ASSUME NEW p \in S, tx[p].at = "target" PROVE FALSE
    <3>1. PICK q \in S : WaitsFor(p, q)
      OBVIOUS
    <3>2. PastConv(tx[q]) /\ tx[q].c = tx[p].c /\ p # q
      BY <2>1, <2>3, <2>4, <3>1
    <3>3. PastConv(tx[p])
      BY <2>4 DEF PastConv, IInv, Course, Idle
    <3>4. ConvRow(tx[p]) \in Rows(tx[p]) \cap Rows(tx[q])
      BY <3>2, <3>3 DEF Rows, ConvRow
    <3> QED BY <3>2, <3>4 DEF IInv, Locked
  <2>5. ASSUME NEW p \in S, tx[p].at = "actor" PROVE FALSE
    BY <2>3, <2>4, <2>5
  <2>6. ASSUME NEW p \in S, tx[p].at = "conv" PROVE FALSE
    <3>1. PICK q \in S : WaitsFor(p, q)
      OBVIOUS
    <3>2. <<"conversation", tx[p].c>> \in Rows(tx[q])
      BY <2>1, <2>6, <3>1 DEF Wanted, At
    <3>3. PastConv(tx[q])
      BY <3>2 DEF Rows, ItemRow, ActorRow, TargetRow, PastItem
    <3> QED BY <2>2, <2>4, <2>5, <3>3 DEF PastConv
  <2>7. ASSUME NEW p \in S, tx[p].at = "item" PROVE FALSE
    <3>1. PICK q \in S : WaitsFor(p, q)
      OBVIOUS
    <3>2. tx[p].op.kind \in {"review", "respond"}
      BY <2>7 DEF IInv, Course, Idle
    <3>3. <<tx[p].op.kind, tx[p].op.id>> \in Rows(tx[q])
      BY <2>1, <2>7, <3>1 DEF Wanted, At
    <3>4. PastItem(tx[q])
      BY <3>2, <3>3 DEF Rows, ConvRow, ActorRow, TargetRow
    <3> QED BY <2>2, <2>4, <2>5, <2>6, <3>4 DEF PastItem
  <2> QED BY <2>2, <2>4, <2>5, <2>6, <2>7
<1> QED BY <1>1, Invariant, PTL
=============================================================================
