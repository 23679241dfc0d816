# Verification of the chat application

TLA+ models of the Go server in `src/backend` (a chat application with a React
client in `src/frontend`), the TLC runs that check them, and TLAPS proofs of
every safety property that these runs check, for every value of the constants.
Every definition is translated from the source; `PROJECT.json` maps each to the
lines it stands for.

    tlc -config MCGroups.cfg MCGroups.tla     # one run
    tlapm GroupsProofs.tla                    # the proofs of one module

## 1. The system

One server process; clients speak protobuf over a WebSocket, one request and
one response with the same request id, plus pushes from the server. PostgreSQL
(through gorm, at READ COMMITTED) keeps everything that lasts; Redis keeps one
set, `online:users`; the process itself keeps the connections and the topic
rooms in memory.

| Component | Source (`src/backend/internal` unless said) | State | Operations |
|---|---|---|---|
| Group membership store | `service/chat_service.go`, `models/chat.go` | tables conversations, participants, group_join_requests, group_invitations | create, profile, announcement, role, transfer, remove, leave, dissolve, apply, review, invite, respond |
| Messages of a conversation | `service/chat_service.go`, `websocket/handler.go` | table messages, `last_local_id`, `last_read_local_id` | send and push, mark as read, message list, conversation list |
| Relations and private chats | `service/relation_service.go`, `service/chat_service.go` | tables relations, block_relations, private conversations | follow, unfollow, block, unblock, create private, send private |
| WebSocket hub | `websocket/manager.go`, `websocket/handler.go`, `redis/redis.go` | `Server.Clients`, sockets, the channels Register, Unregister, `Client.Send`, the Redis set | connect, register, replace, unregister, SendToUser, ReadPump, WritePump |
| Topic rooms | `websocket/topic_room.go` | `topicRooms[..].members`, `topicUserRoom`, history of 120 messages | join, switch, leave, send, members push, cleanup |
| Protocol dispatch | `websocket/handler.go` | none | decode, call a service, push to some users, reply |
| Accounts, UIDs, tokens | `auth/`, `middleware/auth.go`, `db/database.go`, `cmd/seed_social_data` | table users, the UID sequence, the snowflake generator and its mutex | register, two logins, first use of a whitelist UID, profile update, restart, seeding |
| User search, upload, config, quality scripts | `service/user_service.go`, `handler/`, `config/`, `src/scripts` | none of interest | |
| Browser client | `src/frontend/src/pages/Chat.jsx`, `lib/` | pending requests, lists shown | request tracker, responses, pushes, reconnect |

How they interact. A reader goroutine (ReadPump) takes a frame, calls the
service on its own goroutine, then pushes to other users by SendToUser and
replies into its own channel. SendToUser looks the recipient up under the read
lock and, if the recipient's channel is full, sends the recipient on the
unbuffered channel Unregister, from which only the hub goroutine receives. The
hub, when it disconnects a client, leaves that client's topic room, and this
pushes to everybody - through SendToUser, on the hub's own goroutine.
SendMessage asks the relation service about blocks and follows on a connection
of its own, outside its transaction. All group operations, and SendMessage,
take the conversation's row FOR UPDATE; MarkAsRead does not. The push that
tells a user of a follow runs in a goroutine of its own, and the page answers
every such push, and every answer to a request of its own, by asking for its
lists again. Every start of a process, the server's or the seeding tool's next
to a running server, sets the UID sequence that all registrations draw from.

What is hard, and what makes each component correct:

- *Membership store*: two tables describe one ownership; admissions outlive
  their cause; no unique index protects pending admissions; locks are taken in
  two orders. Correct: one owner, consent, frozen when dissolved, transactions
  equal to atomic operations, no deadlock.
- *Messages*: numbering under concurrent sends; recipients read after commit, by
  a query whose error is dropped; unread counts from two statements; a list whose
  pages are found by one statement and loaded by another. Correct: dense local
  ids, members get what is theirs unless the recipients could not be read,
  positions never go back, a history walk misses nothing, and what a walk of the
  conversation list misses or repeats is known.
- *Relations*: checks and writes are separate statements. Correct: a standing
  block stops, the message limit holds, one private conversation per pair.
- *Topic room messages*: a response that replaces the list races pushes; joins,
  leaves and messages are sent before earlier ones are answered. Correct: page
  and server agree once all is settled, and what a page can miss is known.
- *Pages of follows and blocks*: three lists read by three requests, pushes that
  overtake answers, queries that fail. Correct: once nothing is under way, a page
  shows the tables, but for a list that could not be read and users nobody told.
- *Accounts*: look-ups and inserts are separate statements, IDs come from a
  clock, UIDs from a sequence that every start moves; whitelist UIDs need no
  token. Correct: what the server made itself never makes an insert clash, a
  token keeps naming its user, every request ends.
- *Hub and rooms*: replacement races late unregistration; bounded channels;
  one goroutine serves all rendezvous and also pushes; a Redis command may fail
  and the process may end at any point. Correct: the replacement survives, the
  online set follows the registry but for what Redis missed, the room maps
  agree, everyone who waits is served.

The full list of hazards, each with its line and the properties that watch it,
is `hazards` in `PROJECT.json`. Two that are real are not in it, because nothing
promises otherwise: the pushes of two senders may come in another order than
their commits (handler.go:432), and the pushes of one room's members in another
order than they were taken (topic_room.go:290).

## 2. The modules

**Groups** (`MCGroups`). The four tables as functions from keys to rows. One
action per operation of `ChatService`, with the code's guards in the code's
order; a transaction that fails leaves no trace and is no step. `participants[c][u]`
is the role of the row, or `NotMember` for no row. Kept of each row: what a
guard or a property reads. The names of the operators are the names of the Go
functions (`ActorContext` is `getGroupActorContext`, `ActiveGroup` is
`requireActiveGroup`, `WithParticipant` is `addParticipantTx`).

**GroupTx** (`MCGroupTx`) extends Groups with the transactions themselves: a
goroutine locks the request or invitation, the conversation, the actor's
participant row, the target's (`LockItem`, `LockConversation`, `LockActor`,
`LockTarget`), counts by plain reads (`Count`), and commits writes computed
from its local copies (`Commit`). `held` is PostgreSQL's lock table. Any
transaction may roll back at any time: a failed check, a failed statement.
SendMessage and MarkAsRead are there for the locks they take. `ImplementsGroups`
is `Spec` of Groups: the refinement mapping is the identity on the tables, and
each commit has to be a step of Groups whose guard, evaluated at the commit,
holds. It justifies the atomic actions of Groups.

**PrivateChat** (`MCPrivateChat`). Follows, blocks and private conversations,
one step per statement, two goroutines serving requests. `everFollowed`,
`blocked` and `stranger` are history variables: they remember what stood during
the whole of a request, which is what the checks of the code can promise.

**Messages** (`MCMessages`). One group conversation: SendMessage step by step
(lock, check, commit, read the recipients, push), MarkAsRead's four statements,
GetMessageList with a client that follows the page token, next to joins, leaves
and the dissolution, which appear as their commits under the same row lock. A
message is its local id and its sender. `SendRecipients` may fail: the handler
drops the error (handler.go:391) and pushes to nobody. `pushed`, `joinedAt` and
`unpushed` (the messages whose recipients were not read) are history variables. A page is the rows below the cursor in descending order of
local id (`ORDER BY local_id DESC LIMIT`), each placed by how many rows are not
before it. SendToUser is handing over; what the hub then does with the frame is
Hub's business.

**ConversationLog** is what Messages implements: a log that grows at its end by
one message of a member, and positions in it that only advance. Its five actions
are atomic, and nothing in it knows of rows, locks or requests. The refinement
mapping of `ImplementsConversationLog` reads the log off the table by local id,
which is a function only if no local id repeats, and equals `log` only if none
is missing. Dense numbering, positions that never go back, and no message of a
non-member or after the dissolution are therefore one property.

**ConversationList** (`MCLists`). The two lists that page by a time,
GetConversationList and GetFriends: rows in microseconds, tokens in
milliseconds, a strict comparison, and a LIMIT that picks any of the rows of one
time. The conversations of a page are found by one statement (`Query`) and
loaded, with the time that becomes the token, by Preload, a later one (`Answer`;
no transaction holds the two together); the token of friends is of the row as it
was found. A client follows the tokens to the end, while rows move to the head
of the list at any moment. `slipped` is a history variable: the last row of a
page was loaded with a later millisecond than it was found with.

**RelationPages** (`MCPages`). The relation handlers of the server and the page
at the other end of each connection. A page sends requests and handles frames in
order, its reader serves one at a time, and the goroutine of a push may deliver
at any moment. A click, an answer, a push, the three lists that each of them
makes the page ask for again, and closing and opening the page are actions; a
request whose connection was replaced while its handler ran (`orphans`) still
changes the tables and answers nobody. The services are one step here; their
statements are in PrivateChat. Any of them may fail: a change is refused, or
committed and taken to have failed (`FailChange`), a list is answered with an
error and stays as it was on the page (`ServeGet`), a push whose sender cannot be
read is dropped (`SendRelationPush`). `unaware` and `failed` are history
variables: whom nobody has told of a change, and which lists of a page could not
be read when they last were asked for.

**Accounts** (`MCAccounts`). Rows of users: Register, login by e-mail (with the
legacy row that has no UID yet), login by a whitelist UID and GetCurrentUser
(both through EnsureWhitelistUser), UpdateProfile, statement by statement, since
no handler uses a transaction; a statement that fails (`Fail`); the snowflake
generator, whose mutex is held while a wrapped sequence waits for the next millisecond; the UID sequence;
restarts, a clock that steps back, and the seeding tool next to the server, which
rewrites the name and the profile of the rows it finds. `Authorized` is
AuthMiddleware: a request passes with the token of its UID, or, for a UID of the
whitelist, with none. `profile` is who last wrote a row's profile: the ID of a
token, or `Anyone` (a request without one, the seeding tool). A user's name
stands for its username and its e-mail. An ID is a pair of stamp and
sequence. `exposed`, `doubtful` and `raced` are history variables: each records
the one way in which the code can break the promise next to it.

**Hub** (`MCHub`, three configurations). Goroutines: the hub, one reader per
connection (first the HTTP handler, then ReadPump with the handlers it calls),
one writer per connection, and the goroutines that pushes of follow and
unfollow run in. `pc` says where each is; a step is one critical section of
`Server.Mutex`, one channel operation, or one call on a socket or on Redis. A
request is reduced to what the hub can notice: the set of users its handler
pushes to (any set), the topic room it changes, its reply. Reaching `register`,
`evict` or `exit` means blocking on an unbuffered channel; `HubReceiveRegister`
and `HubReceiveUnregister` are the rendezvous, after which both sides go on by
themselves: the hub to registerClient, the close of the replaced connection and
Redis, or through disconnectClient; the handler to starting the two pumps. A
reader may still get frames that were buffered when its connection was closed. Frames are counted, not named. Topic room
membership is here because the hub's cleanup and the push of the members are.
A Redis command may fail (the code logs it and goes on), and `Crash` ends the
process at any point and starts it again: what it kept in memory is gone and the
set in Redis is as it was; `MaxFaults` bounds both together. `drift` is a history variable:
the users of whom Redis may know what is not so.

**TopicRooms** (`MCTopicRooms`). What Hub does not name: the messages. From the
click on a page to the lists on the other pages: requests in a queue, a reader
that serves them one at a time (critical section of `topic_room.go`, pushes to
the recipients taken there, reply), frames in a queue, and the handlers of
`Chat.jsx` for the responses and pushes. Membership is one function,
`topicUserRoom`; that the code's second map agrees is `RoomsAgree` of Hub.
`JoinTopicRoom` includes the failure of the query that follows its critical
section. `posted`, `joining` and `astray` are history variables. Users stay
connected, and their channels never fill: both ends of that are Hub's. The page
is taken to have rendered before it handles the next frame or click, so that
the state and the `Ref` of `activeTopicRoomId` are one.

Nothing in the repository sends on the channel `Broadcast`, so that case of
`Run` is not modelled.

**GroupsProofs** (Groups and GroupTx), **MessagesProofs**,
**ConversationListProofs**, **PrivateChatProofs**, **RelationPagesProofs**,
**AccountsProofs**, **HubProofs**, **TopicRoomsProofs**: see section 5.

## 3. The runs

| Run | Configuration | Distinct states | What it shows |
|---|---|---|---|
| groups | MCGroups.cfg | 0.29 M | every property of Groups |
| group_tx | MCGroupTx.cfg | 0.68 M | transactions are atomic operations; reads stay true; no deadlock |
| private_chat | MCPrivateChat.cfg | 0.95 M | blocks stop, follows are needed, the limit holds |
| private_chat_twice | MCPrivateChatTwice.cfg | finding | two private conversations for one pair |
| messages | MCMessages.cfg | 2.8 M | the statements implement ConversationLog; pushes, history pages, unread counts |
| lists | MCLists.cfg | 0.85 M | what a client misses of a list that pages by time, and when it gets a row twice |
| hub_registry | MCHubRegistry.cfg | 2.0 M | a replacement is never lost, what is superseded is closed, the rooms' maps agree and hold only the connected (but for late joins), the online set is right but for what Redis missed |
| hub_live | MCHubLive.cfg | 51 k | liveness of the hub without topic rooms |
| hub_self_deadlock | MCHubSelfDeadlock.cfg | finding | the hub blocks on itself |
| topic_rooms | MCTopicRooms.cfg | 0.84 M | page and server end up in the same room; what a page may miss; each sender's order |
| accounts | MCAccounts.cfg | 0.41 M | only a taken name clashes with a new user; tokens keep naming their user; requests end |
| pages | MCPages.cfg | 2.4 M | a page that has settled shows the tables, but for what failed |

Bounds, and why they suffice for what is asked:

- *Three users* in the groups: the least a group has, and enough for an owner,
  an administrator and a member (or an outsider who comes back). One
  conversation: no operation reads another's rows; both types of conversation
  are explored, one per behaviour. Two requests and two invitations let the
  same user apply or be invited again, and two admissions of one user race.
- *Two transactions* in GroupTx: a violated read or a circle of waits between
  two shows with two; `MaxOps` = 4 committed transactions reach the deepest
  interesting race (leave, apply, and two reviews of one request). A circle of
  three would need three different rows waited for, while every kind that holds
  several rows of a conversation holds the conversation's.
- *Two requests at a time* in PrivateChat and Messages; two conversations in
  PrivateChat so that the duplicate and a limit counted per conversation can
  show; `FreeMessages` = 1 instead of 3 and `MaxSent` = 2 put the limit one
  message below the bound; `PageSize` = 1 with two messages makes a walk of
  full pages and the empty last one.
- *`SendCap` = 1* instead of 256: the channel is full after one frame, so
  eviction and blocked replies come early; the code never asks how full it is
  otherwise. *Two connections of one user* for replacement; *two users* for
  rooms. Every `Client` object connects once, as in the code.

- *Two users, two rooms, six requests* in TopicRooms, with a history of one
  message (`HistoryLimit` = 1 instead of 120), so that three messages cut it
  twice. Three users with six requests (5.1 M states), seven requests, and a
  history of two give the same results and take longer.

- *hub_registry* has one user with two connections, one goroutine that pushes,
  two rooms and one fault, a crash or a failed command: replacement, eviction and
  cleanup meet in all orders. Its action constraint `RoomsOrPushes` (MCHub) lets the
  pushing goroutine run only while nobody is in a room, which saves three million
  states; what a member of a room is pushed, and evicted by, is then the room's
  own frames. The theorems of HubProofs have no such bound. The violation that needs another user's full channel
  has two users, and only requests for topic rooms (`OnlyTopics` in MCHub
  restricts the steps and keeps all of the fairness, so that what it finds is a
  behaviour of the whole model).
- *Two requests, a sequence of two IDs per millisecond* in Accounts
  (`SequenceSize` = 2 instead of 4096), so that it wraps with the second ID;
  one fault per behaviour (a restart, a seeding, a step back of the clock or a
  failing statement); new requests arrive until the clock is past
  `MaxClock`, and those under way are finished. One of the names that people
  choose is the name EnsureWhitelistUser would give.
- *Two clicks, one reload and one failing statement*, any three of the four, in
  RelationPages (action constraint `ThreeEvents` in MCPages): two changes of one user or one of each
  cross with every push and every list, and any one statement fails. All four at
  once give the same result on 6.0 M states, for which the run has no time; a
  third click goes past ten million.
- *Four rows in six time units, two to a millisecond* in ConversationList, all
  page sizes: ties inside a page, at its edge, and across it.

Symmetry is used only for sets of model values that no configuration tells
apart, and in no run with a liveness property. Deadlock checking is off where
the system may rest: when the finite sets of keys, connections or messages are
used up.

Fairness (run hub_live and hub_self_deadlock). WF for the hub and
for each WritePump: goroutines are preemptive, a write has a deadline, and the
ticker always fires. SF for what a reader or a pusher owes: it may wait on a
channel, whose waiting senders are served first come first served, and
`select` picks at random among the ready cases. SF as well for ReadMessage to fail
on a closed connection: it has only so many frames buffered. Nothing is assumed
of the peers: no request and no closing is fair, and a new connection need not
come.
Accounts assumes WF of the clock and SF of each request's next step: a handler
that can go on does, and a waiting `sync.Mutex` turns to its starvation mode, in
which it is handed over in order. `RequestsEnd` excepts nothing: the process may
be restarted, and then its requests are over.

## 4. Findings

Two runs expect a violation; each contradicts a sentence of the repository.

1. *hub_self_deadlock.* `disconnectClient` (manager.go:145) calls
   `LeaveTopicRoom` on the hub's goroutine; its members push reaches a client
   whose channel is full; `SendToUser` (manager.go:165) sends on `Unregister`,
   which only the hub receives from. The hub stops for ever, before
   `SetUserOffline`. `docs/specs/websocket.md`: "Closing the current connection
   removes the UID from the Redis online set."
2. *private_chat_twice.* `CreateConversation` (chat_service.go:839) looks for an
   existing private conversation outside the creating transaction and no index
   forbids a second one. The comments there promise the check.

The other disagreements met while modelling are exceptions in the statements of
properties that hold, so that the runs show that they are the only ones:

- `ClosedIsUnregisteredOrStuck`: `HandleMessage` (handler.go:164) replies by a
  blocking send; if WritePump has ended and the channel is full, the reader
  never unregisters and its user stays online.
- `RoomsAgree`: `JoinTopicRoom` (topic_room.go:115) does not look at whether
  the connection that asked is still registered; after the cleanup of a removal
  the user becomes a member for whom no cleanup will come (`late`).
- `MissedOnlyWhileJoining`: a message posted while a join is answered is
  overwritten by the response.
- `TokenNamesItsUser`: two first logins of a row without UID both draw one, and
  the second overwrites the UID in the first one's token (auth/handler.go:261).
- `TokenNamesItsUser` excepts the profiles of whitelist users: AuthMiddleware lets
  any request for such a UID through without a token (middleware/auth.go:30), and
  the seeding tool rewrites the profile of a row that it finds
  (cmd/seed_social_data/main.go:100).
- `RefusedForTheName`: after a restart with a clock that stepped back the
  generator can repeat an ID, and a UID in flight while the seeding tool starts
  can be drawn twice; Register then answers "username or email already exists",
  as it does to any failure of its insert (auth/handler.go:115).
- `MembersGetTheirMessages`: when the recipients cannot be read the error is
  dropped (handler.go:391), the sender is told of success and nobody is pushed
  to (`unpushed`).
- `ListMissesOnlyTies`: rows of the millisecond of a page's last row are lost.
  And when a message goes to the last conversation of a page between the
  statement that found the page and the one that loaded it
  (chat_service.go:508), the token is of the message, and the next page repeats
  rows (`slipped`).
- `PagesSettle`: a user who has been blocked is not told, and goes on showing
  the follows that the block ended. Nor is one whose push was dropped because the
  sender could not be read (handler.go:1104), and a page whose list could not be
  read (handler.go:966, 988, 1082) keeps what it had and does not ask again.

## 5. The proofs

Every invariant and every action property that a run checks is a theorem, for
every value of the constants: any number of users, connections, conversations,
rooms, rows, requests and goroutines at a time, any capacity, limit and page
size, and any number of faults. The bounds on the runs (`MaxOps`, `MaxFaults`,
`MaxClock`, ...) are constants too, so that no theorem depends on their size.
The assumptions:

- Groups: `Nobody` is not a user. GroupTx: the goroutines are finitely many (so
  that what has been taken up can be counted), and `Nobody` is no key.
- Messages: the page size is positive; `Free`, `Nobody` and `NotMember` are none
  of the values they stand beside. ConversationList: a table is finite, and a
  millisecond is at least one unit of the database's time.
- PrivateChat: `Free` and `Nobody` likewise. RelationPages: the bounds are numbers.
- Accounts: the whitelist is within 1..`WhitelistMax`, a millisecond has at
  least one ID.
- Hub: every connection is of one user, a channel holds at least one frame, and
  the names of goroutines differ. TopicRooms: a history holds at least one
  message, and `NoRoom` is no room.

| Module | Theorem | Statement |
|---|---|---|
| GroupsProofs | TypeCorrect | `Spec => []TypeOK` |
| | OwnerUnique | `Spec => []OneOwner` |
| | AdmissionsForGroups | `Spec => []AdmissionsAreForGroups` |
| | PendingUnique | `Spec => []OnePending` |
| | PairFixed | `Spec => PrivatePairFixed` |
| | Frozen | `Spec => DissolvedFrozen` |
| | Consent | `Spec => JoinByConsent` |
| | HandedOver | `Spec => OwnershipHandedOver` |
| | DecidedOnce | `Spec => DecidedOnceByStaff` |
| | TxTypeCorrect | `TxSpec => []TxTypeOK` |
| | ReadsHold | `TxSpec => []ReadsStillHold` |
| | Implements | `TxSpec => ImplementsGroups` |
| | DeadlockFree | `TxSpec => []NoDeadlock` |
| MessagesProofs | TypeCorrect | `Spec => []TypeOK` |
| | Implements | `Spec => ImplementsConversationLog` |
| | EveryMember | `Spec => []MembersGetTheirMessages` |
| | UnreadSound | `Spec => UnreadNeverOverstated` |
| | WalkComplete | `Spec => []WalkIsComplete` |
| ConversationListProofs | MissesOnlyTies | `Spec => []ListMissesOnlyTies` |
| PrivateChatProofs | TypeCorrect | `Spec => []TypeOK` |
| | BlocksStop | `Spec => []BlockStops` |
| | FollowsNeeded | `Spec => []FollowNeeded` |
| | LimitHolds | `Spec => []LimitPerConversation` |
| RelationPagesProofs | PagesShowTheTables | `Spec => []PagesSettle` |
| AccountsProofs | TypeCorrect | `Spec => []TypeOK` |
| | TokensKeepTheirUser | `Spec => []TokenNamesItsUser` |
| | OnlyTheName | `Spec => []RefusedForTheName` |
| HubProofs | TypeCorrect | `Spec => []TypeOK` |
| | ReplacementStays | `Spec => StaleCannotRemoveReplacement` |
| | SupersededClosed | `Spec => []SupersededIsClosed` |
| | OnlineMirrors | `Spec => []OnlineMirrorsClients` |
| | RoomMapsAgree | `Spec => []RoomsAgree` |
| TopicRoomsProofs | TypeCorrect | `Spec => []TypeOK` |
| | PagesAgree | `Spec => []PageAgrees` |
| | MissedOnly | `Spec => []MissedOnlyWhileJoining` |
| | OrderOfSenders | `Spec => []SenderOrderKept` |

Each module states its inductive invariant, a conjunction of named parts, and
proves part by part and action by action that every step keeps it. Each argument
in short, and why its invariant is needed:

*Groups.* `TypeOK` is inductive. `OneOwner` is inductive with it, since it
names the owner: a role change keeps away from the owner's row, a transfer
moves the role and `owner_id` together, removal and leaving never touch an
owner, and `WithParticipant` only ever adds a plain member
(`RespondGroupInvitation` included). `AdmissionsAreForGroups` carries the
private conversations: `RespondGroupInvitation` never looks at the type of a
conversation, so that it cannot enter a private one follows only from the
invariant that every invitation is for a group, established by `InviteToGroup`
and `ApplyToJoinGroup` through the type check, and kept because no operation
changes a type or deletes a conversation. `OnePending` is kept because an
insert of a pending row has none before it, and a decided row never becomes
pending again. The action properties follow from these invariants, action by
action; `OwnershipHandedOver` needs `OneOwner` to know that the actor, whose role
is owner, is the one whom `owner_id` names.

*GroupTx* is two-phase locking. `Locked` says that a transaction holds exactly
the rows it has passed and that nobody else holds them; the parts about what
has been read say that each local copy still is what the table holds, and has
passed the checks that follow its read. They are inductive because a commit
changes only rows it has locked, rows that are new, and the memberships and
what pends in the conversation whose row it has locked (which covers the plain
counts of applications and invitations); whoever holds other rows finds what it
has read as it was. So a commit is a step of Groups whose guard holds at that
moment, and what is proved of Groups holds of the transactions. No deadlock:
items are locked before conversations, conversations before participants, and
who holds a conversation's row is alone in it, but for a mark, which holds one
participant and waits for nothing after.

*Messages.* The invariant has the types; `Dense`, that a row's local id is its
position and `last_local_id` the last one; `SendsHold`, that a send between its
first read and its commit is the holder of the row lock, has read the newest
local id and, once it has checked them, a sender who is a member of an active
group; `NotAhead`, that no read position and no mark is past the newest
message. `SendsHold` is what makes the rest inductive: without the lock in it, a
leave or another commit between the check and the insert would be a step to a
state that the other parts do not exclude. Under it a commit passes the unique
index and appends one row, so that it is a `Post` of ConversationLog; a mark
moves a position forward within the log, so that it is an `Advance` or nothing;
the group operations are `Enter`, `Exit` and `Close`; every other statement
leaves the log alone. The lemma `DenseLog` says that the log read off such a
table is the senders in order. `UnreadSound` needs `NotAhead` only: both terms
were at most what they are now when they were read. `MembersGetTheirMessages` is
inductive with `PushesItsOwn`, that a request pushes a message of its own.
`WalkIsComplete` rests on the lemma `PageBelow`, proved by counting: since local
ids are dense, the rows not before row *i* below a cursor are as many as the
cursor's distance from it, so that the page is the messages next below the
cursor, one by one; `Walks` says that a client has so far got the messages from
the newest of its first page down to its cursor. `Capacity` counts admitted
sends against the bound.

*ConversationList.* While a client reads on, what it has got is not before the
token (`Above`, unless a token slipped), and what it has not got and has not moved
is before the token or in the millisecond of some token (`Ahead`). `InHand` carries
both from the statement that finds a page to the one that loads it: the page's
rows are before the token, hence none was got already; they are not before the
time its last one was found by, and a row that moves meanwhile only gets later;
and a row that is left behind by a full page is not later than that time, which is
not later than the new token, hence earlier in milliseconds or of the same. That
the token is not past the rows of its page is where `slipped` is needed.

*PrivateChat.* What a check has found out lasts as far as `Checked` says:
`blocked` and `stranger` only fall in the course of a request, and a send that
counts the sender's messages holds the conversation's row until its insert
(`HoldsRow`), so that nobody else's insert comes between. `Served` and
`NoneSent` say whom a request is about, and that a conversation starts empty.

*RelationPages.* Each of a page's three lists is, at every moment, either going
to be read again (a change of it, or a frame that makes the page ask, is on its
way, or the request for the list is in the line) or current: its last reading
equals the table and is the last on its way. Every change puts the lists of
both users it concerns into the first case, but for whom nobody tells
(`unaware`); a reading that fails takes its list out of both (`failed`) until one
that succeeds brings it back. With nothing under way only the second is left.

*Accounts.* Rows are unique in every column. An ID is used, in hand, or still
to come: `IDsFresh` says that the generator is past all that it made since the
start, and that an ID in flight is nobody else's, unless its stamp is within
what a restart after a step back made possible (`exposed`). `UIDsFresh` says
the same of the sequence, whose every start sets it to the largest UID, unless
a seeding came while the UID was under way (`doubtful`). `Named` is the promise
of the tokens row by row, and `Own` that of the profile: a row that anybody may have written stays in the
whitelist, since a first login changes only the UID of a row outside it. The greatest and the least of a set of UIDs exist by
the least-element principle, which the library has for well-founded orders.

*Hub.* The promises hold at each select of `Run`; in the middle of the hub's
work they hold up to the connection it works on (`ClosedUpToSubject`,
`OnlineUpToSubject`, `RoomsUpToSubject`), and `SubjectHolds` says that nobody
else changes the registry meanwhile: only the hub removes, and only by a
registration an entry is made. (`Received` names the places where the hub has the
client in hand and has not touched the registry yet; there the promises hold
without exception, but that a connection about to be registered is not closed.)
`Entries` says that an entry is a connection of that user which the hub has
received.

*TopicRooms.* A message is one of the requests made, and ids are given in
order; what was posted in a room is sorted and its history is the end of it. A
frame under way names what was posted, a sender's messages are under way in
order and after every list that has a newer one. `PageAgrees`: the room that
the frames under way will lead the page to is the server's, or a leave is still
queued, or a join failed after it took effect. `MissedOnlyWhileJoining`: every
message that is due is in a reply under way, or in a push that no later list
replaces, or listed.

Only model-checked: liveness (`DisconnectedGoesOffline`,
`ClosedIsUnregisteredOrStuck` and `RendezvousHappens` of Hub, `RequestsEnd` of
Accounts), which needs fairness and `ENABLED` and is out of the prover's reach.

## 6. What is not modelled

Of the 14 917 lines of Go, 9 270 are generated from the protobuf files: types,
accessors and descriptors without behaviour of their own. No definition stands
for them, and the map has none of them, so that it covers about a quarter of all
lines of Go; of those written by hand it covers three fifths. What it leaves out:

- the conversion of rows to protobuf messages, names, avatars, texts and times
  shown in replies, and the list queries that change nothing and feed no
  property (group members, join requests, invitations, user search);
- which group pushes go to whom, and the group panels and conversations of the
  page that receive them: Hub has that a group request pushes to some users,
  and Messages whom a new message is pushed to. The page's lists of messages
  lose pushes in two ways that are plain from the code (see `hazards`), and no
  text promises that they are complete;
- the request tracker of the page (Chat.jsx:288-340), a map of timers;
- HTTP routing, bcrypt, JWT signatures, file upload, configuration, logging;
- the branch of `nextUserUID` for databases other than PostgreSQL, the unused
  `syncUserIDSequence`, `SendToConversation` and the unused channel `Broadcast`;
- the follows and private conversations that the seeding tool rewrites under
  names of its own, the scripts of continuous integration, and components that
  only render.

The relation checks that precede group creation may have any outcome in Groups.

## 7. Plan

The components that keep state are modelled, membership first, because every
other table refers to it, then the hub, where goroutines meet, then messages,
relations, rooms, accounts and the pages; and the safety properties the runs
check are proved. What is left:

1. Abstract specifications, as ConversationLog is for Messages, of what Hub
   promises its callers (a registry and an online set that follow each other) and of a
   topic room (a log and who listens), with the refinements proved from the
   invariants that are there.
2. What the liveness properties rest on, as far as it is safety: whoever waits at a
   rendezvous of the hub can be served, and who holds the generator's mutex
   can go on.
