----------------------------- MODULE RelationPages -----------------------------
(***************************************************************************)
(* What the open pages show of follows and blocks: the relation handlers   *)
(* of the WebSocket server together with the page (Chat.jsx) at the other  *)
(* end of each connection.                                                 *)
(*                                                                         *)
(* A page sends requests and handles frames in order; the reader of its    *)
(* connection serves one request at a time and queues the answer on Send.  *)
(* The push to the other user gets a goroutine of its own and may overtake *)
(* or be overtaken by anything.  The calls of RelationService are one step *)
(* here; their statements are the matter of PrivateChat.  Any of them may  *)
(* fail, and is then answered with an error.                               *)
(***************************************************************************)
EXTENDS Naturals, Sequences, FiniteSets

CONSTANTS Users,
          MaxClicks,    \* bound: requests that users make
          MaxReloads,   \* bound: pages closed and opened again
          MaxFailures   \* bound: statements of the database that fail

ASSUME RelationPagesAssumption ==
  MaxClicks \in Nat /\ MaxReloads \in Nat /\ MaxFailures \in Nat

VARIABLES follows, blocks,  \* the tables relations and block_relations
          line,             \* requests on their way from each page
          answer,           \* what each reader is about to queue on Send
          orphans,          \* requests whose connection has been replaced
          out,              \* frames on their way to each page
          pushing,          \* goroutines that have yet to push to a user
          page,             \* the three lists that each page shows
          clicks, reloads, failures,  \* history: counts against the bounds
          unaware,          \* history: users nobody has told of a change
          failed            \* history: lists of each page whose last reading failed

tables == <<follows, blocks>>
server == <<tables, answer, orphans, pushing>>
wire   == <<line, out>>
counts == <<clicks, reloads, failures>>
vars   == <<server, wire, page, counts, unaware, failed>>

NoAnswer == [kind |-> "none"]
Blank == [following |-> {}, followers |-> {}, blocked |-> {}]

Ops == {"follow", "unfollow", "block", "unblock"}
Ask(op, v) == [op |-> op, target |-> v]
Get(list) == [op |-> "get", list |-> list]
GetAll == <<Get("following"), Get("followers"), Get("blocked")>>

\* GetFollowing, GetFollowers and GetBlocked.
Table(list, u) ==
  CASE list = "following" -> {v \in Users : <<u, v>> \in follows}
    [] list = "followers" -> {v \in Users : <<v, u>> \in follows}
    [] list = "blocked"   -> {v \in Users : <<u, v>> \in blocks}

-----------------------------------------------------------------------------
(* The server: handleRelationMessage and sendRelationPush.                 *)

Fails == failures < MaxFailures /\ failures' = failures + 1

Both(u, v) == {<<u, v>>, <<v, u>>}

\* What the services allow; anything else is answered with an error.
Allowed(op, u, v) ==
  CASE op = "follow"   -> Both(u, v) \cap blocks = {} /\ <<u, v>> \notin follows
    [] op = "unfollow" -> <<u, v>> \in follows
    [] op = "block"    -> <<u, v>> \notin blocks
    [] op = "unblock"  -> <<u, v>> \in blocks

Commit(op, u, v) ==
  CASE op = "follow"   -> follows' = follows \cup {<<u, v>>} /\ UNCHANGED blocks
    [] op = "unfollow" -> follows' = follows \ {<<u, v>>} /\ UNCHANGED blocks
    [] op = "block"    -> blocks' = blocks \cup {<<u, v>>} /\ follows' = follows \ Both(u, v)
    [] op = "unblock"  -> blocks' = blocks \ {<<u, v>>} /\ UNCHANGED follows

\* A follow and its end are pushed to the target; a block, which ends the
\* follows of both directions, is not.
Tell(op, v) ==
  CASE op \in {"follow", "unfollow"} ->
         pushing' = [pushing EXCEPT ![v] = @ + 1] /\ UNCHANGED unaware
    [] op = "block" -> unaware' = unaware \cup {v} /\ UNCHANGED pushing
    [] op = "unblock" -> UNCHANGED <<pushing, unaware>>

\* A statement fails: nothing is changed; or all is, but the answer to the commit
\* is lost.  The service returns an error, and the handler pushes nothing.
FailChange(op, u, v) ==
  /\ Fails
  /\ \/ UNCHANGED <<tables, unaware>>
     \/ Allowed(op, u, v) /\ Commit(op, u, v) /\ unaware' = unaware \cup {u, v}
  /\ UNCHANGED pushing

\* The reader of u's connection carries out the next request; it is answered
\* with an error when it is refused and when a statement fails.
ServeChange(u) ==
  /\ answer[u] = NoAnswer /\ line[u] # <<>>
  /\ LET r == Head(line[u])
     IN  /\ r.op \in Ops
         /\ \/ /\ Allowed(r.op, u, r.target)
               /\ Commit(r.op, u, r.target) /\ Tell(r.op, r.target)
               /\ answer' = [answer EXCEPT ![u] = [kind |-> r.op]]
               /\ UNCHANGED failures
            \/ /\ answer' = [answer EXCEPT ![u] = [kind |-> "error"]]
               /\ \/ ~Allowed(r.op, u, r.target) /\ UNCHANGED <<tables, pushing, failures, unaware>>
                  \/ FailChange(r.op, u, r.target)
  /\ line' = [line EXCEPT ![u] = Tail(@)]
  /\ UNCHANGED <<orphans, out, page, clicks, reloads, failed>>

\* The list is read; or the query fails, and the page keeps the list it has.
ServeGet(u) ==
  /\ answer[u] = NoAnswer /\ line[u] # <<>>
  /\ LET r == Head(line[u])
     IN  /\ r.op = "get"
         /\ \/ /\ answer' = [answer EXCEPT ![u] =
                               [kind |-> "list", list |-> r.list, users |-> Table(r.list, u)]]
               /\ failed' = [failed EXCEPT ![u] = @ \ {r.list}] /\ UNCHANGED failures
            \/ /\ Fails
               /\ answer' = [answer EXCEPT ![u] = [kind |-> "error"]]
               /\ failed' = [failed EXCEPT ![u] = @ \cup {r.list}]
  /\ line' = [line EXCEPT ![u] = Tail(@)]
  /\ UNCHANGED <<tables, orphans, pushing, out, page, clicks, reloads, unaware>>

Reply(u) ==
  /\ answer[u] # NoAnswer
  /\ out' = [out EXCEPT ![u] = Append(@, answer[u])]
  /\ answer' = [answer EXCEPT ![u] = NoAnswer]
  /\ UNCHANGED <<tables, orphans, pushing, line, page, counts, unaware, failed>>

\* sendRelationPush: SendToUser finds the connection the target has by then.
\* When the sender's name cannot be read, there is no push.
SendRelationPush(v) ==
  /\ pushing[v] > 0
  /\ pushing' = [pushing EXCEPT ![v] = @ - 1]
  /\ \/ out' = [out EXCEPT ![v] = Append(@, [kind |-> "push"])] /\ UNCHANGED <<failures, unaware>>
     \/ Fails /\ unaware' = unaware \cup {v} /\ UNCHANGED out
  /\ UNCHANGED <<tables, answer, orphans, line, page, clicks, reloads, failed>>

\* A request whose handler was running when its connection was replaced: its
\* answer goes nowhere.
ServeOrphan ==
  \E r \in orphans :
    /\ orphans' = orphans \ {r}
    /\ \/ /\ Allowed(r.op, r.me, r.target)
          /\ Commit(r.op, r.me, r.target)
          /\ pushing' = [pushing EXCEPT ![r.target] = IF r.op \in {"follow", "unfollow"} THEN @ + 1 ELSE @]
          /\ unaware' = unaware \cup {r.me} \cup IF r.op = "block" THEN {r.target} ELSE {}
          /\ UNCHANGED failures
       \/ ~Allowed(r.op, r.me, r.target) /\ UNCHANGED <<tables, pushing, failures, unaware>>
       \/ FailChange(r.op, r.me, r.target)
    /\ UNCHANGED <<answer, wire, page, clicks, reloads, failed>>

-----------------------------------------------------------------------------
(* The page.                                                               *)

Click(u, op, v) ==
  /\ clicks < MaxClicks /\ clicks' = clicks + 1
  /\ line' = [line EXCEPT ![u] = Append(@, Ask(op, v))]
  /\ UNCHANGED <<server, out, page, reloads, failures, unaware, failed>>

\* Mutant: the answer to a block is taken for one to an unblock.
RefetchesBlockedOnly(kind) ==
  IF kind \in {"follow", "unfollow", "push"} THEN GetAll
  ELSE IF kind \in {"block", "unblock"} THEN <<Get("blocked")>> ELSE <<>>

\* What the page asks for when it is told of a change, its own or another's.
Refetches(kind) ==
  IF kind \in {"follow", "unfollow", "block", "push"} THEN GetAll
  ELSE IF kind = "unblock" THEN <<Get("blocked")>> ELSE <<>>

\* handleWsMessage, case "relation".
Handle(u) ==
  /\ out[u] # <<>>
  /\ LET f == Head(out[u])
     IN  /\ page' = IF f.kind = "list" THEN [page EXCEPT ![u][f.list] = f.users] ELSE page
         /\ line' = [line EXCEPT ![u] = @ \o Refetches(f.kind)]
         /\ unaware' = IF Refetches(f.kind) = GetAll THEN unaware \ {u} ELSE unaware
  /\ out' = [out EXCEPT ![u] = Tail(@)]
  /\ UNCHANGED <<server, counts, failed>>

\* The page is closed and opened again.  Its onopen asks for every list; a
\* request that was being handled may still be carried out, those behind it
\* are lost with the connection.
Reload(u) ==
  /\ reloads < MaxReloads /\ reloads' = reloads + 1
  /\ page' = [page EXCEPT ![u] = Blank]
  /\ line' = [line EXCEPT ![u] = GetAll] /\ out' = [out EXCEPT ![u] = <<>>]
  /\ answer' = [answer EXCEPT ![u] = NoAnswer]
  /\ unaware' = unaware \ {u} /\ failed' = [failed EXCEPT ![u] = {}]
  /\ \/ UNCHANGED orphans
     \/ /\ line[u] # <<>> /\ Head(line[u]).op \in Ops /\ answer[u] = NoAnswer
        /\ orphans' = orphans \cup {[me |-> u, op |-> Head(line[u]).op, target |-> Head(line[u]).target]}
  /\ UNCHANGED <<tables, pushing, clicks, failures>>

-----------------------------------------------------------------------------
\* Every page has just been opened.
Init ==
  /\ follows = {} /\ blocks = {}
  /\ line = [u \in Users |-> GetAll] /\ out = [u \in Users |-> <<>>]
  /\ answer = [u \in Users |-> NoAnswer] /\ orphans = {}
  /\ pushing = [u \in Users |-> 0]
  /\ page = [u \in Users |-> Blank]
  /\ clicks = 0 /\ reloads = 0 /\ failures = 0 /\ unaware = {} /\ failed = [u \in Users |-> {}]

Next ==
  \/ \E u \in Users :
       \/ ServeChange(u) \/ ServeGet(u) \/ Reply(u) \/ SendRelationPush(u)
       \/ Handle(u) \/ Reload(u)
       \/ \E v \in Users \ {u}, op \in Ops : Click(u, op, v)
  \/ ServeOrphan

Spec == Init /\ [][Next]_vars

-----------------------------------------------------------------------------
\* Nothing is under way to the page of u, or from it.
Settled(u) ==
  /\ line[u] = <<>> /\ answer[u] = NoAnswer /\ out[u] = <<>> /\ pushing[u] = 0

\* Once nothing is under way, a page shows the tables as they are, though its
\* lists were read at different moments, pushes come in any order and another
\* user changes the tables meanwhile: every push and every answer makes the
\* page ask again.  The exceptions are a list whose last reading failed, which
\* the page does not ask for again, and a user who was not told of a change: by
\* a block (handleBlock pushes nothing), by a push whose sender's name could not
\* be read, by a change that was committed and taken to have failed, and by one
\* carried out after the page that asked for it had gone.
PagesSettle ==
  \A u \in Users \ unaware :
    Settled(u) => \A list \in DOMAIN Blank \ failed[u] : page[u][list] = Table(list, u)
=============================================================================
