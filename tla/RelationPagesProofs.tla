-------------------------- MODULE RelationPagesProofs --------------------------
(***************************************************************************)
(* The proof that pages settle: with nothing under way, the page of a user *)
(* who has been told shows the tables in every list that could be read,    *)
(* for any number of users, requests, reloads and failures.                *)
(***************************************************************************)
EXTENDS RelationPages, SequenceTheorems, TLAPS

(***************************************************************************)
(* The inductive invariant.                                                *)
(***************************************************************************)
Lists == {"following", "followers", "blocked"}

Request == [op : Ops, target : Users] \cup [op : {"get"}, list : Lists]
Orphan  == [me : Users, op : Ops, target : Users]
Notice  == [kind : Ops \cup {"error", "push"}]
List    == [kind : {"list"}, list : Lists, users : SUBSET Users]
Frame   == Notice \cup List

Types ==
  /\ line \in [Users -> Seq(Request)]
  /\ answer \in [Users -> Frame \cup {NoAnswer}]
  /\ orphans \subseteq Orphan
  /\ out \in [Users -> Seq(Frame)]
  /\ pushing \in [Users -> Nat]
  /\ page \in [Users -> [Lists -> SUBSET Users]]
  /\ failed \in [Users -> SUBSET Lists]

\* The frame brings that list, or makes the page ask for it.
Brings(f, list) == f.kind = "list" /\ f.list = list
Renews(f, list) == \E i \in DOMAIN Refetches(f.kind) : Refetches(f.kind)[i] = Get(list)

\* The list will be read again.
Awaited(u, list) ==
  \/ pushing[u] > 0
  \/ \E i \in DOMAIN line[u] : line[u][i] = Get(list)
  \/ Renews(answer[u], list)
  \/ \E i \in DOMAIN out[u] : Renews(out[u][i], list)

\* The last reading of the list is the table: it is about to be queued, or the
\* last on its way, or on the page with none after it.
Current(u, list) ==
  IF Brings(answer[u], list) THEN answer[u].users = Table(list, u)
  ELSE \/ \E i \in DOMAIN out[u] :
            /\ Brings(out[u][i], list) /\ out[u][i].users = Table(list, u)
            /\ \A j \in DOMAIN out[u] : j > i => ~ Brings(out[u][j], list)
       \/ /\ \A i \in DOMAIN out[u] : ~ Brings(out[u][i], list)
          /\ page[u][list] = Table(list, u)

Fresh ==
  \A u \in Users \ unaware : \A list \in Lists \ failed[u] :
    Awaited(u, list) \/ Current(u, list)

IInv == Types /\ Fresh

-----------------------------------------------------------------------------
(* What the page asks for, and what a change concerns.                     *)

LEMMA GetAllGetsAll ==
  /\ GetAll \in Seq(Request)
  /\ \A list \in Lists : \E i \in DOMAIN GetAll : GetAll[i] = Get(list)
<1>1. \A list \in Lists : Get(list) \in Request
  BY DEF Get, Request
<1>2. GetAll \in Seq(Request)
  BY <1>1 DEF GetAll, Lists
<1>3. 1 \in DOMAIN GetAll /\ 2 \in DOMAIN GetAll /\ 3 \in DOMAIN GetAll
  BY DEF GetAll
<1>4. GetAll[1] = Get("following") /\ GetAll[2] = Get("followers") /\ GetAll[3] = Get("blocked")
  BY DEF GetAll
<1> QED
  BY <1>2, <1>3, <1>4 DEF Lists

LEMMA RefetchesType == \A kind : Refetches(kind) \in Seq(Request)
<1>1. <<Get("blocked")>> \in Seq(Request)
  BY DEF Get, Request, Lists
<1> QED
  BY <1>1, GetAllGetsAll DEF Refetches

\* Every change makes whoever made it, and whoever is pushed to, ask for all
\* the lists it may concern; the other frames make nobody ask.
LEMMA RenewsAll ==
  ASSUME NEW f, NEW list \in Lists
  PROVE  /\ f.kind \in {"follow", "unfollow", "block", "push"} => Renews(f, list)
         /\ f.kind = "unblock" => (Renews(f, list) <=> list = "blocked")
         /\ f.kind \in {"list", "error", "none"} => ~ Renews(f, list)
<1>1. CASE f.kind \in {"follow", "unfollow", "block", "push"}
  BY <1>1, GetAllGetsAll DEF Renews, Refetches
<1>2. CASE f.kind = "unblock"
  <2>1. Refetches(f.kind) = <<Get("blocked")>>
    BY <1>2 DEF Refetches
  <2>2. Renews(f, list) <=> Get("blocked") = Get(list)
    BY <2>1 DEF Renews
  <2>3. Get("blocked") = Get(list) <=> list = "blocked"
    BY DEF Get
  <2> QED
    BY <1>2, <2>2, <2>3
<1>3. CASE f.kind \in {"list", "error", "none"}
  <2>1. Refetches(f.kind) = <<>>
    BY <1>3 DEF Refetches
  <2> QED
    BY <1>3, <2>1 DEF Renews
<1> QED
  BY <1>1, <1>2, <1>3

LEMMA NoAnswerIsNothing ==
  \A list \in Lists : ~ Brings(NoAnswer, list) /\ ~ Renews(NoAnswer, list)
<1>1. NoAnswer.kind = "none"
  BY DEF NoAnswer
<1> QED
  BY <1>1, RenewsAll DEF Brings

LEMMA CommitIs ==
  ASSUME NEW op \in Ops, NEW u, NEW v, Commit(op, u, v)
  PROVE  /\ op = "follow" => follows' = follows \cup {<<u, v>>} /\ UNCHANGED blocks
         /\ op = "unfollow" => follows' = follows \ {<<u, v>>} /\ UNCHANGED blocks
         /\ op = "block" => blocks' = blocks \cup {<<u, v>>} /\ follows' = follows \ Both(u, v)
         /\ op = "unblock" => blocks' = blocks \ {<<u, v>>} /\ UNCHANGED follows
<1>1. CASE op = "follow"
  BY <1>1 DEF Commit
<1>2. CASE op = "unfollow"
  BY <1>2 DEF Commit
<1>3. CASE op = "block"
  BY <1>3 DEF Commit
<1>4. CASE op = "unblock"
  BY <1>4 DEF Commit
<1> QED
  BY <1>1, <1>2, <1>3, <1>4 DEF Ops

LEMMA TellIs ==
  ASSUME NEW op \in Ops, NEW v, Tell(op, v)
  PROVE  /\ op \in {"follow", "unfollow"} =>
              pushing' = [pushing EXCEPT ![v] = @ + 1] /\ UNCHANGED unaware
         /\ op = "block" => unaware' = unaware \cup {v} /\ UNCHANGED pushing
         /\ op = "unblock" => UNCHANGED <<pushing, unaware>>
<1>1. CASE op \in {"follow", "unfollow"}
  BY <1>1 DEF Tell
<1>2. CASE op = "block"
  BY <1>2 DEF Tell
<1>3. CASE op = "unblock"
  BY <1>3 DEF Tell
<1> QED
  BY <1>1, <1>2, <1>3 DEF Ops

\* A change concerns the two users it is about; an unblock, the list of one.
LEMMA Unconcerned ==
  ASSUME NEW op \in Ops, NEW u \in Users, NEW v \in Users, Commit(op, u, v),
         NEW w \in Users, NEW list \in Lists,
         w \notin {u, v} \/ (op = "unblock" /\ (w # u \/ list # "blocked"))
  PROVE  Table(list, w)' = Table(list, w)
<1>1. CASE list = "following"
  <2>1. Table(list, w) = {x \in Users : <<w, x>> \in follows}
    BY <1>1 DEF Table
  <2>2. Table(list, w)' = {x \in Users : <<w, x>> \in follows'}
    BY <1>1 DEF Table
  <2>3. \A x \in Users : <<w, x>> \in follows' <=> <<w, x>> \in follows
    BY <1>1, CommitIs DEF Both, Ops
  <2> QED
    BY <2>1, <2>2, <2>3
<1>2. CASE list = "followers"
  <2>1. Table(list, w) = {x \in Users : <<x, w>> \in follows}
    BY <1>2 DEF Table
  <2>2. Table(list, w)' = {x \in Users : <<x, w>> \in follows'}
    BY <1>2 DEF Table
  <2>3. \A x \in Users : <<x, w>> \in follows' <=> <<x, w>> \in follows
    BY <1>2, CommitIs DEF Both, Ops
  <2> QED
    BY <2>1, <2>2, <2>3
<1>3. CASE list = "blocked"
  <2>1. Table(list, w) = {x \in Users : <<w, x>> \in blocks}
    BY <1>3 DEF Table
  <2>2. Table(list, w)' = {x \in Users : <<w, x>> \in blocks'}
    BY <1>3 DEF Table
  <2>3. \A x \in Users : <<w, x>> \in blocks' <=> <<w, x>> \in blocks
    BY <1>3, CommitIs DEF Ops
  <2> QED
    BY <2>1, <2>2, <2>3
<1> QED
  BY <1>1, <1>2, <1>3 DEF Lists

LEMMA TableType ==
  ASSUME NEW list \in Lists, NEW u \in Users
  PROVE  Table(list, u) \subseteq Users
BY DEF Table, Lists

\* Nothing about u has changed.
LEMMA Untouched ==
  ASSUME NEW u \in Users, NEW list \in Lists,
         line'[u] = line[u], answer'[u] = answer[u], out'[u] = out[u],
         pushing'[u] = pushing[u], page'[u] = page[u], Table(list, u)' = Table(list, u)
  PROVE  (Awaited(u, list) \/ Current(u, list)) <=> (Awaited(u, list) \/ Current(u, list))'
BY DEF Awaited, Current, Brings, Renews, Refetches, GetAll, Get

LEMMA SameTable ==
  ASSUME UNCHANGED tables, NEW u, NEW list \in Lists
  PROVE  Table(list, u)' = Table(list, u)
BY DEF Table, tables

\* The reader takes a request that does not ask for this list.
LEMMA LineShift ==
  ASSUME Types, NEW u \in Users, NEW list \in Lists, line[u] # <<>>,
         Head(line[u]) # Get(list), line' = [line EXCEPT ![u] = Tail(@)]
  PROVE  (\E i \in DOMAIN line[u] : line[u][i] = Get(list))
           => \E i \in DOMAIN line'[u] : line'[u][i] = Get(list)
<1>1. line[u] \in Seq(Request) /\ line'[u] = Tail(line[u])
  BY DEF Types
<1>2. /\ Tail(line[u]) \in Seq(Request) /\ Len(Tail(line[u])) = Len(line[u]) - 1
      /\ \A i \in 1 .. Len(Tail(line[u])) : Tail(line[u])[i] = line[u][i + 1]
      /\ Head(line[u]) = line[u][1]
  BY <1>1, HeadTailProperties
<1> SUFFICES ASSUME NEW i \in DOMAIN line[u], line[u][i] = Get(list)
             PROVE  \E j \in DOMAIN line'[u] : line'[u][j] = Get(list)
  OBVIOUS
<1>3. i \in 1 .. Len(line[u]) /\ i # 1 /\ Len(line[u]) \in Nat
  BY <1>1, <1>2
<1>4. i - 1 \in 1 .. Len(Tail(line[u])) /\ Tail(line[u])[i - 1] = line[u][i]
  BY <1>2, <1>3
<1>5. i - 1 \in DOMAIN line'[u] /\ line'[u][i - 1] = Get(list)
  BY <1>1, <1>2, <1>4, LenProperties
<1> QED
  BY <1>5

-----------------------------------------------------------------------------
(* The steps of the server.                                                *)

\* What the head of the line is.
LEMMA HeadOfLine ==
  ASSUME Types, NEW u \in Users, line[u] # <<>>
  PROVE  /\ Head(line[u]) \in Request
         /\ Head(line[u]).op \in Ops => Head(line[u]).target \in Users
         /\ Head(line[u]).op = "get" =>
              Head(line[u]).list \in Lists /\ Head(line[u]) = Get(Head(line[u]).list)
         /\ \A list \in Lists : Head(line[u]).op \in Ops => Head(line[u]) # Get(list)
         /\ [line EXCEPT ![u] = Tail(@)] \in [Users -> Seq(Request)]
<1>1. line[u] \in Seq(Request)
  BY DEF Types
<1>2. Head(line[u]) \in Request /\ Tail(line[u]) \in Seq(Request)
  BY <1>1, HeadTailProperties
<1>3. "get" \notin Ops
  BY DEF Ops
<1>4. Head(line[u]).op \in Ops => Head(line[u]).target \in Users
  BY <1>2, <1>3 DEF Request
<1>5. Head(line[u]).op = "get" =>
        Head(line[u]).list \in Lists /\ Head(line[u]) = Get(Head(line[u]).list)
  BY <1>2, <1>3 DEF Request, Get
<1>6. \A list \in Lists : Head(line[u]).op \in Ops => Head(line[u]) # Get(list)
  BY <1>3 DEF Get
<1>7. [line EXCEPT ![u] = Tail(@)] \in [Users -> Seq(Request)]
  BY <1>2 DEF Types
<1> QED
  BY <1>2, <1>4, <1>5, <1>6, <1>7

LEMMA ServeChangeStep ==
  ASSUME IInv, NEW u \in Users, ServeChange(u)
  PROVE  IInv'
<1> USE DEF IInv
<1> DEFINE r == Head(line[u])
           v == r.target
<1>1. /\ answer[u] = NoAnswer /\ line[u] # <<>> /\ r.op \in Ops /\ v \in Users
      /\ line' = [line EXCEPT ![u] = Tail(@)]
      /\ \A list \in Lists : r # Get(list)
      /\ UNCHANGED <<orphans, out, page, failed>>
  BY HeadOfLine DEF ServeChange
<1>2. line' \in [Users -> Seq(Request)] /\ \A w \in Users \ {u} : line'[w] = line[w]
  BY <1>1, HeadOfLine DEF Types
<1>3. \A list \in Lists : (\E i \in DOMAIN line[u] : line[u][i] = Get(list))
           => \E i \in DOMAIN line'[u] : line'[u][i] = Get(list)
  BY <1>1, LineShift
<1>4. CASE /\ Commit(r.op, u, v) /\ Tell(r.op, v)
           /\ answer' = [answer EXCEPT ![u] = [kind |-> r.op]]
  <2>1. /\ Commit(r.op, u, v) /\ Tell(r.op, v)
        /\ answer' = [answer EXCEPT ![u] = [kind |-> r.op]]
    BY <1>4
  <2>2. [kind |-> r.op] \in Frame /\ [kind |-> r.op].kind = r.op
    BY <1>1 DEF Frame, Notice
  <2>3. answer' \in [Users -> Frame \cup {NoAnswer}] /\ answer'[u].kind = r.op
        /\ \A w \in Users \ {u} : answer'[w] = answer[w]
    BY <2>1, <2>2 DEF Types
  <2>4. /\ pushing' \in [Users -> Nat]
        /\ r.op \in {"follow", "unfollow"} => pushing'[v] > 0
        /\ \A w \in Users : pushing[w] > 0 => pushing'[w] > 0
        /\ \A w \in Users : w # v \/ r.op \in {"block", "unblock"} => pushing'[w] = pushing[w]
        /\ unaware \subseteq unaware' /\ (r.op = "block" => v \in unaware')
    <3> HIDE DEF r, v
    <3>1. CASE r.op \in {"follow", "unfollow"}
      <4>1. pushing' = [pushing EXCEPT ![v] = @ + 1] /\ UNCHANGED unaware
        BY <1>1, <2>1, <3>1, TellIs
      <4>2. pushing \in [Users -> Nat] /\ v \in Users
        BY <1>1 DEF Types
      <4> QED
        BY <3>1, <4>1, <4>2
    <3>2. CASE r.op = "block"
      BY <1>1, <2>1, <3>2, TellIs DEF Types
    <3>3. CASE r.op = "unblock"
      BY <1>1, <2>1, <3>3, TellIs DEF Types
    <3> QED
      BY <1>1, <3>1, <3>2, <3>3 DEF Ops
  <2>5. Types'
    BY <1>1, <1>2, <2>3, <2>4 DEF Types
  <2> HIDE DEF r, v
  <2>6. ASSUME NEW w \in Users \ unaware', NEW list \in Lists \ failed'[w]
        PROVE  Awaited(w, list)' \/ Current(w, list)'
    <3>1. Awaited(w, list) \/ Current(w, list)
      BY <1>1, <2>4, <2>6 DEF Fresh
    <3>2. CASE w = u
      <4>1. CASE r.op \in {"follow", "unfollow", "block"} \/ list = "blocked"
        <5>1. Renews(answer'[u], list)
          BY <1>1, <2>3, <4>1, RenewsAll DEF Ops
        <5> QED
          BY <3>2, <5>1 DEF Awaited, Renews, Refetches, GetAll, Get
      <4>2. CASE r.op = "unblock" /\ list # "blocked"
        <5>1. Table(list, u)' = Table(list, u)
          BY <1>1, <2>1, <4>2, Unconcerned
        <5>2. ~ Brings(answer[u], list) /\ ~ Renews(answer[u], list)
          BY <1>1, NoAnswerIsNothing
        <5>3. ~ Brings(answer'[u], list)
          BY <2>3, <4>2 DEF Brings
        <5>4. Awaited(u, list) => Awaited(u, list)'
          BY <1>1, <1>3, <2>4, <5>2 DEF Awaited, Renews, Refetches, GetAll, Get
        <5>5. Current(u, list) => Current(u, list)'
          BY <1>1, <5>1, <5>2, <5>3 DEF Current, Brings
        <5> QED
          BY <3>1, <3>2, <5>4, <5>5
      <4> QED
        BY <1>1, <4>1, <4>2 DEF Ops
    <3>3. CASE w # u /\ w = v /\ r.op \in {"follow", "unfollow"}
      BY <2>4, <3>3 DEF Awaited
    <3>4. CASE w # u /\ (w # v \/ r.op = "unblock")
      <4>1. Table(list, w)' = Table(list, w)
        BY <1>1, <2>1, <3>4, Unconcerned
      <4>2. pushing'[w] = pushing[w]
        BY <2>4, <3>4
      <4> QED
        BY <1>1, <1>2, <2>3, <3>1, <3>4, <4>1, <4>2, Untouched
    <3> QED
      BY <1>1, <2>4, <2>6, <3>2, <3>3, <3>4 DEF Ops
  <2> QED
    BY <2>5, <2>6 DEF Fresh
<1>5. CASE /\ answer' = [answer EXCEPT ![u] = [kind |-> "error"]]
           /\ pushing' = pushing /\ unaware \subseteq unaware'
           /\ \/ UNCHANGED tables
              \/ Commit(r.op, u, v) /\ {u, v} \subseteq unaware'
  <2>1. /\ answer' = [answer EXCEPT ![u] = [kind |-> "error"]]
        /\ pushing' = pushing /\ unaware \subseteq unaware'
    BY <1>5
  <2>2. [kind |-> "error"] \in Frame
    BY DEF Frame, Notice
  <2>3. answer' \in [Users -> Frame \cup {NoAnswer}] /\ answer'[u].kind = "error"
        /\ \A w \in Users \ {u} : answer'[w] = answer[w]
    BY <2>1, <2>2 DEF Types
  <2>4. Types'
    BY <1>1, <1>2, <2>1, <2>3 DEF Types
  <2> HIDE DEF r, v
  <2>5. ASSUME NEW w \in Users \ unaware', NEW list \in Lists \ failed'[w]
        PROVE  Awaited(w, list)' \/ Current(w, list)'
    <3>1. Awaited(w, list) \/ Current(w, list)
      BY <1>1, <2>1, <2>5 DEF Fresh
    <3>2. Table(list, w)' = Table(list, w)
      <4>1. CASE UNCHANGED tables
        BY <4>1, SameTable
      <4>2. CASE Commit(r.op, u, v) /\ {u, v} \subseteq unaware'
        BY <1>1, <2>5, <4>2, Unconcerned
      <4> QED
        BY <1>5, <4>1, <4>2
    <3>3. CASE w = u
      <4>1. ~ Brings(answer[u], list) /\ ~ Renews(answer[u], list)
        BY <1>1, NoAnswerIsNothing
      <4>2. ~ Brings(answer'[u], list)
        BY <2>3 DEF Brings
      <4>3. Awaited(u, list) => Awaited(u, list)'
        BY <1>1, <1>3, <2>1, <4>1 DEF Awaited, Renews, Refetches, GetAll, Get
      <4>4. Current(u, list) => Current(u, list)'
        BY <1>1, <3>2, <3>3, <4>1, <4>2 DEF Current, Brings
      <4> QED
        BY <3>1, <3>3, <4>3, <4>4
    <3>4. CASE w # u
      BY <1>1, <1>2, <2>1, <2>3, <3>1, <3>2, <3>4, Untouched
    <3> QED
      BY <3>3, <3>4
  <2> QED
    BY <2>4, <2>5 DEF Fresh
<1>6. \/ /\ Commit(r.op, u, v) /\ Tell(r.op, v)
         /\ answer' = [answer EXCEPT ![u] = [kind |-> r.op]]
      \/ /\ answer' = [answer EXCEPT ![u] = [kind |-> "error"]]
         /\ pushing' = pushing /\ unaware \subseteq unaware'
         /\ \/ UNCHANGED tables
            \/ Commit(r.op, u, v) /\ {u, v} \subseteq unaware'
  BY DEF ServeChange, FailChange
<1> QED
  BY <1>4, <1>5, <1>6

LEMMA ServeGetStep ==
  ASSUME IInv, NEW u \in Users, ServeGet(u)
  PROVE  IInv'
<1> USE DEF IInv
<1> DEFINE l == Head(line[u]).list
<1>1. /\ answer[u] = NoAnswer /\ line[u] # <<>> /\ l \in Lists /\ Head(line[u]) = Get(l)
      /\ line' = [line EXCEPT ![u] = Tail(@)]
      /\ \/ /\ answer' = [answer EXCEPT ![u] = [kind |-> "list", list |-> l, users |-> Table(l, u)]]
            /\ failed' = [failed EXCEPT ![u] = @ \ {l}]
         \/ /\ answer' = [answer EXCEPT ![u] = [kind |-> "error"]]
            /\ failed' = [failed EXCEPT ![u] = @ \cup {l}]
      /\ UNCHANGED <<tables, orphans, pushing, out, page, unaware>>
  BY HeadOfLine DEF ServeGet
<1>2. line' \in [Users -> Seq(Request)] /\ \A w \in Users \ {u} : line'[w] = line[w]
  BY <1>1, HeadOfLine DEF Types
<1> HIDE DEF l
<1>3. /\ [kind |-> "list", list |-> l, users |-> Table(l, u)] \in Frame
      /\ [kind |-> "error"] \in Frame
  BY <1>1, TableType DEF Frame, List, Notice
<1>4. /\ answer' \in [Users -> Frame \cup {NoAnswer}]
      /\ \A w \in Users \ {u} : answer'[w] = answer[w] /\ failed'[w] = failed[w]
      /\ \/ /\ answer'[u].kind = "list" /\ answer'[u].list = l /\ answer'[u].users = Table(l, u)
            /\ failed'[u] = failed[u] \ {l}
         \/ answer'[u].kind = "error" /\ failed'[u] = failed[u] \cup {l}
      /\ failed' \in [Users -> SUBSET Lists]
  <2> DEFINE a == [kind |-> "list", list |-> l, users |-> Table(l, u)]
             e == [kind |-> "error"]
  <2>1. /\ a \in Frame /\ a.kind = "list" /\ a.list = l /\ a.users = Table(l, u)
        /\ e \in Frame /\ e.kind = "error"
    BY <1>3
  <2>2. \/ answer' = [answer EXCEPT ![u] = a] /\ failed' = [failed EXCEPT ![u] = @ \ {l}]
        \/ answer' = [answer EXCEPT ![u] = e] /\ failed' = [failed EXCEPT ![u] = @ \cup {l}]
    BY <1>1
  <2> HIDE DEF a, e
  <2>3. answer \in [Users -> Frame \cup {NoAnswer}] /\ failed \in [Users -> SUBSET Lists]
    BY DEF Types
  <2> QED
    BY <1>1, <2>1, <2>2, <2>3
<1>5. Types'
  BY <1>1, <1>2, <1>4 DEF Types
<1>6. ASSUME NEW w \in Users \ unaware', NEW list \in Lists \ failed'[w]
      PROVE  Awaited(w, list)' \/ Current(w, list)'
  <2>1. (w = u /\ list = l) \/ Awaited(w, list) \/ Current(w, list)
    BY <1>1, <1>4, <1>6 DEF Fresh
  <2>2. Table(list, w)' = Table(list, w)
    BY <1>1, SameTable
  <2>3. CASE w = u /\ list = l
    BY <1>4, <1>6, <2>2, <2>3 DEF Current, Brings
  <2>4. CASE w = u /\ list # l
    <3>1. ~ Brings(answer[u], list) /\ ~ Renews(answer[u], list)
      BY <1>1, NoAnswerIsNothing
    <3>2. ~ Brings(answer'[u], list)
      BY <1>4, <2>4 DEF Brings
    <3>3. Head(line[u]) # Get(list)
      BY <1>1, <2>4 DEF Get
    <3>4. (\E i \in DOMAIN line[u] : line[u][i] = Get(list))
             => \E i \in DOMAIN line'[u] : line'[u][i] = Get(list)
      BY <1>1, <3>3, LineShift
    <3>5. Awaited(u, list) => Awaited(u, list)'
      <4>1. UNCHANGED <<pushing, out>>
        BY <1>1
      <4> QED
        BY <3>1, <3>4, <4>1 DEF Awaited, Renews, Refetches, GetAll, Get
    <3>6. Current(u, list) => Current(u, list)'
      BY <1>1, <2>2, <2>4, <3>1, <3>2 DEF Current, Brings
    <3> QED
      BY <2>1, <2>4, <3>5, <3>6
  <2>5. CASE w # u
    BY <1>1, <1>2, <1>4, <2>1, <2>2, <2>5, Untouched
  <2> QED
    BY <2>3, <2>4, <2>5
<1> QED
  BY <1>5, <1>6 DEF Fresh

LEMMA ReplyStep ==
  ASSUME IInv, NEW u \in Users, Reply(u)
  PROVE  IInv'
<1> USE DEF IInv
<1> DEFINE n == Len(out[u]) + 1
<1>1. /\ answer[u] # NoAnswer
      /\ out' = [out EXCEPT ![u] = Append(@, answer[u])]
      /\ answer' = [answer EXCEPT ![u] = NoAnswer]
      /\ UNCHANGED <<tables, orphans, pushing, line, page, unaware, failed>>
  BY DEF Reply
<1>2. out[u] \in Seq(Frame) /\ answer[u] \in Frame
  BY <1>1 DEF Types
<1>3. /\ out'[u] \in Seq(Frame) /\ DOMAIN out[u] = 1 .. n - 1 /\ DOMAIN out'[u] = 1 .. n
      /\ n \in Nat \ {0}
      /\ \A i \in 1 .. n - 1 : out'[u][i] = out[u][i]
      /\ out'[u][n] = answer[u]
  <2>1. out'[u] = Append(out[u], answer[u])
    BY <1>1 DEF Types
  <2>2. Len(out[u]) \in Nat
    BY <1>2, LenProperties
  <2>3. /\ out'[u] \in Seq(Frame) /\ Len(out'[u]) = Len(out[u]) + 1
        /\ \A i \in 1 .. Len(out[u]) : out'[u][i] = out[u][i]
        /\ out'[u][Len(out[u]) + 1] = answer[u]
    BY <1>2, <2>1, AppendProperties
  <2>4. DOMAIN out[u] = 1 .. Len(out[u]) /\ DOMAIN out'[u] = 1 .. Len(out'[u])
    BY <1>2, <2>3, LenProperties
  <2> QED
    BY <2>2, <2>3, <2>4
<1>4. /\ \A w \in Users \ {u} : out'[w] = out[w] /\ answer'[w] = answer[w]
      /\ answer'[u] = NoAnswer
  BY <1>1 DEF Types
<1>5. Types'
  BY <1>1, <1>2, <1>3, <1>4 DEF Types
<1> HIDE DEF n
<1>6. ASSUME NEW w \in Users \ unaware', NEW list \in Lists \ failed'[w]
      PROVE  Awaited(w, list)' \/ Current(w, list)'
  <2>1. Awaited(w, list) \/ Current(w, list)
    BY <1>1, <1>6 DEF Fresh
  <2>2. Table(list, w)' = Table(list, w)
    BY <1>1, SameTable
  <2>3. CASE w = u
    <3>1. Renews(answer[u], list) => Renews(out'[u][n], list)
      BY <1>3
    <3>2. Awaited(u, list) => Awaited(u, list)'
      <4>1. CASE pushing[u] > 0 \/ \E i \in DOMAIN line[u] : line[u][i] = Get(list)
        BY <1>1, <4>1 DEF Awaited
      <4>2. ASSUME NEW i \in DOMAIN out'[u], Renews(out'[u][i], list)
            PROVE  Awaited(u, list)'
        BY <4>2 DEF Awaited, Renews, Refetches, GetAll, Get
      <4>3. CASE \E i \in DOMAIN out[u] : Renews(out[u][i], list)
        BY <1>3, <4>2, <4>3
      <4>4. CASE Renews(answer[u], list)
        BY <1>3, <3>1, <4>2, <4>4
      <4> QED
        BY <4>1, <4>3, <4>4 DEF Awaited
    <3>3. ~ Brings(answer'[u], list)
      BY <1>4, NoAnswerIsNothing
    <3>4. Current(u, list) => Current(u, list)'
      <4>1. CASE Brings(answer[u], list)
        <5>1. Current(u, list) => out'[u][n].users = Table(list, u)'
          BY <1>3, <2>2, <2>3, <4>1 DEF Current
        <5>2. Brings(out'[u][n], list) /\ n \in DOMAIN out'[u]
              /\ \A j \in DOMAIN out'[u] : ~ (j > n)
          BY <1>3, <4>1 DEF Brings
        <5> QED
          BY <3>3, <5>1, <5>2 DEF Current, Brings
      <4>2. CASE ~ Brings(answer[u], list)
        <5>1. ~ Brings(out'[u][n], list)
          BY <1>3, <4>2
        <5>2. \A j \in DOMAIN out'[u] : j = n \/ (j \in DOMAIN out[u] /\ out'[u][j] = out[u][j])
          BY <1>3
        <5>3. \A j \in DOMAIN out[u] : j \in DOMAIN out'[u] /\ out'[u][j] = out[u][j]
          BY <1>3
        <5>4. ASSUME NEW i \in DOMAIN out[u], Brings(out[u][i], list),
                     out[u][i].users = Table(list, u),
                     \A j \in DOMAIN out[u] : j > i => ~ Brings(out[u][j], list)
              PROVE  Current(u, list)'
          <6>1. /\ i \in DOMAIN out'[u] /\ Brings(out'[u][i], list)
                /\ out'[u][i].users = Table(list, u)'
            BY <2>2, <2>3, <5>3, <5>4
          <6>2. \A j \in DOMAIN out'[u] : j > i => ~ Brings(out'[u][j], list)
            BY <5>1, <5>2, <5>4
          <6> QED
            BY <3>3, <6>1, <6>2 DEF Current, Brings
        <5>5. ASSUME \A i \in DOMAIN out[u] : ~ Brings(out[u][i], list),
                     page[u][list] = Table(list, u)
              PROVE  Current(u, list)'
          <6>1. \A j \in DOMAIN out'[u] : ~ Brings(out'[u][j], list)
            BY <5>1, <5>2, <5>5
          <6> QED
            BY <1>1, <2>2, <2>3, <3>3, <5>5, <6>1 DEF Current, Brings
        <5> QED
          BY <4>2, <5>4, <5>5 DEF Current
      <4> QED
        BY <4>1, <4>2
    <3> QED
      BY <2>1, <2>3, <3>2, <3>4
  <2>4. CASE w # u
    BY <1>1, <1>4, <2>1, <2>2, <2>4, Untouched
  <2> QED
    BY <2>3, <2>4
<1> QED
  BY <1>5, <1>6 DEF Fresh

LEMMA PushStep ==
  ASSUME IInv, NEW v \in Users, SendRelationPush(v)
  PROVE  IInv'
<1> USE DEF IInv
<1> DEFINE push == [kind |-> "push"]
           n == Len(out[v]) + 1
<1>1. /\ pushing[v] > 0
      /\ pushing' = [pushing EXCEPT ![v] = @ - 1]
      /\ \/ out' = [out EXCEPT ![v] = Append(@, push)] /\ unaware' = unaware
         \/ unaware' = unaware \cup {v} /\ out' = out
      /\ UNCHANGED <<tables, answer, orphans, line, page, failed>>
  BY DEF SendRelationPush
<1>2. push \in Frame /\ push.kind = "push" /\ out[v] \in Seq(Frame)
  BY DEF Frame, Notice, Types
<1> HIDE DEF push
<1>3. /\ out'[v] = Append(out[v], push) \/ (out'[v] = out[v] /\ v \in unaware')
      /\ \A w \in Users \ {v} : out'[w] = out[w]
  BY <1>1 DEF Types
<1>4. /\ out'[v] \in Seq(Frame)
      /\ v \notin unaware' => n \in DOMAIN out'[v] /\ out'[v][n] = push
  BY <1>2, <1>3, AppendProperties, LenProperties
<1>5. pushing' \in [Users -> Nat] /\ \A w \in Users \ {v} : pushing'[w] = pushing[w]
  BY <1>1 DEF Types
<1>6. Types'
  BY <1>1, <1>3, <1>4, <1>5 DEF Types
<1> HIDE DEF n
<1>7. ASSUME NEW w \in Users \ unaware', NEW list \in Lists \ failed'[w]
      PROVE  Awaited(w, list)' \/ Current(w, list)'
  <2>1. CASE w = v
    <3>1. Renews(out'[v][n], list)
      BY <1>2, <1>4, <1>7, <2>1, RenewsAll
    <3> QED
      BY <1>4, <1>7, <2>1, <3>1 DEF Awaited, Renews, Refetches, GetAll, Get
  <2>2. CASE w # v
    <3>1. Awaited(w, list) \/ Current(w, list)
      BY <1>1, <1>7 DEF Fresh
    <3>2. Table(list, w)' = Table(list, w)
      BY <1>1, SameTable
    <3> QED
      BY <1>1, <1>3, <1>5, <2>2, <3>1, <3>2, Untouched
  <2> QED
    BY <2>1, <2>2
<1> QED
  BY <1>6, <1>7 DEF Fresh

LEMMA ServeOrphanStep ==
  ASSUME IInv, ServeOrphan
  PROVE  IInv'
<1> USE DEF IInv
<1>1. PICK r \in orphans :
        /\ orphans' = orphans \ {r}
        /\ \/ /\ Commit(r.op, r.me, r.target)
              /\ pushing' = [pushing EXCEPT ![r.target] = IF r.op \in {"follow", "unfollow"} THEN @ + 1 ELSE @]
              /\ unaware' = unaware \cup {r.me} \cup IF r.op = "block" THEN {r.target} ELSE {}
           \/ /\ UNCHANGED pushing
              /\ \/ UNCHANGED <<tables, unaware>>
                 \/ Commit(r.op, r.me, r.target) /\ unaware' = unaware \cup {r.me, r.target}
        /\ UNCHANGED <<answer, wire, page, failed>>
  BY DEF ServeOrphan, FailChange
<1>2. r.op \in Ops /\ r.me \in Users /\ r.target \in Users
  BY DEF Types, Orphan
<1>3. UNCHANGED <<answer, line, out, page, failed>>
  BY <1>1 DEF wire
<1>4. CASE /\ Commit(r.op, r.me, r.target)
           /\ pushing' = [pushing EXCEPT ![r.target] = IF r.op \in {"follow", "unfollow"} THEN @ + 1 ELSE @]
           /\ unaware' = unaware \cup {r.me} \cup IF r.op = "block" THEN {r.target} ELSE {}
  <2>1. /\ Commit(r.op, r.me, r.target)
        /\ pushing' = [pushing EXCEPT ![r.target] = IF r.op \in {"follow", "unfollow"} THEN @ + 1 ELSE @]
        /\ unaware' = unaware \cup {r.me} \cup IF r.op = "block" THEN {r.target} ELSE {}
    BY <1>4
  <2>2. /\ pushing' \in [Users -> Nat]
        /\ r.op \in {"follow", "unfollow"} => pushing'[r.target] > 0
        /\ \A w \in Users : w # r.target \/ r.op \notin {"follow", "unfollow"} => pushing'[w] = pushing[w]
    BY <1>2, <2>1 DEF Types
  <2>3. Types'
    BY <1>1, <1>3, <2>2 DEF Types
  <2>4. ASSUME NEW w \in Users \ unaware', NEW list \in Lists \ failed'[w]
        PROVE  Awaited(w, list)' \/ Current(w, list)'
    <3>1. w # r.me /\ w \notin unaware /\ (r.op = "block" => w # r.target)
      BY <2>1, <2>4
    <3>2. Awaited(w, list) \/ Current(w, list)
      BY <1>3, <2>4, <3>1 DEF Fresh
    <3>3. CASE w = r.target /\ r.op \in {"follow", "unfollow"}
      BY <2>2, <3>3 DEF Awaited
    <3>4. CASE w # r.target \/ r.op = "unblock"
      <4>1. Table(list, w)' = Table(list, w)
        BY <1>2, <2>1, <3>1, <3>4, Unconcerned
      <4>2. pushing'[w] = pushing[w]
        BY <2>2, <3>4
      <4> QED
        BY <1>3, <3>2, <4>1, <4>2, Untouched
    <3> QED
      BY <1>2, <3>1, <3>3, <3>4 DEF Ops
  <2> QED
    BY <2>3, <2>4 DEF Fresh
<1>5. CASE /\ UNCHANGED pushing
           /\ \/ UNCHANGED <<tables, unaware>>
              \/ Commit(r.op, r.me, r.target) /\ unaware' = unaware \cup {r.me, r.target}
  <2>1. Types'
    BY <1>1, <1>3, <1>5 DEF Types
  <2>2. ASSUME NEW w \in Users \ unaware', NEW list \in Lists \ failed'[w]
        PROVE  Awaited(w, list)' \/ Current(w, list)'
    <3>1. Awaited(w, list) \/ Current(w, list)
      BY <1>3, <1>5, <2>2 DEF Fresh
    <3>2. Table(list, w)' = Table(list, w)
      <4>1. CASE UNCHANGED tables
        BY <4>1, SameTable
      <4>2. CASE Commit(r.op, r.me, r.target) /\ unaware' = unaware \cup {r.me, r.target}
        BY <1>2, <2>2, <4>2, Unconcerned
      <4> QED
        BY <1>5, <4>1, <4>2
    <3> QED
      BY <1>3, <1>5, <3>1, <3>2, Untouched
  <2> QED
    BY <2>1, <2>2 DEF Fresh
<1> QED
  BY <1>1, <1>4, <1>5

-----------------------------------------------------------------------------
(* The steps of the page.                                                  *)

\* What is asked for is at the end of the line, before or after.
LEMMA LineGrows ==
  ASSUME Types, NEW u \in Users, NEW more \in Seq(Request), line' = [line EXCEPT ![u] = @ \o more]
  PROVE  /\ line' \in [Users -> Seq(Request)]
         /\ \A w \in Users \ {u} : line'[w] = line[w]
         /\ \A list \in Lists :
              \/ \E i \in DOMAIN line[u] : line[u][i] = Get(list)
              \/ \E i \in DOMAIN more : more[i] = Get(list)
              => \E i \in DOMAIN line'[u] : line'[u][i] = Get(list)
<1>1. line[u] \in Seq(Request) /\ line'[u] = line[u] \o more
  BY DEF Types
<1>2. /\ line'[u] \in Seq(Request) /\ Len(line'[u]) = Len(line[u]) + Len(more)
      /\ \A i \in 1 .. Len(line[u]) + Len(more) :
           line'[u][i] = IF i <= Len(line[u]) THEN line[u][i] ELSE more[i - Len(line[u])]
  BY <1>1, ConcatProperties
<1>3. /\ Len(line[u]) \in Nat /\ Len(more) \in Nat
      /\ DOMAIN line[u] = 1 .. Len(line[u]) /\ DOMAIN more = 1 .. Len(more)
      /\ DOMAIN line'[u] = 1 .. Len(line[u]) + Len(more)
  BY <1>1, <1>2, LenProperties
<1>4. ASSUME NEW list \in Lists, NEW i \in DOMAIN line[u], line[u][i] = Get(list)
      PROVE  \E j \in DOMAIN line'[u] : line'[u][j] = Get(list)
  <2>1. i \in DOMAIN line'[u] /\ line'[u][i] = line[u][i]
    BY <1>2, <1>3
  <2> QED
    BY <1>4, <2>1
<1>5. ASSUME NEW list \in Lists, NEW i \in DOMAIN more, more[i] = Get(list)
      PROVE  \E j \in DOMAIN line'[u] : line'[u][j] = Get(list)
  <2>1. /\ Len(line[u]) + i \in DOMAIN line'[u]
        /\ line'[u][Len(line[u]) + i] = more[i]
    BY <1>2, <1>3
  <2> QED
    BY <1>5, <2>1
<1>6. line' \in [Users -> Seq(Request)]
  BY <1>2 DEF Types
<1> QED
  BY <1>4, <1>5, <1>6 DEF Types

LEMMA ClickStep ==
  ASSUME IInv, NEW u \in Users, NEW v \in Users, NEW op \in Ops, Click(u, op, v)
  PROVE  IInv'
<1> USE DEF IInv
<1>1. /\ line' = [line EXCEPT ![u] = Append(@, Ask(op, v))]
      /\ UNCHANGED <<tables, answer, orphans, pushing, out, page, unaware, failed>>
  BY DEF Click, server
<1>2. Ask(op, v) \in Request /\ <<Ask(op, v)>> \in Seq(Request)
  BY DEF Ask, Request
<1>3. line' = [line EXCEPT ![u] = @ \o <<Ask(op, v)>>]
  <2>1. Append(line[u], Ask(op, v)) = line[u] \o <<Ask(op, v)>>
    BY <1>2, AppendIsConcat DEF Types
  <2> QED
    BY <1>1, <2>1 DEF Types
<1>4. /\ line' \in [Users -> Seq(Request)]
      /\ \A w \in Users \ {u} : line'[w] = line[w]
      /\ \A list \in Lists :
           (\E i \in DOMAIN line[u] : line[u][i] = Get(list))
             => \E i \in DOMAIN line'[u] : line'[u][i] = Get(list)
  BY <1>2, <1>3, LineGrows
<1>5. Types'
  BY <1>1, <1>4 DEF Types
<1>6. ASSUME NEW w \in Users \ unaware', NEW list \in Lists \ failed'[w]
      PROVE  Awaited(w, list)' \/ Current(w, list)'
  <2>1. Awaited(w, list) \/ Current(w, list)
    BY <1>1, <1>6 DEF Fresh
  <2>2. Table(list, w)' = Table(list, w)
    BY <1>1, SameTable
  <2>3. Awaited(w, list) => Awaited(w, list)'
    BY <1>1, <1>4 DEF Awaited, Renews, Refetches, GetAll, Get
  <2>4. Current(w, list) => Current(w, list)'
    BY <1>1, <2>2 DEF Current, Brings
  <2> QED
    BY <2>1, <2>3, <2>4
<1> QED
  BY <1>5, <1>6 DEF Fresh

LEMMA ReloadStep ==
  ASSUME IInv, NEW u \in Users, Reload(u)
  PROVE  IInv'
<1> USE DEF IInv
<1>1. /\ page' = [page EXCEPT ![u] = Blank]
      /\ line' = [line EXCEPT ![u] = GetAll] /\ out' = [out EXCEPT ![u] = <<>>]
      /\ answer' = [answer EXCEPT ![u] = NoAnswer]
      /\ unaware' = unaware \ {u} /\ failed' = [failed EXCEPT ![u] = {}]
      /\ UNCHANGED <<tables, pushing>>
  BY DEF Reload
<1>2. orphans' \subseteq Orphan
  <2>1. CASE UNCHANGED orphans
    BY <2>1 DEF Types
  <2>2. CASE ~ UNCHANGED orphans
    <3> DEFINE r == [me |-> u, op |-> Head(line[u]).op, target |-> Head(line[u]).target]
    <3>1. line[u] # <<>> /\ Head(line[u]).op \in Ops /\ orphans' = orphans \cup {r}
      BY <2>2 DEF Reload
    <3>2. r \in Orphan
      BY <3>1, HeadOfLine DEF Orphan
    <3> QED
      BY <3>1, <3>2 DEF Types
  <2> QED
    BY <2>1, <2>2
<1>3. Blank \in [Lists -> SUBSET Users]
  <2>1. DOMAIN Blank = Lists /\ \A list \in Lists : Blank[list] = {}
    BY DEF Blank, Lists
  <2>2. Blank = [list \in Lists |-> {}]
    BY DEF Blank, Lists
  <2> QED
    BY <2>2
<1>4. /\ line'[u] = GetAll /\ \A w \in Users \ {u} :
           /\ line'[w] = line[w] /\ answer'[w] = answer[w] /\ out'[w] = out[w] /\ page'[w] = page[w]
           /\ failed'[w] = failed[w]
  BY <1>1 DEF Types
<1>5. Types'
  BY <1>1, <1>2, <1>3, GetAllGetsAll DEF Types
<1>6. ASSUME NEW w \in Users \ unaware', NEW list \in Lists \ failed'[w]
      PROVE  Awaited(w, list)' \/ Current(w, list)'
  <2>1. CASE w = u
    BY <1>4, <2>1, GetAllGetsAll DEF Awaited, Get
  <2>2. CASE w # u
    <3>1. Awaited(w, list) \/ Current(w, list)
      BY <1>1, <1>4, <1>6, <2>2 DEF Fresh
    <3>2. Table(list, w)' = Table(list, w)
      BY <1>1, SameTable
    <3> QED
      BY <1>1, <1>4, <2>2, <3>1, <3>2, Untouched
  <2> QED
    BY <2>1, <2>2
<1> QED
  BY <1>5, <1>6 DEF Fresh

LEMMA HandleStep ==
  ASSUME IInv, NEW u \in Users, Handle(u)
  PROVE  IInv'
<1> USE DEF IInv
<1> DEFINE f == Head(out[u])
           n == Len(out[u])
<1>1. /\ out[u] # <<>>
      /\ page' = IF f.kind = "list" THEN [page EXCEPT ![u][f.list] = f.users] ELSE page
      /\ line' = [line EXCEPT ![u] = @ \o Refetches(f.kind)]
      /\ unaware' = IF Refetches(f.kind) = GetAll THEN unaware \ {u} ELSE unaware
      /\ out' = [out EXCEPT ![u] = Tail(@)]
      /\ UNCHANGED <<tables, answer, orphans, pushing, failed>>
  BY DEF Handle, server
<1>2. out[u] \in Seq(Frame) /\ f \in Frame /\ f = out[u][1]
  BY <1>1, HeadTailProperties DEF Types
<1>3. /\ out'[u] \in Seq(Frame) /\ n \in Nat \ {0} /\ DOMAIN out[u] = 1 .. n
      /\ DOMAIN out'[u] = 1 .. n - 1
      /\ \A i \in 1 .. n - 1 : out'[u][i] = out[u][i + 1]
  <2>1. out'[u] = Tail(out[u])
    BY <1>1 DEF Types
  <2>2. n \in Nat \ {0} /\ DOMAIN out[u] = 1 .. n
    BY <1>1, <1>2, EmptySeq, LenProperties
  <2>3. /\ out'[u] \in Seq(Frame) /\ Len(out'[u]) = n - 1
        /\ \A i \in 1 .. Len(out'[u]) : out'[u][i] = out[u][i + 1]
    BY <1>1, <1>2, <2>1, HeadTailProperties
  <2> QED
    BY <2>2, <2>3, LenProperties
<1>4. /\ line' \in [Users -> Seq(Request)]
      /\ \A w \in Users \ {u} : line'[w] = line[w]
      /\ \A list \in Lists :
           \/ \E i \in DOMAIN line[u] : line[u][i] = Get(list)
           \/ Renews(f, list)
           => \E i \in DOMAIN line'[u] : line'[u][i] = Get(list)
  <2> DEFINE more == Refetches(f.kind)
  <2>1. more \in Seq(Request) /\ line' = [line EXCEPT ![u] = @ \o more]
    BY <1>1, RefetchesType
  <2>2. \A list \in Lists : Renews(f, list) <=> \E i \in DOMAIN more : more[i] = Get(list)
    BY DEF Renews
  <2> HIDE DEF f, more
  <2>3. /\ line' \in [Users -> Seq(Request)]
        /\ \A w \in Users \ {u} : line'[w] = line[w]
        /\ \A list \in Lists :
             \/ \E i \in DOMAIN line[u] : line[u][i] = Get(list)
             \/ \E i \in DOMAIN more : more[i] = Get(list)
             => \E i \in DOMAIN line'[u] : line'[u][i] = Get(list)
    BY <2>1, LineGrows
  <2> QED
    BY <2>2, <2>3
<1> HIDE DEF f, n
<1>5. f.kind = "list" => f.list \in Lists /\ f.users \subseteq Users
  BY <1>2 DEF Frame, List, Notice, Ops
<1>6. /\ page' \in [Users -> [Lists -> SUBSET Users]]
      /\ \A w \in Users \ {u} : page'[w] = page[w]
      /\ \A list \in Lists :
           page'[u][list] = IF Brings(f, list) THEN f.users ELSE page[u][list]
  <2>1. page \in [Users -> [Lists -> SUBSET Users]]
    BY DEF Types
  <2>2. CASE f.kind = "list"
    BY <1>1, <1>5, <2>1, <2>2 DEF Brings
  <2>3. CASE f.kind # "list"
    BY <1>1, <2>1, <2>3 DEF Brings
  <2> QED
    BY <2>2, <2>3
<1>7. \A w \in Users \ {u} : out'[w] = out[w]
  BY <1>1 DEF Types
<1>8. Types'
  BY <1>1, <1>3, <1>4, <1>6, <1>7 DEF Types
<1>9. ASSUME NEW w \in Users \ unaware', NEW list \in Lists \ failed'[w]
      PROVE  Awaited(w, list)' \/ Current(w, list)'
  <2>1. Table(list, w)' = Table(list, w)
    BY <1>1, SameTable
  <2>2. CASE w = u /\ \E i \in DOMAIN line'[u] : line'[u][i] = Get(list)
    BY <2>2 DEF Awaited, Get
  <2>3. CASE w = u /\ ~ \E i \in DOMAIN line'[u] : line'[u][i] = Get(list)
    <3>1. ~ Renews(f, list) /\ ~ \E i \in DOMAIN line[u] : line[u][i] = Get(list)
      BY <1>4, <2>3
    <3>2. u \notin unaware
      <4>1. Refetches(f.kind) # GetAll
        BY <3>1, GetAllGetsAll DEF Renews
      <4> QED
        BY <1>1, <1>9, <2>3, <4>1
    <3>3. Awaited(u, list) \/ Current(u, list)
      BY <1>1, <1>9, <2>3, <3>2 DEF Fresh
    <3>4. \A i \in DOMAIN out[u] : i = 1 \/ (i - 1 \in DOMAIN out'[u] /\ out'[u][i - 1] = out[u][i])
      BY <1>3
    <3>5. \A i \in DOMAIN out'[u] : i + 1 \in DOMAIN out[u] /\ out'[u][i] = out[u][i + 1] /\ i \in Nat
      BY <1>3
    <3>6. Awaited(u, list) => Awaited(u, list)'
      <4>1. ASSUME NEW i \in DOMAIN out[u], Renews(out[u][i], list)
            PROVE  \E j \in DOMAIN out'[u] : Renews(out'[u][j], list)
        <5>1. i # 1
          BY <1>2, <3>1, <4>1
        <5> QED
          BY <3>4, <4>1, <5>1
      <4> QED
        BY <1>1, <3>1, <4>1 DEF Awaited, Renews, Refetches, GetAll, Get
    <3>7. Current(u, list) => Current(u, list)'
      <4>1. CASE Brings(answer[u], list)
        BY <1>1, <2>1, <2>3, <4>1 DEF Current, Brings
      <4>2. CASE ~ Brings(answer[u], list)
        <5>1. ~ Brings(answer[u], list)'
          BY <1>1, <4>2 DEF Brings
        <5>2. ASSUME NEW i \in DOMAIN out[u], Brings(out[u][i], list),
                     out[u][i].users = Table(list, u),
                     \A j \in DOMAIN out[u] : j > i => ~ Brings(out[u][j], list)
              PROVE  Current(u, list)'
          <6>1. CASE i = 1
            <7>1. \A j \in DOMAIN out'[u] : ~ Brings(out'[u][j], list)
              BY <1>3, <3>5, <5>2, <6>1
            <7>2. page'[u][list] = Table(list, u)'
              BY <1>2, <1>6, <2>1, <2>3, <5>2, <6>1
            <7> QED
              BY <5>1, <7>1, <7>2 DEF Current, Brings
          <6>2. CASE i # 1
            <7>1. /\ i - 1 \in DOMAIN out'[u] /\ Brings(out'[u][i - 1], list)
                  /\ out'[u][i - 1].users = Table(list, u)'
              BY <2>1, <2>3, <3>4, <5>2, <6>2
            <7>2. \A j \in DOMAIN out'[u] : j > i - 1 => ~ Brings(out'[u][j], list)
              BY <1>3, <3>5, <5>2
            <7> QED
              BY <5>1, <7>1, <7>2 DEF Current, Brings
          <6> QED
            BY <6>1, <6>2
        <5>3. ASSUME \A i \in DOMAIN out[u] : ~ Brings(out[u][i], list),
                     page[u][list] = Table(list, u)
              PROVE  Current(u, list)'
          <6>1. \A j \in DOMAIN out'[u] : ~ Brings(out'[u][j], list)
            BY <3>5, <5>3
          <6>2. ~ Brings(f, list)
            BY <1>2, <1>3, <5>3
          <6>3. page'[u][list] = Table(list, u)'
            BY <1>6, <2>1, <2>3, <5>3, <6>2
          <6> QED
            BY <5>1, <6>1, <6>3 DEF Current, Brings
        <5> QED
          BY <4>2, <5>2, <5>3 DEF Current
      <4> QED
        BY <4>1, <4>2
    <3> QED
      BY <2>3, <3>3, <3>6, <3>7
  <2>4. CASE w # u
    <3>1. Awaited(w, list) \/ Current(w, list)
      BY <1>1, <1>9, <2>4 DEF Fresh
    <3> QED
      BY <1>1, <1>4, <1>6, <1>7, <2>1, <2>4, <3>1, Untouched
  <2> QED
    BY <2>2, <2>3, <2>4
<1> QED
  BY <1>8, <1>9 DEF Fresh

-----------------------------------------------------------------------------
(* The invariant holds of every state.                                     *)

LEMMA Initially == Init => IInv
<1> SUFFICES ASSUME Init PROVE IInv
  OBVIOUS
<1>1. Blank = [list \in Lists |-> {}]
  BY DEF Blank, Lists
<1>2. Types
  BY <1>1, GetAllGetsAll, EmptySeq DEF Init, Types
<1>3. \A u \in Users, list \in Lists : Awaited(u, list)
  BY GetAllGetsAll DEF Init, Awaited
<1> QED
  BY <1>2, <1>3 DEF IInv, Fresh

LEMMA Preserved == IInv /\ [Next]_vars => IInv'
<1> SUFFICES ASSUME IInv, [Next]_vars PROVE IInv'
  OBVIOUS
<1>1. CASE UNCHANGED vars
  <2>1. UNCHANGED <<tables, line, answer, orphans, out, pushing, page, unaware, failed>>
    BY <1>1 DEF vars, server, wire
  <2>2. Types'
    BY <2>1 DEF IInv, Types
  <2>3. ASSUME NEW w \in Users \ unaware', NEW list \in Lists \ failed'[w]
        PROVE  Awaited(w, list)' \/ Current(w, list)'
    <3>1. Awaited(w, list) \/ Current(w, list)
      BY <2>1, <2>3 DEF IInv, Fresh
    <3>2. Table(list, w)' = Table(list, w)
      BY <2>1, SameTable
    <3> QED
      BY <2>1, <3>1, <3>2, Untouched
  <2> QED
    BY <2>2, <2>3 DEF IInv, Fresh
<1> QED
  BY <1>1, ServeChangeStep, ServeGetStep, ReplyStep, PushStep, HandleStep, ReloadStep, ClickStep,
     ServeOrphanStep DEF Next

\* A page with nothing under way shows the tables as they are, but for lists
\* whose last reading failed and for users of whom PagesSettle says that nobody
\* told them: handleWsMessage of Chat.jsx and the relation handlers together,
\* with any number of users, changes and failing statements.
THEOREM PagesShowTheTables == Spec => []PagesSettle
<1>1. IInv => PagesSettle
  <2> SUFFICES ASSUME IInv, NEW u \in Users \ unaware, Settled(u),
                      NEW list \in Lists \ failed[u]
               PROVE  page[u][list] = Table(list, u)
    BY DEF PagesSettle, Blank, Lists
  <2>1. /\ DOMAIN line[u] = {} /\ DOMAIN out[u] = {} /\ pushing[u] = 0
        /\ answer[u] = NoAnswer
    BY DEF Settled
  <2>2. ~ Awaited(u, list)
    BY <2>1, NoAnswerIsNothing DEF Awaited
  <2>3. Current(u, list)
    BY <2>2 DEF IInv, Fresh
  <2> QED
    BY <2>1, <2>3, NoAnswerIsNothing DEF Current
<1> QED
  BY <1>1, Initially, Preserved, PTL DEF Spec
=============================================================================
