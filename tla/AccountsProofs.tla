---------------------------- MODULE AccountsProofs ----------------------------
(***************************************************************************)
(* Proofs about Accounts: tokens keep naming the user they were issued     *)
(* for, and an insert never fails for what the server made itself, for any *)
(* number of requests, people and whitelist users, any number of IDs in a  *)
(* millisecond, and any number of restarts, seedings and steps back of the *)
(* clock.                                                                  *)
(***************************************************************************)
EXTENDS Accounts, WellFoundedInduction, TLAPS

(***************************************************************************)
(* The inductive invariant.                                                *)
(***************************************************************************)

\* The columns id, uid, username and email are unique, and there is a largest
\* UID.  A row may lack a UID, but only one row does.
Rows ==
  /\ users \subseteq User
  /\ \A r, s \in users : r.id = s.id \/ r.uid = s.uid \/ r.name = s.name => r = s
  /\ \E b \in Nat : \A r \in users : r.uid <= b

Places == {"idle", "id", "spin", "uid", "create", "update"}
Kinds  == {"register", "login", "visit", "legacy"}
Req == [pc : Places, kind : Kinds, name : Names \cup {Nobody}, id : Nat \X Nat, uid : Nat]

\* What a request has in hand where it is: the UID of the whitelist it came
\* with, or the row it found without one, which is still there and has at most
\* got a UID of the sequence.
Course(p) ==
  /\ At(p, "id") \/ At(p, "spin") \/ At(p, "create") =>
       /\ req[p].kind # "legacy" /\ req[p].name \in Names
       /\ req[p].kind # "register" => req[p].uid \in Whitelist
  /\ At(p, "uid") => req[p].kind \in {"register", "legacy"}
  /\ At(p, "uid") /\ req[p].kind = "register" => req[p].name \in Names
  /\ At(p, "update") => req[p].kind = "legacy"
  /\ (At(p, "uid") \/ At(p, "update")) /\ req[p].kind = "legacy" =>
       \E r \in users : r.id = req[p].id /\ r.uid \notin Whitelist

Courses == req \in [Requests -> Req] /\ \A p \in Requests : Course(p)

\* The counters, and who holds the mutex of the generator.
Counters ==
  /\ uidSeq \in Nat /\ uidSeq >= WhitelistMax
  /\ clock \in Nat /\ lastStamp \in Nat /\ exposed \in Nat
  /\ sequence \in 0 .. SequenceSize - 1
  /\ faults \in 0 .. MaxFaults
  /\ seeding \subseteq Whitelist
  /\ mutex = Free \/ (mutex \in Requests /\ At(mutex, "spin"))
  /\ \A p \in Requests : At(p, "spin") => mutex = p

Tokens == tokens \subseteq [uid : Nat \ {0}, id : Nat \X Nat]

\* An ID that the generator, as it is now, will not make again.
Past(i) ==
  \/ i[1] <= exposed
  \/ i[1] < lastStamp
  \/ i[1] = lastStamp /\ (mutex = Free => i[2] <= sequence)

\* The request has an ID that is to become the ID of a row.
HasID(p) == (At(p, "uid") \/ At(p, "create")) /\ req[p].kind # "legacy"

\* No ID that is in use, or about to be, will be made again, and an ID about to
\* be used is nobody else's, unless its stamp is from before a restart.
IDsFresh ==
  /\ \A r \in users : Past(r.id)
  /\ \A p \in Requests : HasID(p) =>
       /\ Past(req[p].id)
       /\ req[p].id[1] > exposed =>
            /\ \A r \in users : r.id # req[p].id
            /\ \A q \in Requests \ {p} : HasID(q) => req[q].id # req[p].id

\* The request has a UID of the sequence that is to become the UID of a row.
HasUID(p) ==
  \/ At(p, "create") /\ req[p].kind = "register"
  \/ At(p, "update")

\* The same of UIDs, unless a seeding started while the UID was under way.
UIDsFresh ==
  /\ \A r \in users : r.uid <= uidSeq \/ r.uid \in doubtful
  /\ \A p \in Requests : HasUID(p) =>
       /\ req[p].uid > WhitelistMax
       /\ req[p].uid <= uidSeq \/ req[p].uid \in doubtful
       /\ req[p].uid \notin doubtful =>
            /\ \A r \in users : r.uid # req[p].uid
            /\ \A q \in Requests \ {p} : HasUID(q) => req[q].uid # req[p].uid

\* A profile is its owner's, but in the whitelist.
Own(r) == r.uid \notin Whitelist => r.profile = r.id \/ r.profile \in raced

\* TokenNamesItsUser, row by row.
Named ==
  /\ \A t \in tokens : t.id \notin raced =>
       /\ \E r \in users : r.uid = t.uid /\ r.id = t.id
       /\ \A r \in users : r.uid = t.uid => r.id = t.id
  /\ \A r \in users : Own(r)

IInv == Rows /\ Courses /\ Counters /\ Tokens /\ IDsFresh /\ UIDsFresh /\ Named

-----------------------------------------------------------------------------
(* Numbers.                                                                *)

\* Every set of naturals that is not empty has a least element, and a largest
\* one if it is bounded: what Min and Max choose is there.
LEMMA Least ==
  ASSUME NEW S, S \subseteq Nat, S # {}
  PROVE  \E x \in S : \A y \in S : x <= y
<1>1. PICK R : /\ IsWellFoundedOn(R, Nat)
               /\ \A x, y \in Nat : <<y, x>> \in R <=> y < x
  <2>1. IsWellFoundedOn(OpToRel(<, Nat), Nat)
    BY NatLessThanWellFounded
  <2>2. \A x, y \in Nat : <<y, x>> \in OpToRel(<, Nat) <=> y < x
    BY DEF OpToRel
  <2> QED
    BY <2>1, <2>2, Zenon
<1>2. PICK x \in S : \A y \in S : ~ (<<y, x>> \in R)
  BY <1>1, WFMin
<1>3. \A y \in S : ~ (y < x)
  BY <1>1, <1>2
<1> QED
  BY <1>3

LEMMA MinChosen ==
  ASSUME NEW S, S \subseteq Nat, S # {}
  PROVE  Min(S) \in S /\ \A y \in S : Min(S) <= y
BY Least DEF Min

LEMMA MaxChosen ==
  ASSUME NEW S, S \subseteq Nat, S # {}, NEW b \in Nat, \A y \in S : y <= b
  PROVE  Max(S) \in S /\ \A y \in S : y <= Max(S)
<1> DEFINE U == {n \in Nat : \A y \in S : y <= n}
<1>1. PICK m \in U : \A n \in U : m <= n
  <2>1. U \subseteq Nat /\ U # {}
    OBVIOUS
  <2> HIDE DEF U
  <2> QED
    BY <2>1, Least
<1>2. m \in Nat /\ \A y \in S : y <= m
  OBVIOUS
<1>3. \A n \in Nat : (\A y \in S : y <= n) => m <= n
  BY <1>1
<1>4. m \in S
  <2>1. SUFFICES ASSUME m \notin S PROVE FALSE
    OBVIOUS
  <2>2. PICK x \in S : TRUE
    OBVIOUS
  <2>3. x \in Nat /\ x < m
    BY <1>2, <2>1, <2>2
  <2>4. m - 1 \in Nat /\ \A y \in S : y <= m - 1
    BY <1>2, <2>1, <2>3
  <2> QED
    BY <1>2, <1>3, <2>4
<1>5. \E z \in S : \A y \in S : z >= y
  BY <1>2, <1>4
<1> QED
  BY <1>5 DEF Max

\* The sequence number either wraps or is the next one.
LEMMA NextNumber ==
  ASSUME NEW n \in Nat \ {0}, NEW s \in 0 .. n - 1
  PROVE  (s + 1) % n \in {0, s + 1} /\ (s + 1) % n \in 0 .. n - 1
<1>1. CASE s + 1 = n
  <2>1. n % n = 0
    OBVIOUS
  <2> QED
    BY <1>1, <2>1
<1>2. CASE s + 1 < n
  BY <1>2
<1> QED
  BY <1>1, <1>2

\* setval(GREATEST(MAX(uid), 20000000)) is no UID's better.
LEMMA SyncedAboveAll ==
  ASSUME Rows
  PROVE  /\ SyncedSequence \in Nat /\ SyncedSequence >= WhitelistMax
         /\ \A r \in users : r.uid <= SyncedSequence
<1> DEFINE S == {r.uid : r \in users} \cup {WhitelistMax}
<1>1. PICK b \in Nat : \A r \in users : r.uid <= b
  BY DEF Rows
<1>2. S \subseteq Nat /\ S # {}
  BY AccountsAssumption DEF Rows, User
<1>3. \E c \in Nat : \A y \in S : y <= c
  <2>1. CASE b <= WhitelistMax
    BY <1>1, <2>1, <1>2, AccountsAssumption
  <2>2. CASE b > WhitelistMax
    BY <1>1, <2>2, <1>2, AccountsAssumption
  <2> QED
    BY <2>1, <2>2, AccountsAssumption
<1>4. Max(S) \in S /\ \A y \in S : y <= Max(S)
  <2> HIDE DEF S
  <2> QED
    BY <1>2, <1>3, MaxChosen
<1>5. WhitelistMax \in S /\ \A r \in users : r.uid \in S
  OBVIOUS
<1> HIDE DEF S
<1>6. Max(S) \in Nat /\ Max(S) >= WhitelistMax /\ \A r \in users : r.uid <= Max(S)
  BY <1>2, <1>4, <1>5, AccountsAssumption
<1>7. SyncedSequence = Max(S)
  BY DEF SyncedSequence, S
<1> QED
  BY <1>6, <1>7

-----------------------------------------------------------------------------
(* Steps that leave the rows alone.                                        *)

\* Another value for one request, and what that value is.
LEMMA OneRequest ==
  ASSUME Courses, NEW p \in Requests, NEW e \in Req, req' = [req EXCEPT ![p] = e]
  PROVE  /\ req' \in [Requests -> Req] /\ req'[p] = e
         /\ \A q \in Requests \ {p} : req'[q] = req[q]
BY DEF Courses

LEMMA IdleIsReq ==
  /\ Idle \in Req /\ Idle.pc = "idle"
BY DEF Idle, Req, Places, Kinds, NoID

\* A token for a row that is there.
LEMMA TokenOfRow ==
  ASSUME IInv, NEW r \in users, r.uid # 0, Issue(r.uid, r.id), UNCHANGED req,
         UNCHANGED <<users, uidSeq, clock, generator, seeding, doubts>>
  PROVE  IInv'
<1> USE DEF IInv, generator, doubts
<1>1. r.uid \in Nat \ {0} /\ r.id \in Nat \X Nat
  BY DEF Rows, User
<1>2. tokens' = tokens \cup {[uid |-> r.uid, id |-> r.id]}
  BY DEF Issue
<1>3. Tokens'
  BY <1>1, <1>2 DEF Tokens
<1>4. Named'
  <2>1. \A s \in users : s.uid = r.uid => s.id = r.id
    BY DEF Rows
  <2> QED
    BY <1>2, <2>1 DEF Named, Own
<1>5. Rows' /\ Courses' /\ Counters' /\ IDsFresh' /\ UIDsFresh'
  BY DEF Rows, Courses, Course, At, Counters, IDsFresh, Past, HasID, UIDsFresh, HasUID
<1> QED
  BY <1>3, <1>4, <1>5

\* A request arrives.
LEMMA Arrives ==
  ASSUME IInv, NEW p \in Requests, At(p, "idle"), NEW e \in Req,
         req' = [req EXCEPT ![p] = e],
         \/ /\ e.pc = "id" /\ e.kind # "legacy" /\ e.name \in Names
            /\ e.kind # "register" => e.uid \in Whitelist
         \/ /\ e.pc = "uid" /\ e.kind = "legacy"
            /\ \E r \in users : r.id = e.id /\ r.uid \notin Whitelist,
         UNCHANGED tokens,
         UNCHANGED <<users, uidSeq, clock, generator, seeding, doubts>>
  PROVE  IInv'
<1> USE DEF IInv, generator, doubts
<1>1. /\ req' \in [Requests -> Req] /\ req'[p] = e
      /\ \A q \in Requests \ {p} : req'[q] = req[q]
  BY OneRequest
<1>2. Courses'
  BY <1>1 DEF Courses, Course, At
<1>3. Counters'
  BY <1>1 DEF Counters, At
<1>4. IDsFresh'
  BY <1>1 DEF IDsFresh, Past, HasID, At
<1>5. UIDsFresh'
  BY <1>1 DEF UIDsFresh, HasUID, At
<1>6. Rows' /\ Tokens' /\ Named'
  BY DEF Rows, Tokens, Named, Own
<1> QED
  BY <1>2, <1>3, <1>4, <1>5, <1>6

LEMMA ArriveStep ==
  ASSUME IInv, NEW p \in Requests, Arrive(p)
  PROVE  IInv'
<1> USE DEF IInv
<1>1. ASSUME NEW n \in People, Register(p, n)
      PROVE  IInv'
  <2> DEFINE e == [Idle EXCEPT !.pc = "id", !.name = n]
  <2>1. e \in Req /\ e.pc = "id" /\ e.kind = "register" /\ e.name \in Names
    BY DEF Idle, Req, Places, Kinds, NoID, Names
  <2>2. req' = [req EXCEPT ![p] = e] /\ At(p, "idle")
    BY <1>1 DEF Register, Open
  <2>3. UNCHANGED tokens /\ UNCHANGED <<users, uidSeq, clock, generator, seeding, doubts>>
    BY <1>1 DEF Register
  <2> HIDE DEF e
  <2> QED
    BY <2>1, <2>2, <2>3, Arrives
<1>2. ASSUME NEW w \in Whitelist, NEW kind \in {"login", "visit"}, EnsureWhitelistUser(p, w, kind)
      PROVE  IInv'
  <2>1. CASE UserByUID(w) = {}
    <3> DEFINE e == [pc |-> "id", kind |-> kind, name |-> Digits(w), id |-> NoID, uid |-> w]
    <3>1. e \in Req /\ e.pc = "id" /\ e.kind = kind /\ e.name \in Names /\ e.uid = w
      BY AccountsAssumption DEF Req, Places, Kinds, NoID, Names
    <3>2. req' = [req EXCEPT ![p] = e] /\ At(p, "idle") /\ UNCHANGED tokens
      BY <1>2, <2>1 DEF EnsureWhitelistUser, Open
    <3>3. UNCHANGED <<users, uidSeq, clock, generator, seeding, doubts>>
      BY <1>2 DEF EnsureWhitelistUser
    <3> HIDE DEF e
    <3> QED
      BY <3>1, <3>2, <3>3, Arrives
  <2>2. CASE UserByUID(w) # {}
    <3>1. PICK r \in UserByUID(w) :
            IF kind = "login" THEN Issue(w, r.id) ELSE UNCHANGED tokens
      BY <1>2, <2>2 DEF EnsureWhitelistUser
    <3>2. r \in users /\ r.uid = w /\ w # 0
      BY <3>1, AccountsAssumption DEF UserByUID
    <3>3. UNCHANGED req /\ UNCHANGED <<users, uidSeq, clock, generator, seeding, doubts>>
      BY <1>2, <2>2 DEF EnsureWhitelistUser
    <3>4. CASE kind = "login"
      BY <3>1, <3>2, <3>3, <3>4, TokenOfRow
    <3>5. CASE kind # "login"
      BY <3>1, <3>3, <3>5 DEF generator, doubts, Rows, Courses, Course, At, Counters, Tokens,
           IDsFresh, Past, HasID, UIDsFresh, HasUID, Named, Own
    <3> QED
      BY <3>4, <3>5
  <2> QED
    BY <2>1, <2>2
<1>3. ASSUME NEW n \in Names, LoginByEmail(p, n)
      PROVE  IInv'
  <2>1. PICK r \in UserByName(n) :
          IF r.uid # 0
          THEN Issue(r.uid, r.id) /\ UNCHANGED req
          ELSE /\ req' = [req EXCEPT ![p] = [Idle EXCEPT !.pc = "uid", !.kind = "legacy", !.id = r.id]]
               /\ UNCHANGED tokens
    BY <1>3 DEF LoginByEmail
  <2>2. r \in users /\ r.id \in Nat \X Nat
    BY DEF UserByName, Rows, User
  <2>3. At(p, "idle") /\ UNCHANGED <<users, uidSeq, clock, generator, seeding, doubts>>
    BY <1>3 DEF LoginByEmail, Open
  <2>4. CASE r.uid # 0
    BY <2>1, <2>2, <2>3, <2>4, TokenOfRow
  <2>5. CASE r.uid = 0
    <3> DEFINE e == [Idle EXCEPT !.pc = "uid", !.kind = "legacy", !.id = r.id]
    <3>1. e \in Req /\ e.pc = "uid" /\ e.kind = "legacy" /\ e.id = r.id
      BY <2>2 DEF Idle, Req, Places, Kinds, NoID
    <3>2. req' = [req EXCEPT ![p] = e] /\ UNCHANGED tokens
      BY <2>1, <2>5
    <3> HIDE DEF e
    <3>3. r.uid \notin Whitelist
      BY <2>5, AccountsAssumption
    <3> QED
      BY <2>2, <2>3, <3>1, <3>2, <3>3, Arrives
  <2> QED
    BY <2>4, <2>5
<1> QED
  BY <1>1, <1>2, <1>3 DEF Arrive, LoginByUID, GetCurrentUser

\* A request ends and leaves nothing behind, but a fault that is counted.
LEMMA FailureFinishes ==
  ASSUME IInv, NEW p \in Requests, ~ At(p, "spin"), Finish(p),
         UNCHANGED <<users, uidSeq, clock, generator, seeding, tokens, exposed, doubtful, raced>>,
         faults' \in 0 .. MaxFaults
  PROVE  IInv'
<1> USE DEF IInv, generator
<1>1. req' = [req EXCEPT ![p] = Idle]
  BY DEF Finish
<1>2. /\ req' \in [Requests -> Req] /\ req'[p] = Idle
      /\ \A q \in Requests \ {p} : req'[q] = req[q]
  BY <1>1, OneRequest, IdleIsReq
<1>3. Idle.pc = "idle"
  BY IdleIsReq
<1>4. Courses'
  BY <1>2, <1>3 DEF Courses, Course, At
<1>5. Counters'
  BY <1>2, <1>3 DEF Counters, At
<1>6. IDsFresh'
  BY <1>2, <1>3 DEF IDsFresh, Past, HasID, At
<1>7. UIDsFresh'
  BY <1>2, <1>3 DEF UIDsFresh, HasUID, At
<1> QED
  BY <1>4, <1>5, <1>6, <1>7 DEF Rows, Tokens, Named, Own

LEMMA Finishes ==
  ASSUME IInv, NEW p \in Requests, ~ At(p, "spin"), Finish(p),
         UNCHANGED <<users, uidSeq, clock, generator, seeding, tokens, doubts>>
  PROVE  IInv'
<1>1. faults' \in 0 .. MaxFaults
  BY DEF IInv, Counters, doubts
<1> QED
  BY <1>1, FailureFinishes DEF doubts

LEMMA FailStep ==
  ASSUME IInv, NEW p \in Requests, Fail(p)
  PROVE  IInv'
<1>1. ~ At(p, "spin") /\ faults' \in 0 .. MaxFaults
  BY AccountsAssumption DEF Fail, Fault, At, IInv, Counters
<1> QED
  BY <1>1, FailureFinishes DEF Fail

\* The request moves on with an ID, and the generator is past it.
LEMMA GeneratedFresh ==
  ASSUME IInv, NEW p \in Requests, At(p, "id") \/ At(p, "spin"), NEW i \in Nat \X Nat,
         Generated(p, i),
         Counters', UNCHANGED <<users, uidSeq, clock, seeding, tokens, doubts>>,
         Past(i)', ~ Past(i) \/ i[1] <= exposed,
         \A j \in Nat \X Nat : Past(j) => Past(j)'
  PROVE  IInv'
<1> USE DEF IInv, doubts
<1> DEFINE e == [req[p] EXCEPT !.id = i,
                               !.pc = IF req[p].kind = "register" THEN "uid" ELSE "create"]
<1>1. /\ e \in Req /\ e.id = i /\ e.kind = req[p].kind /\ e.name = req[p].name
      /\ e.uid = req[p].uid
      /\ e.pc = IF req[p].kind = "register" THEN "uid" ELSE "create"
  BY DEF Courses, Req, Places
<1>2. req' = [req EXCEPT ![p] = e]
  BY DEF Generated, Courses
<1> HIDE DEF e
<1>3. /\ req' \in [Requests -> Req] /\ req'[p] = e
      /\ \A q \in Requests \ {p} : req'[q] = req[q]
  BY <1>1, <1>2, OneRequest
<1>4. e.kind # "legacy" /\ e.name \in Names /\ (e.kind # "register" => e.uid \in Whitelist)
  BY <1>1 DEF Courses, Course
<1>5. Courses'
  BY <1>1, <1>3, <1>4 DEF Courses, Course, At
<1>6. \A q \in Requests \ {p} : HasID(q)' <=> HasID(q)
  BY <1>3 DEF HasID, At
<1>7. \A r \in users : r.id \in Nat \X Nat
  BY DEF Rows, User
<1>8. \A q \in Requests : req[q].id \in Nat \X Nat
  BY DEF Courses, Req
<1>9. i[1] > exposed => \A j \in Nat \X Nat : Past(j) => j # i
  BY DEF Counters
<1>10. IDsFresh'
  <2>1. \A r \in users : Past(r.id)' /\ (i[1] > exposed => r.id # i)
    BY <1>7, <1>9 DEF IDsFresh
  <2>2. \A q \in Requests \ {p} : HasID(q) => Past(req[q].id)' /\ (i[1] > exposed => req[q].id # i)
    BY <1>3, <1>8, <1>9 DEF IDsFresh
  <2>3. ASSUME NEW q \in Requests, HasID(q)'
        PROVE  /\ Past(req[q].id)'
               /\ (req[q].id)'[1] > exposed' =>
                    /\ \A r \in users' : r.id # (req[q].id)'
                    /\ \A s \in Requests \ {q} : HasID(s)' => (req[s].id)' # (req[q].id)'
    <3>1. CASE q = p
      BY <1>1, <1>3, <1>6, <2>1, <2>2, <3>1 DEF Past
    <3>2. CASE q # p
      <4>1. HasID(q) /\ req'[q] = req[q] /\ Past(req[q].id)'
        BY <1>3, <1>6, <2>2, <2>3, <3>2
      <4>2. req[q].id[1] > exposed =>
              /\ \A r \in users : r.id # req[q].id
              /\ \A s \in Requests \ {q} : HasID(s) => req[s].id # req[q].id
        BY <4>1 DEF IDsFresh
      <4>3. req[q].id[1] > exposed => req[q].id # i
        <5>1. CASE i[1] > exposed
          BY <2>2, <3>2, <4>1, <5>1
        <5>2. CASE ~ (i[1] > exposed)
          BY <5>2
        <5> QED
          BY <5>1, <5>2
      <4>4. Past(req[q].id)' <=> Past((req[q].id))'
        OBVIOUS
      <4>5. ASSUME NEW s \in Requests \ {q}, HasID(s)', req[q].id[1] > exposed
            PROVE  (req[s].id)' # req[q].id
        <5>1. CASE s = p
          BY <1>1, <1>3, <4>3, <4>5, <5>1
        <5>2. CASE s # p
          BY <1>3, <1>6, <4>2, <4>5, <5>2
        <5> QED
          BY <5>1, <5>2
      <4> QED
        BY <4>1, <4>2, <4>5
    <3> QED
      BY <3>1, <3>2
  <2>4. \A r \in users' : Past(r.id)'
    BY <2>1
  <2> QED
    BY <2>3, <2>4 DEF IDsFresh
<1>11. UIDsFresh'
  <2>1. HasUID(p)' => FALSE
    BY <1>1, <1>3 DEF HasUID, At
  <2>2. \A q \in Requests \ {p} : HasUID(q)' <=> HasUID(q)
    BY <1>3 DEF HasUID, At
  <2> QED
    BY <1>3, <2>1, <2>2 DEF UIDsFresh
<1>12. Rows' /\ Tokens' /\ Named'
  BY DEF Rows, Tokens, Named, Own
<1> QED
  BY <1>5, <1>10, <1>11, <1>12

LEMMA TakeIDStep ==
  ASSUME IInv, NEW p \in Requests, TakeID(p)
  PROVE  IInv'
<1> USE DEF IInv
<1>1. /\ At(p, "id") /\ mutex = Free
      /\ UNCHANGED <<users, uidSeq, clock, seeding, tokens, doubts>>
  BY DEF TakeID
<1>2. \A q \in Requests : ~ At(q, "spin")
  BY <1>1, AccountsAssumption DEF Counters
<1>3. /\ clock \in Nat /\ lastStamp \in Nat /\ sequence \in 0 .. SequenceSize - 1
      /\ exposed \in Nat /\ SequenceSize \in Nat \ {0}
  BY AccountsAssumption DEF Counters
<1>4. CASE clock < lastStamp /\ Finish(p) /\ UNCHANGED generator
  BY <1>1, <1>2, <1>4, Finishes
<1>5. CASE SameStamp(p)
  <2>1. clock = lastStamp /\ lastStamp' = lastStamp /\ sequence' = (sequence + 1) % SequenceSize
    BY <1>5 DEF SameStamp
  <2>2. sequence' \in {0, sequence + 1} /\ sequence' \in 0 .. SequenceSize - 1
    BY <1>3, <2>1, NextNumber
  <2>3. CASE sequence' = 0
    <3>1. mutex' = p /\ req' = [req EXCEPT ![p].pc = "spin"]
      BY <1>5, <2>3 DEF SameStamp
    <3> DEFINE e == [req[p] EXCEPT !.pc = "spin"]
    <3>2. /\ e \in Req /\ e.pc = "spin" /\ e.kind = req[p].kind /\ e.name = req[p].name
          /\ e.uid = req[p].uid
      BY DEF Courses, Req, Places
    <3>3. req' = [req EXCEPT ![p] = e]
      BY <3>1 DEF Courses
    <3> HIDE DEF e
    <3>4. /\ req' \in [Requests -> Req] /\ req'[p] = e
          /\ \A q \in Requests \ {p} : req'[q] = req[q]
      BY <3>2, <3>3, OneRequest
    <3>5. Courses'
      BY <1>1, <3>2, <3>4 DEF Courses, Course, At
    <3>6. Counters'
      BY <1>1, <1>2, <2>1, <2>2, <3>1, <3>2, <3>4 DEF Counters, At, doubts
    <3>7. p # Free
      BY AccountsAssumption
    <3>8. \A j \in Nat \X Nat : Past(j) => Past(j)'
      BY <1>1, <1>3, <2>1, <3>1, <3>7 DEF Past, doubts
    <3>9. \A q \in Requests : (HasID(q)' <=> HasID(q)) /\ (HasUID(q)' <=> HasUID(q))
      BY <1>1, <3>2, <3>4 DEF HasID, HasUID, At
    <3>10. \A q \in Requests : HasID(q) \/ HasUID(q) => q # p
      BY <1>1 DEF HasID, HasUID, At
    <3>11. (\A r \in users : r.id \in Nat \X Nat) /\ (\A q \in Requests : req[q].id \in Nat \X Nat)
      BY DEF Rows, User, Courses, Req
    <3>12. IDsFresh'
      BY <1>1, <3>4, <3>8, <3>9, <3>10, <3>11 DEF IDsFresh, doubts
    <3>13. UIDsFresh'
      BY <1>1, <3>4, <3>9, <3>10 DEF UIDsFresh, doubts
    <3> QED
      BY <1>1, <3>5, <3>6, <3>12, <3>13 DEF Rows, Tokens, Named, Own, doubts
  <2>4. CASE sequence' # 0
    <3>1. UNCHANGED mutex /\ Generated(p, <<clock, sequence'>>)
      BY <1>5, <2>4 DEF SameStamp
    <3>2. sequence' = sequence + 1
      BY <2>2, <2>4
    <3>0. PICK c \in Nat, n \in Nat : c = clock /\ n = sequence'
      BY <1>3, <3>2
    <3> DEFINE i == <<c, n>>
    <3>3. i \in Nat \X Nat /\ i = <<clock, sequence'>> /\ i[1] = clock /\ i[2] = sequence + 1
      BY <3>0, <3>2
    <3> HIDE DEF i
    <3>4. Past(i)' /\ ~ (Past(i) /\ i[1] > exposed)
      BY <1>1, <1>3, <2>1, <3>2, <3>3 DEF Past
    <3>5. \A j \in Nat \X Nat : Past(j) => Past(j)'
      BY <1>1, <1>3, <2>1, <3>1, <3>2 DEF Past, doubts
    <3>6. \A q \in Requests : At(q, "spin")' => FALSE
      BY <1>2, <3>1 DEF At, Generated, Courses, Req
    <3>7. Counters'
      BY <1>1, <2>1, <2>2, <3>1, <3>6 DEF Counters, doubts
    <3> QED
      BY <1>1, <1>3, <3>1, <3>3, <3>4, <3>5, <3>7, GeneratedFresh
  <2> QED
    BY <2>3, <2>4
<1>6. CASE NewStamp(p)
  <2>1. /\ clock > lastStamp /\ sequence' = 0 /\ lastStamp' = clock /\ mutex' = mutex
        /\ Generated(p, <<clock, 0>>)
    BY <1>6 DEF NewStamp
  <2>0. PICK c \in Nat : c = clock
    BY <1>3
  <2> DEFINE i == <<c, 0>>
  <2>2. i \in Nat \X Nat /\ i = <<clock, 0>> /\ i[1] = clock /\ i[2] = 0
    BY <2>0
  <2> HIDE DEF i
  <2>3. Past(i)' /\ ~ (Past(i) /\ i[1] > exposed)
    BY <1>1, <1>3, <2>1, <2>2 DEF Past
  <2>4. \A j \in Nat \X Nat : Past(j) => Past(j)'
    BY <1>1, <1>3, <2>1 DEF Past, doubts
  <2>5. \A q \in Requests : At(q, "spin")' => FALSE
    BY <1>2, <2>1 DEF At, Generated, Courses, Req
  <2>6. Counters'
    BY <1>1, <1>3, <2>1, <2>5 DEF Counters, doubts
  <2> QED
    BY <1>1, <1>3, <2>1, <2>2, <2>3, <2>4, <2>6, GeneratedFresh
<1> QED
  BY <1>4, <1>5, <1>6 DEF TakeID

LEMMA SpinStep ==
  ASSUME IInv, NEW p \in Requests, Spin(p)
  PROVE  IInv'
<1> USE DEF IInv
<1>1. /\ At(p, "spin") /\ clock > lastStamp /\ lastStamp' = clock /\ mutex' = Free
      /\ Generated(p, <<clock, sequence>>) /\ sequence' = sequence
      /\ UNCHANGED <<users, uidSeq, clock, seeding, tokens, doubts>>
  BY DEF Spin
<1>2. /\ clock \in Nat /\ lastStamp \in Nat /\ sequence \in Nat
      /\ exposed \in Nat
  BY AccountsAssumption DEF Counters
<1>0. PICK c \in Nat, n \in Nat : c = clock /\ n = sequence
  BY <1>2
<1> DEFINE i == <<c, n>>
<1>3. i \in Nat \X Nat /\ i = <<clock, sequence>> /\ i[1] = clock /\ i[2] = sequence
  BY <1>0
<1> HIDE DEF i
<1>4. Past(i)' /\ ~ (Past(i) /\ i[1] > exposed)
  BY <1>1, <1>2, <1>3 DEF Past
<1>5. \A j \in Nat \X Nat : Past(j) => Past(j)'
  BY <1>1, <1>2 DEF Past, doubts
<1>6. \A q \in Requests : At(q, "spin")' => FALSE
  <2>1. \A q \in Requests \ {p} : ~ At(q, "spin")
    BY <1>1 DEF Counters
  <2> QED
    BY <1>1, <2>1 DEF At, Generated, Courses, Req
<1>7. Counters'
  BY <1>1, <1>2, <1>6 DEF Counters, doubts
<1> QED
  BY <1>1, <1>2, <1>3, <1>4, <1>5, <1>7, GeneratedFresh

LEMMA TakeUIDStep ==
  ASSUME IInv, NEW p \in Requests, TakeUID(p)
  PROVE  IInv'
<1> USE DEF IInv, generator, doubts
<1>1. /\ At(p, "uid") /\ uidSeq' = uidSeq + 1
      /\ UNCHANGED <<users, clock, generator, seeding, tokens, doubts>>
  BY DEF TakeUID
<1>2. uidSeq \in Nat /\ uidSeq >= WhitelistMax /\ WhitelistMax \in Nat
  BY AccountsAssumption DEF Counters
<1> DEFINE e == [req[p] EXCEPT !.uid = uidSeq',
                               !.pc = IF req[p].kind = "legacy" THEN "update" ELSE "create"]
<1>3. /\ e \in Req /\ e.uid = uidSeq + 1 /\ e.kind = req[p].kind /\ e.name = req[p].name
      /\ e.id = req[p].id
      /\ e.pc = IF req[p].kind = "legacy" THEN "update" ELSE "create"
  <2>1. req[p] \in Req /\ uidSeq' \in Nat
    BY <1>1, <1>2 DEF Courses
  <2>2. (IF req[p].kind = "legacy" THEN "update" ELSE "create") \in Places
    BY DEF Places
  <2> QED
    BY <1>1, <2>1, <2>2 DEF Req
<1>4. req' = [req EXCEPT ![p] = e]
  BY DEF TakeUID, Courses
<1> HIDE DEF e
<1>5. /\ req' \in [Requests -> Req] /\ req'[p] = e
      /\ \A q \in Requests \ {p} : req'[q] = req[q]
  BY <1>3, <1>4, OneRequest
<1>6. Courses'
  BY <1>1, <1>3, <1>5 DEF Courses, Course, At
<1>7. Counters'
  BY <1>1, <1>2, <1>3, <1>5 DEF Counters, At
<1>8. \A q \in Requests : (HasID(q)' <=> HasID(q)) /\ (req[q].id)' = req[q].id
  BY <1>1, <1>3, <1>5 DEF HasID, At
<1>9. IDsFresh'
  BY <1>1, <1>8 DEF IDsFresh, Past
<1>10. \A q \in Requests \ {p} : HasUID(q)' <=> HasUID(q)
  BY <1>5 DEF HasUID, At
<1>11. UIDsFresh'
  <2>1. \A r \in users : r.uid \in Nat
    BY DEF Rows, User
  <2>2. \A q \in Requests : req[q].uid \in Nat
    BY DEF Courses, Req
  <2>3. \A r \in users : r.uid # uidSeq + 1 \/ uidSeq + 1 \in doubtful
    BY <1>2, <2>1 DEF UIDsFresh
  <2>4. \A q \in Requests \ {p} : HasUID(q) => req[q].uid # uidSeq + 1 \/ uidSeq + 1 \in doubtful
    BY <1>2, <2>2 DEF UIDsFresh
  <2>5. \A r \in users' : r.uid <= uidSeq' \/ r.uid \in doubtful'
    BY <1>1, <1>2, <2>1 DEF UIDsFresh
  <2>6. ASSUME NEW q \in Requests, HasUID(q)'
        PROVE  /\ (req[q].uid)' > WhitelistMax
               /\ (req[q].uid)' <= uidSeq' \/ (req[q].uid)' \in doubtful'
               /\ (req[q].uid)' \notin doubtful' =>
                    /\ \A r \in users' : r.uid # (req[q].uid)'
                    /\ \A s \in Requests \ {q} : HasUID(s)' => (req[s].uid)' # (req[q].uid)'
    <3>1. CASE q = p
      BY <1>1, <1>2, <1>3, <1>5, <1>10, <2>3, <2>4, <3>1
    <3>2. CASE q # p
      <4>1. HasUID(q) /\ req'[q] = req[q]
        BY <1>5, <1>10, <2>6, <3>2
      <4>2. req[q].uid > WhitelistMax /\ (req[q].uid <= uidSeq' \/ req[q].uid \in doubtful)
        BY <1>1, <1>2, <2>2, <4>1 DEF UIDsFresh
      <4>3. req[q].uid \notin doubtful =>
              \A s \in Requests \ {q} : HasUID(s)' => (req[s].uid)' # req[q].uid
        BY <1>3, <1>5, <1>10, <2>4, <3>2, <4>1 DEF UIDsFresh
      <4> QED
        BY <1>1, <4>1, <4>2, <4>3 DEF UIDsFresh
    <3> QED
      BY <3>1, <3>2
  <2> QED
    BY <2>5, <2>6 DEF UIDsFresh
<1> QED
  BY <1>1, <1>6, <1>7, <1>9, <1>11 DEF Rows, Tokens, Named, Own

-----------------------------------------------------------------------------
(* Steps that write rows.                                                  *)

LEMMA CreateStep ==
  ASSUME IInv, NEW p \in Requests, Create(p)
  PROVE  IInv'
<1> USE DEF IInv
<1> DEFINE row == Row(p)
<1>1. /\ At(p, "create") /\ Finish(p)
      /\ UNCHANGED <<uidSeq, clock, generator, seeding, doubts>>
  BY DEF Create
<1>2. CASE Clash(row) # {}
  <2>1. UNCHANGED <<users, tokens>>
    BY <1>2 DEF Create
  <2>2. ~ At(p, "spin")
    BY <1>1 DEF At
  <2> QED
    BY <1>1, <2>1, <2>2, Finishes
<1>3. CASE Clash(row) = {}
  <2>1. users' = users \cup {row}
    BY <1>3 DEF Create
  <2>2. tokens' = tokens \/ tokens' = tokens \cup {[uid |-> row.uid, id |-> row.id]}
    BY <1>3 DEF Create, Answer, Issue, Row
  <2>3. /\ req[p] \in Req /\ req[p].kind # "legacy" /\ req[p].name \in Names
        /\ req[p].kind # "register" => req[p].uid \in Whitelist
    BY <1>1 DEF Courses, Course
  <2>4. /\ row \in User /\ row.id = req[p].id /\ row.uid = req[p].uid
        /\ row.uid \notin Whitelist => row.profile = row.id
    BY <2>3 DEF Row, User, Req
  <2>5. \A s \in users : s.id # row.id /\ s.uid # row.uid /\ s.name # row.name
    BY <1>3 DEF Clash
  <2> HIDE DEF row
  <2>6. req' = [req EXCEPT ![p] = Idle]
    BY <1>1 DEF Finish
  <2>7. /\ req' \in [Requests -> Req] /\ req'[p] = Idle
        /\ \A q \in Requests \ {p} : req'[q] = req[q]
    BY <2>6, OneRequest, IdleIsReq
  <2>8. Idle.pc = "idle"
    BY IdleIsReq
  <2>9. /\ row.uid \in Nat \ {0} /\ row.id \in Nat \X Nat
        /\ req[p].kind # "register" => row.uid <= WhitelistMax
    <3>1. req[p].kind = "register" => HasUID(p)
      BY <1>1 DEF HasUID
    <3> QED
      BY <2>3, <2>4, <3>1, AccountsAssumption DEF UIDsFresh, User
  <2>10. Rows'
    <3>1. users' \subseteq User
      BY <2>1, <2>4 DEF Rows
    <3>2. \A r, s \in users' : r.id = s.id \/ r.uid = s.uid \/ r.name = s.name => r = s
      BY <2>1, <2>5 DEF Rows
    <3>3. PICK b \in Nat : \A r \in users : r.uid <= b
      BY DEF Rows
    <3>4. b + row.uid \in Nat /\ \A r \in users' : r.uid <= b + row.uid
      BY <2>1, <2>9, <3>1, <3>3 DEF User
    <3> QED
      BY <3>1, <3>2, <3>4 DEF Rows
  <2>11. Courses'
    BY <2>1, <2>7, <2>8 DEF Courses, Course, At
  <2>12. Counters'
    BY <1>1, <2>7, <2>8 DEF Counters, At, generator, doubts
  <2>13. Tokens'
    BY <2>2, <2>9 DEF Tokens
  <2>14. IDsFresh'
    <3>1. HasID(p)
      BY <1>1, <2>3 DEF HasID
    <3>2. \A q \in Requests : HasID(q)' => q # p /\ HasID(q) /\ req'[q] = req[q]
      BY <2>7, <2>8 DEF HasID, At
    <3>3. \A i \in Nat \X Nat : Past(i)' <=> Past(i)
      BY <1>1 DEF Past, generator, doubts
    <3>4. Past(row.id) /\ \A r \in users : Past(r.id)
      BY <2>4, <3>1 DEF IDsFresh
    <3>5. \A r \in users' : Past(r.id)'
      BY <1>1, <2>1, <3>4 DEF Past, generator, doubts
    <3>6. ASSUME NEW q \in Requests, HasID(q)'
          PROVE  /\ Past(req[q].id)'
                 /\ (req[q].id)'[1] > exposed' =>
                      /\ \A r \in users' : r.id # (req[q].id)'
                      /\ \A s \in Requests \ {q} : HasID(s)' => (req[s].id)' # (req[q].id)'
      <4>1. q # p /\ HasID(q) /\ req'[q] = req[q]
        BY <3>2, <3>6
      <4>2. Past(req[q].id)'
        BY <1>1, <4>1 DEF Past, generator, doubts, IDsFresh
      <4>3. ASSUME (req[q].id)'[1] > exposed'
            PROVE  /\ \A r \in users' : r.id # (req[q].id)'
                   /\ \A s \in Requests \ {q} : HasID(s)' => (req[s].id)' # (req[q].id)'
        <5>1. /\ \A r \in users : r.id # req[q].id
              /\ \A s \in Requests \ {q} : HasID(s) => req[s].id # req[q].id
          BY <1>1, <4>1, <4>3 DEF IDsFresh, doubts
        <5> QED
          BY <2>1, <2>4, <3>1, <3>2, <4>1, <5>1
      <4> QED
        BY <4>2, <4>3
    <3> QED
      BY <3>5, <3>6 DEF IDsFresh
  <2>15. UIDsFresh'
    <3>1. req[p].kind = "register" => HasUID(p)
      BY <1>1 DEF HasUID
    <3>2. \A q \in Requests : HasUID(q)' => q # p /\ HasUID(q) /\ req'[q] = req[q]
      BY <2>7, <2>8 DEF HasUID, At
    <3>3. row.uid <= uidSeq \/ row.uid \in doubtful
      BY <2>4, <2>9, <3>1, AccountsAssumption DEF UIDsFresh, Counters
    <3>4. \A q \in Requests : HasUID(q)' /\ req[q].uid \notin doubtful => row.uid # req[q].uid
      <4>1. CASE req[p].kind = "register"
        BY <2>4, <3>1, <3>2, <4>1 DEF UIDsFresh
      <4>2. CASE req[p].kind # "register"
        BY <2>9, <3>2, <4>2, AccountsAssumption DEF UIDsFresh
      <4> QED
        BY <4>1, <4>2
    <3> QED
      BY <1>1, <2>1, <3>2, <3>3, <3>4 DEF UIDsFresh, doubts
  <2>16. Named'
    <3>1. ASSUME NEW t \in tokens', t.id \notin raced'
          PROVE  /\ \E r \in users' : r.uid = t.uid /\ r.id = t.id
                 /\ \A r \in users' : r.uid = t.uid => r.id = t.id
      <4>1. CASE t \in tokens
        BY <1>1, <2>1, <2>5, <3>1, <4>1 DEF Named, doubts
      <4>2. CASE t = [uid |-> row.uid, id |-> row.id]
        BY <2>1, <2>5, <4>2
      <4> QED
        BY <2>2, <4>1, <4>2
    <3>2. \A r \in users' : Own(r)'
      BY <1>1, <2>1, <2>4 DEF Named, Own, doubts
    <3> QED
      BY <3>1, <3>2 DEF Named
  <2> QED
    BY <2>10, <2>11, <2>12, <2>13, <2>14, <2>15, <2>16
<1> QED
  BY <1>2, <1>3

LEMMA UpdateUIDStep ==
  ASSUME IInv, NEW p \in Requests, UpdateUID(p)
  PROVE  IInv'
<1> USE DEF IInv
<1> DEFINE i == req[p].id
           u == req[p].uid
           New(r) == IF r.id = i THEN [r EXCEPT !.uid = u] ELSE r
<1>1. /\ At(p, "update") /\ Finish(p)
      /\ UNCHANGED <<uidSeq, clock, generator, seeding, faults, exposed, doubtful>>
  BY DEF UpdateUID
<1>2. CASE UserByUID(u) # {}
  <2>1. UNCHANGED <<users, tokens, doubts>>
    BY <1>1, <1>2 DEF UpdateUID, doubts
  <2>2. ~ At(p, "spin")
    BY <1>1 DEF At
  <2> QED
    BY <1>1, <2>1, <2>2, Finishes
<1>3. CASE UserByUID(u) = {}
  <2>1. /\ users' = {New(r) : r \in users}
        /\ raced' = raced \cup {r.id : r \in {s \in users : s.id = i /\ s.uid # 0}}
        /\ tokens' = tokens \cup {[uid |-> u, id |-> i]}
    BY <1>1, <1>3 DEF UpdateUID, Answer, Issue, Courses, Course
  <2>2. /\ req[p] \in Req /\ req[p].kind = "legacy"
        /\ \E r \in users : r.id = i /\ r.uid \notin Whitelist
    BY <1>1 DEF Courses, Course
  <2>3. HasUID(p)
    BY <1>1 DEF HasUID
  <2>4. /\ i \in Nat \X Nat /\ u \in Nat \ {0}
        /\ u <= uidSeq \/ u \in doubtful
    BY <2>2, <2>3, AccountsAssumption DEF UIDsFresh, Req
  <2>5. \A r \in users : r.uid # u
    BY <1>3 DEF UserByUID
  <2>6. req' = [req EXCEPT ![p] = Idle]
    BY <1>1 DEF Finish
  <2>7. /\ req' \in [Requests -> Req] /\ req'[p] = Idle
        /\ \A q \in Requests \ {p} : req'[q] = req[q]
    BY <2>6, OneRequest, IdleIsReq
  <2>8. Idle.pc = "idle"
    BY IdleIsReq
  <2>9. \A r \in users :
          /\ New(r) \in User /\ New(r).id = r.id /\ New(r).name = r.name
          /\ New(r).profile = r.profile
          /\ New(r).uid = IF r.id = i THEN u ELSE r.uid
    BY <2>4 DEF Rows, User
  <2>10. \A r \in users : r.id # i => New(r) = r
    OBVIOUS
  <2>18. u \notin Whitelist
    BY <2>3, <2>4, AccountsAssumption DEF UIDsFresh
  <2>19. \A r \in users : r.id = i => r.uid \notin Whitelist
    BY <2>2 DEF Rows
  <2> HIDE DEF i, u, New
  <2>11. Rows'
    <3>1. users' \subseteq User
      BY <2>1, <2>9
    <3>2. ASSUME NEW r \in users, NEW s \in users,
                 New(r).id = New(s).id \/ New(r).uid = New(s).uid \/ New(r).name = New(s).name
          PROVE  New(r) = New(s)
      BY <2>5, <2>9, <3>2 DEF Rows
    <3>3. \A r, s \in users' : r.id = s.id \/ r.uid = s.uid \/ r.name = s.name => r = s
      BY <2>1, <3>2
    <3>4. PICK b \in Nat : \A r \in users : r.uid <= b
      BY DEF Rows
    <3>5. \A r \in users : r.uid \in Nat
      BY DEF Rows, User
    <3>6. b + u \in Nat /\ \A r \in users : New(r).uid <= b + u
      BY <2>4, <2>9, <3>4, <3>5
    <3>7. \A r \in users' : r.uid <= b + u
      BY <2>1, <3>6
    <3> QED
      BY <3>1, <3>3, <3>6, <3>7 DEF Rows
  <2>12. Courses'
    <3>1. \A r \in users : r.uid \notin Whitelist => \E s \in users' : s.id = r.id /\ s.uid \notin Whitelist
      BY <2>1, <2>9, <2>18
    <3> QED
      BY <2>7, <2>8, <3>1 DEF Courses, Course, At
  <2>13. Counters'
    BY <1>1, <2>7, <2>8 DEF Counters, At, generator
  <2>14. Tokens'
    BY <2>1, <2>4 DEF Tokens
  <2>15. IDsFresh'
    <3>1. \A q \in Requests : HasID(q)' => HasID(q) /\ req'[q] = req[q]
      BY <2>7, <2>8 DEF HasID, At
    <3>2. \A r \in users' : \E s \in users : r.id = s.id
      BY <2>1, <2>9
    <3> QED
      BY <1>1, <3>1, <3>2 DEF IDsFresh, Past, generator
  <2>16. UIDsFresh'
    <3>1. \A q \in Requests : HasUID(q)' => q # p /\ HasUID(q) /\ req'[q] = req[q]
      BY <2>7, <2>8 DEF HasUID, At
    <3>2. \A r \in users' : r.uid = u \/ \E s \in users : r.uid = s.uid
      BY <2>1, <2>9
    <3>3. \A q \in Requests : HasUID(q)' /\ req[q].uid \notin doubtful => req[q].uid # u
      BY <2>3, <3>1 DEF UIDsFresh, u
    <3> QED
      BY <1>1, <2>4, <3>1, <3>2, <3>3 DEF UIDsFresh
  <2>17. Named'
    <3>1. ASSUME NEW t \in tokens', t.id \notin raced'
          PROVE  /\ \E r \in users' : r.uid = t.uid /\ r.id = t.id
                 /\ \A r \in users' : r.uid = t.uid => r.id = t.id
      <4>1. CASE t \in tokens
        <5>1. t.uid # 0 /\ t.id \notin raced
          BY <2>1, <3>1, <4>1 DEF Tokens
        <5>2. PICK r \in users : r.uid = t.uid /\ r.id = t.id
          BY <4>1, <5>1 DEF Named
        <5>3. r.id # i
          BY <2>1, <3>1, <5>1, <5>2
        <5>4. r \in users'
          BY <2>1, <2>10, <5>3
        <5>5. \A s \in users : s.uid = t.uid => s.id = t.id
          BY <4>1, <5>1 DEF Named
        <5>6. ASSUME NEW s \in users, New(s).uid = t.uid
              PROVE  New(s).id = t.id
          BY <2>5, <2>9, <5>2, <5>5, <5>6
        <5> QED
          BY <2>1, <5>2, <5>4, <5>6
      <4>2. CASE t = [uid |-> u, id |-> i]
        <5>1. PICK r \in users : r.id = i
          BY <2>2 DEF i
        <5>2. New(r) \in users' /\ New(r).uid = u /\ New(r).id = i
          BY <2>1, <2>9, <5>1
        <5>3. \A s \in users : New(s).uid = u => New(s).id = i
          BY <2>5, <2>9
        <5> QED
          BY <2>1, <4>2, <5>2, <5>3
      <4> QED
        BY <2>1, <4>1, <4>2
    <3>2. \A r \in users : New(r).uid \notin Whitelist => New(r).profile = New(r).id \/ New(r).profile \in raced'
      BY <2>1, <2>9, <2>19 DEF Named, Own
    <3>3. \A r \in users' : Own(r)'
      BY <2>1, <3>2 DEF Own
    <3> QED
      BY <3>1, <3>3 DEF Named
  <2> QED
    BY <2>11, <2>12, <2>13, <2>14, <2>15, <2>16, <2>17
<1> QED
  BY <1>2, <1>3

LEMMA UpdateProfileStep ==
  ASSUME IInv, NEW by, NEW u, UpdateProfile(by, u)
  PROVE  IInv'
<1> USE DEF IInv
<1> DEFINE New(r) == IF r.uid = u THEN [r EXCEPT !.profile = by] ELSE r
<1>1. /\ users' = {New(r) : r \in users}
      /\ UNCHANGED <<uidSeq, clock, generator, req, seeding, tokens, doubts>>
  BY DEF UpdateProfile
<1>2. by \in (Nat \X Nat) \cup {Anyone}
  BY DEF UpdateProfile, Authorized, Tokens
<1>3. \A r \in users :
        /\ New(r) \in User /\ New(r).id = r.id /\ New(r).name = r.name /\ New(r).uid = r.uid
        /\ New(r).profile = IF r.uid = u THEN by ELSE r.profile
  BY <1>2 DEF Rows, User
<1> HIDE DEF New
<1>4. Rows'
  <2>1. users' \subseteq User
    BY <1>1, <1>3
  <2>2. ASSUME NEW r \in users, NEW s \in users,
               New(r).id = New(s).id \/ New(r).uid = New(s).uid \/ New(r).name = New(s).name
        PROVE  New(r) = New(s)
    BY <1>3, <2>2 DEF Rows
  <2>3. \A r, s \in users' : r.id = s.id \/ r.uid = s.uid \/ r.name = s.name => r = s
    BY <1>1, <2>2
  <2>4. \A r \in users' : \E s \in users : r.uid = s.uid
    BY <1>1, <1>3
  <2> QED
    BY <2>1, <2>3, <2>4 DEF Rows
<1>5. /\ \A r \in users' : \E s \in users : r.id = s.id /\ r.uid = s.uid
      /\ \A s \in users : \E r \in users' : r.id = s.id /\ r.uid = s.uid
  BY <1>1, <1>3
<1>6. Courses'
  BY <1>1, <1>5 DEF Courses, Course, At
<1>7. Counters' /\ Tokens'
  BY <1>1 DEF Counters, Tokens, At, generator, doubts
<1>8. IDsFresh'
  BY <1>1, <1>5 DEF IDsFresh, Past, HasID, At, generator, doubts
<1>9. UIDsFresh'
  BY <1>1, <1>5 DEF UIDsFresh, HasUID, At, doubts
<1>10. Named'
  <2>1. ASSUME NEW r \in users, r.uid \notin Whitelist
        PROVE  New(r).profile = New(r).id \/ New(r).profile \in raced
    <3>1. CASE r.uid # u
      BY <1>3, <2>1, <3>1 DEF Named, Own
    <3>2. CASE r.uid = u
      <4>1. [uid |-> u, id |-> by] \in tokens
        BY <2>1, <3>2 DEF UpdateProfile, Authorized
      <4>2. by \notin raced => r.id = by
        BY <3>2, <4>1 DEF Named
      <4> QED
        BY <1>3, <3>2, <4>2
    <3> QED
      BY <3>1, <3>2
  <2>2. \A r \in users' : Own(r)'
    BY <1>1, <1>3, <2>1 DEF Own, doubts
  <2> QED
    BY <1>1, <1>5, <2>2 DEF Named, doubts
<1> QED
  BY <1>4, <1>6, <1>7, <1>8, <1>9, <1>10

\* The seeding tool takes the next UID of the whitelist.
LEMMA SeedUserStep ==
  ASSUME IInv, SeedUser
  PROVE  IInv'
<1> USE DEF IInv
<1> DEFINE w == Min(seeding)
           others == {r \in users : r.uid # w}
           Kept(r) == [r EXCEPT !.name = SeedName(w), !.profile = Anyone]
           kept == {Kept(r) : r \in UserByUID(w)}
           row == [id |-> <<0, w>>, uid |-> w, name |-> SeedName(w), profile |-> Anyone]
<1>1. /\ seeding # {} /\ UNCHANGED <<uidSeq, clock, generator, req, tokens, doubts>>
  BY DEF SeedUser
<1>2. w \in Whitelist /\ w \in Nat \ {0} /\ w <= WhitelistMax
  <2>1. seeding \subseteq Nat
    BY AccountsAssumption DEF Counters
  <2>2. w \in seeding
    BY <1>1, <2>1, MinChosen
  <2> HIDE DEF w
  <2>3. w \in Whitelist
    BY <2>2 DEF Counters
  <2> QED
    BY <2>3, AccountsAssumption
<1>3. SeedName(w) \in Names
  BY <1>2 DEF Names
<1>4. seeding' \subseteq Whitelist
  BY DEF SeedUser, Counters
<1>5. Counters' /\ Tokens'
  BY <1>1, <1>4 DEF Counters, Tokens, At, generator, doubts
<1>6. CASE \E r \in others : r.name = SeedName(w) \/ r.id = <<0, w>>
  <2>1. users' = users
    BY <1>6 DEF SeedUser
  <2> QED
    BY <1>1, <1>5, <2>1 DEF Rows, Courses, Course, At, IDsFresh, Past, HasID, UIDsFresh, HasUID,
         Named, Own, generator, doubts
<1>7. CASE ~ \E r \in others : r.name = SeedName(w) \/ r.id = <<0, w>>
  <2>1. users' = others \cup (IF kept = {} THEN {row} ELSE kept)
    BY <1>7 DEF SeedUser
  <2>2. /\ row \in User /\ row.id = <<0, w>> /\ row.uid = w /\ row.name = SeedName(w)
        /\ row.profile = Anyone
    BY <1>2, <1>3 DEF User
  <2>3. \A r \in UserByUID(w) :
          /\ r \in users /\ r.uid = w
          /\ Kept(r) \in User
          /\ Kept(r).id = r.id
          /\ Kept(r).uid = w
          /\ Kept(r).name = SeedName(w)
          /\ Kept(r).profile = Anyone
    BY <1>2, <1>3 DEF UserByUID, Rows, User
  \* A row afterwards is another user's, or made from the row of this user, or
  \* new.
  <2>4. ASSUME NEW r \in users'
        PROVE  /\ r \in User
               /\ \/ r \in users /\ r.uid # w
                  \/ /\ r.uid = w /\ r.name = SeedName(w)
                     /\ r.profile = Anyone /\ \E s \in users : s.uid = w /\ r.id = s.id
                  \/ r = row /\ UserByUID(w) = {}
    <3>1. CASE r \in others
      BY <3>1 DEF Rows
    <3>2. CASE r \in kept
      BY <2>3, <3>2
    <3>3. CASE kept = {} /\ r = row
      BY <2>2, <3>3
    <3> QED
      BY <2>1, <3>1, <3>2, <3>3
  \* Every ID is there afterwards, with its UID.
  <2>5. ASSUME NEW s \in users
        PROVE  \E r \in users' : r.id = s.id /\ r.uid = s.uid
    <3>1. CASE s.uid # w
      BY <2>1, <3>1
    <3>2. CASE s.uid = w
      <4>1. s \in UserByUID(w)
        BY <3>2 DEF UserByUID
      <4>2. Kept(s) \in kept
        BY <4>1
      <4>3. Kept(s) \in users'
        BY <2>1, <4>2
      <4> QED
        BY <2>3, <3>2, <4>1, <4>3
    <3> QED
      BY <3>1, <3>2
  <2>6. \A s \in users : s.uid # w => s.name # SeedName(w) /\ s.id # <<0, w>>
    BY <1>7
  <2>7. \A s \in users : UserByUID(w) = {} => s.uid # w
    BY DEF UserByUID
  <2> HIDE DEF w, others, kept, row
  <2>8. Rows'
    <3>1. users' \subseteq User
      BY <2>4
    <3>2. ASSUME NEW r \in users', NEW s \in users',
                 r.id = s.id \/ r.uid = s.uid \/ r.name = s.name
          PROVE  r = s
      <4>1. r.uid = s.uid
        <5>1. CASE r.uid # w /\ s.uid # w
          BY <2>2, <2>4, <3>2, <5>1 DEF Rows
        <5>2. CASE r.uid = w /\ s.uid # w
          BY <2>2, <2>4, <2>6, <3>2, <5>2 DEF Rows
        <5>3. CASE r.uid # w /\ s.uid = w
          BY <2>2, <2>4, <2>6, <3>2, <5>3 DEF Rows
        <5>4. CASE r.uid = w /\ s.uid = w
          BY <5>4
        <5> QED
          BY <5>1, <5>2, <5>3, <5>4
      <4>2. CASE r.uid # w
        BY <2>2, <2>4, <4>1, <4>2 DEF Rows
      <4>3. CASE r.uid = w
        <5>1. r.id = s.id /\ r.name = s.name /\ r.profile = s.profile
          BY <2>2, <2>4, <2>7, <4>1, <4>3 DEF Rows
        <5> QED
          BY <2>4, <4>1, <5>1 DEF User
      <4> QED
        BY <4>2, <4>3
    <3>3. PICK b \in Nat : \A r \in users : r.uid <= b
      BY DEF Rows
    <3>4. \A r \in users : r.uid \in Nat
      BY DEF Rows, User
    <3>5. b + w \in Nat /\ \A r \in users' : r.uid <= b + w
      BY <1>2, <2>2, <2>4, <3>3, <3>4
    <3> QED
      BY <3>1, <3>2, <3>5 DEF Rows
  <2>9. Courses'
    BY <1>1, <2>5 DEF Courses, Course, At
  <2>10. IDsFresh'
    <3>1. ASSUME NEW r \in users'
          PROVE  r.id[1] <= exposed \/ \E s \in users : r.id = s.id
      BY <1>2, <2>2, <2>4 DEF row, Counters
    <3>2. \A r \in users' : Past(r.id)'
      BY <1>1, <3>1 DEF IDsFresh, Past, generator, doubts
    <3>3. \A i \in Nat \X Nat : i[1] \in Nat
      OBVIOUS
    <3>4. \A q \in Requests : req[q].id[1] \in Nat
      BY <3>3 DEF Courses, Req
    <3>5. exposed \in Nat
      BY DEF Counters
    <3>6. ASSUME NEW q \in Requests, HasID(q), req[q].id[1] > exposed, NEW r \in users'
          PROVE  r.id # req[q].id
      BY <3>1, <3>4, <3>5, <3>6 DEF IDsFresh
    <3> QED
      BY <1>1, <3>2, <3>6 DEF IDsFresh, Past, HasID, At, generator, doubts
  <2>11. UIDsFresh'
    <3>1. \A r \in users' : r.uid = w \/ \E s \in users : r.uid = s.uid
      BY <2>2, <2>4
    <3>2. w <= uidSeq
      BY <1>2, AccountsAssumption DEF Counters
    <3>3. \A q \in Requests : HasUID(q) => req[q].uid # w
      BY <1>2, AccountsAssumption DEF UIDsFresh
    <3> QED
      BY <1>1, <3>1, <3>2, <3>3 DEF UIDsFresh, HasUID, At, doubts
  <2>12. Named'
    <3>1. ASSUME NEW t \in tokens, t.id \notin raced
          PROVE  /\ \E r \in users' : r.uid = t.uid /\ r.id = t.id
                 /\ \A r \in users' : r.uid = t.uid => r.id = t.id
      <4>1. PICK s \in users : s.uid = t.uid /\ s.id = t.id
        BY <3>1 DEF Named
      <4>2. \A r \in users : r.uid = t.uid => r.id = t.id
        BY <3>1 DEF Named
      <4>3. \E r \in users' : r.uid = t.uid /\ r.id = t.id
        BY <2>5, <4>1
      <4>4. ASSUME NEW r \in users', r.uid = t.uid
            PROVE  r.id = t.id
        BY <2>2, <2>4, <2>7, <4>1, <4>2, <4>4
      <4> QED
        BY <4>3, <4>4
    <3>2. \A r \in users' : Own(r)'
      BY <1>1, <1>2, <2>2, <2>4 DEF Named, Own, doubts
    <3> QED
      BY <1>1, <3>1, <3>2 DEF Named, doubts
  <2> QED
    BY <1>5, <2>8, <2>9, <2>10, <2>11, <2>12
<1> QED
  BY <1>6, <1>7

-----------------------------------------------------------------------------
(* The world around the server.                                            *)

LEMMA ClockStep ==
  ASSUME IInv, Tick \/ StepBack
  PROVE  IInv'
<1>1. /\ UNCHANGED <<users, uidSeq, generator, req, seeding, tokens, exposed, doubtful, raced>>
      /\ clock' \in Nat /\ faults' \in 0 .. MaxFaults
  BY AccountsAssumption DEF IInv, Counters, Tick, StepBack, Fault, doubts
<1> QED
  BY <1>1 DEF IInv, Rows, Courses, Course, At, Counters, Tokens, IDsFresh, Past, HasID,
     UIDsFresh, HasUID, Named, Own, generator

LEMMA RestartStep ==
  ASSUME IInv, Restart
  PROVE  IInv'
<1> USE DEF IInv
<1>1. /\ req' = [p \in Requests |-> Idle]
      /\ lastStamp' = 0 /\ sequence' = 0 /\ mutex' = Free
      /\ exposed' = Max({exposed, lastStamp}) /\ uidSeq' = SyncedSequence
      /\ faults' \in 0 .. MaxFaults
      /\ UNCHANGED <<users, clock, seeding, tokens, doubtful, raced>>
  BY AccountsAssumption DEF Restart, Fault, Counters
<1>2. /\ uidSeq' \in Nat /\ uidSeq' >= WhitelistMax
      /\ \A r \in users : r.uid <= uidSeq'
  BY <1>1, SyncedAboveAll
<1>3. exposed' \in Nat /\ exposed' >= exposed /\ exposed' >= lastStamp
  <2> DEFINE S == {exposed, lastStamp}
  <2>1. exposed \in Nat /\ lastStamp \in Nat
    BY DEF Counters
  <2>2. S \subseteq Nat /\ S # {} /\ exposed + lastStamp \in Nat
        /\ \A y \in S : y <= exposed + lastStamp
    BY <2>1
  <2>3. exposed \in S /\ lastStamp \in S /\ exposed' = Max(S)
    BY <1>1
  <2> HIDE DEF S
  <2>4. Max(S) \in S /\ \A y \in S : y <= Max(S)
    BY <2>2, MaxChosen
  <2> QED
    BY <2>1, <2>2, <2>3, <2>4
<1>4. req' \in [Requests -> Req] /\ \A p \in Requests : req'[p].pc = "idle"
  BY <1>1, IdleIsReq
<1>5. Courses'
  BY <1>4 DEF Courses, Course, At
<1>6. Counters'
  BY <1>1, <1>2, <1>3, <1>4, AccountsAssumption DEF Counters, At
<1>7. IDsFresh'
  <2>1. \A i \in Nat \X Nat : i[1] \in Nat
    OBVIOUS
  <2>2. \A r \in users : r.id[1] \in Nat
    BY <2>1 DEF Rows, User
  <2>3. exposed \in Nat /\ lastStamp \in Nat
    BY DEF Counters
  <2>4. \A r \in users : r.id[1] <= exposed'
    BY <1>3, <2>2, <2>3 DEF IDsFresh, Past
  <2> QED
    BY <1>1, <1>4, <2>4 DEF IDsFresh, Past, HasID, At
<1>8. UIDsFresh'
  BY <1>1, <1>2, <1>4 DEF UIDsFresh, HasUID, At
<1>9. Rows' /\ Tokens' /\ Named'
  BY <1>1 DEF Rows, Tokens, Named, Own
<1> QED
  BY <1>5, <1>6, <1>7, <1>8, <1>9

LEMMA SeedStartStep ==
  ASSUME IInv, SeedStart
  PROVE  IInv'
<1> USE DEF IInv
<1>1. /\ uidSeq' = SyncedSequence /\ seeding' = Whitelist
      /\ doubtful' = doubtful \cup
           {req[p].uid : p \in {q \in Requests : req[q].pc \in {"create", "update"}}}
      /\ faults' \in 0 .. MaxFaults
      /\ UNCHANGED <<users, clock, generator, req, tokens, exposed, raced>>
  BY AccountsAssumption DEF SeedStart, Fault, Counters
<1>2. /\ uidSeq' \in Nat /\ uidSeq' >= WhitelistMax
      /\ \A r \in users : r.uid <= uidSeq'
  BY <1>1, SyncedAboveAll
<1>3. \A p \in Requests : HasUID(p) => req[p].uid \in doubtful'
  BY <1>1 DEF HasUID, At
<1>4. UIDsFresh'
  BY <1>1, <1>2, <1>3 DEF UIDsFresh, HasUID, At
<1>5. Counters'
  BY <1>1, <1>2 DEF Counters, At, generator
<1> QED
  BY <1>1, <1>4, <1>5 DEF Rows, Courses, Course, At, Tokens, IDsFresh, Past, HasID, Named, Own, generator

-----------------------------------------------------------------------------
(* The invariant holds of every state.                                     *)

LEMMA Initially == Init => IInv
<1> SUFFICES ASSUME Init PROVE IInv
  OBVIOUS
<1>1. \A p \in Requests : req[p].pc = "idle"
  BY IdleIsReq DEF Init
<1>2. req \in [Requests -> Req]
  BY IdleIsReq DEF Init
<1>3. \A r \in users :
        /\ r = [id |-> NoID, uid |-> 0, name |-> Legacy, profile |-> NoID]
        /\ r \in User /\ r.id[1] = 0 /\ r.uid = 0 /\ r.profile = r.id
  BY DEF Init, User, NoID, Names
<1>4. Rows
  BY <1>3 DEF Rows
<1>5. Courses
  BY <1>1, <1>2 DEF Courses, Course, At
<1>6. Counters
  BY <1>1, AccountsAssumption DEF Init, Counters, At
<1>7. IDsFresh
  BY <1>1, <1>3 DEF Init, IDsFresh, Past, HasID, At
<1>8. UIDsFresh
  BY <1>1, <1>3, AccountsAssumption DEF Init, UIDsFresh, HasUID, At
<1>9. Tokens /\ Named
  BY <1>3 DEF Init, Tokens, Named, Own
<1> QED
  BY <1>4, <1>5, <1>6, <1>7, <1>8, <1>9 DEF IInv

LEMMA Preserved == IInv /\ [Next]_vars => IInv'
<1> SUFFICES ASSUME IInv, [Next]_vars PROVE IInv'
  OBVIOUS
<1>1. ASSUME NEW p \in Requests, Arrive(p) PROVE IInv'
  BY <1>1, ArriveStep
<1>2. ASSUME NEW p \in Requests, Proceed(p) PROVE IInv'
  BY <1>2, TakeIDStep, SpinStep, TakeUIDStep, CreateStep, UpdateUIDStep DEF Proceed
<1>3. ASSUME NEW by, NEW u, UpdateProfile(by, u) PROVE IInv'
  BY <1>3, UpdateProfileStep
<1>4. CASE UNCHANGED vars
  BY <1>4 DEF vars, doubts, generator, IInv, Rows, Courses, Course, At, Counters, Tokens,
     IDsFresh, Past, HasID, UIDsFresh, HasUID, Named, Own
<1> QED
  BY <1>1, <1>2, <1>3, <1>4, FailStep, ClockStep, RestartStep, SeedStartStep, SeedUserStep DEF Next

LEMMA Invariant == Spec => []IInv
BY Initially, Preserved, PTL DEF Spec

-----------------------------------------------------------------------------
(* What it says.                                                           *)

\* Every variable of Accounts keeps its type, no two rows share an ID, a UID
\* or a name, and nobody holds the mutex of the generator but the request that
\* waits for the clock.
THEOREM TypeCorrect == Spec => []TypeOK
<1>1. IInv => TypeOK
  <2> SUFFICES ASSUME IInv PROVE TypeOK
    OBVIOUS
  <2>1. \A r \in users : Clash(r) = {r}
    BY DEF IInv, Rows, Clash
  <2>2. \A p \in Requests : req[p].pc \in Places
    BY DEF IInv, Courses, Req
  <2> QED
    BY <2>1, <2>2 DEF IInv, Rows, Counters, TypeOK, Places
<1> QED
  BY <1>1, Invariant, PTL

\* A token names the user it was issued for and nobody else, whatever else
\* registers, logs in, restarts or seeds, and nobody else writes the profile of a
\* user outside the whitelist: loginProtobuf, Register, EnsureWhitelistUser,
\* AuthMiddleware, UpdateProfile and upsertUsers together.
THEOREM TokensKeepTheirUser == Spec => []TokenNamesItsUser
<1>1. IInv => TokenNamesItsUser
  <2> SUFFICES ASSUME IInv PROVE TokenNamesItsUser
    OBVIOUS
  <2>1. ASSUME NEW t \in tokens, t.id \notin raced
        PROVE  {r.id : r \in UserByUID(t.uid)} = {t.id}
    BY <2>1 DEF IInv, Named, UserByUID
  <2> QED
    BY <2>1 DEF IInv, Named, Own, TokenNamesItsUser
<1> QED
  BY <1>1, Invariant, PTL

\* An insert that fails, which Register takes for a name in use, fails for the
\* name (or the whitelist user just made), and never for an ID of
\* nextSnowflakeID or a UID of nextUserUID, except as RefusedForTheName says.
THEOREM OnlyTheName == Spec => []RefusedForTheName
<1>1. IInv => RefusedForTheName
  <2> SUFFICES ASSUME IInv, NEW p \in Requests, At(p, "create"), Clash(Row(p)) # {},
                      ~ (req[p].id[1] <= exposed), req[p].uid \notin doubtful
               PROVE  \/ UserByName(req[p].name) # {}
                      \/ req[p].kind # "register" /\ UserByUID(req[p].uid) # {}
    BY DEF RefusedForTheName
  <2>1. PICK s \in users : s.id = req[p].id \/ s.uid = req[p].uid \/ s.name = req[p].name
    BY DEF Clash, Row
  <2>2. HasID(p) /\ (req[p].kind = "register" => HasUID(p))
    BY DEF HasID, HasUID, IInv, Courses, Course
  <2>3. s.id # req[p].id
    <3>1. req[p].id[1] > exposed
      <4>1. \A i \in Nat \X Nat : i[1] \in Nat
        OBVIOUS
      <4> QED
        BY <4>1 DEF IInv, Courses, Req, Counters
    <3> QED
      BY <2>2, <3>1 DEF IInv, IDsFresh
  <2>4. CASE s.uid = req[p].uid
    <3>1. req[p].kind # "register"
      BY <2>2, <2>4 DEF IInv, UIDsFresh
    <3> QED
      BY <2>4, <3>1 DEF UserByUID
  <2>5. CASE s.name = req[p].name
    BY <2>5 DEF UserByName
  <2> QED
    BY <2>1, <2>3, <2>4, <2>5
<1> QED
  BY <1>1, Invariant, PTL
=============================================================================
