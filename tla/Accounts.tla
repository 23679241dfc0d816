------------------------------- MODULE Accounts -------------------------------
(***************************************************************************)
(* Where the rows of users come from: Register, the two kinds of Login,    *)
(* the whitelist users that any request may bring into being, the UID      *)
(* sequence that every start of a process moves, the snowflake generator,  *)
(* and the seeding tool that runs next to the server.                      *)
(*                                                                         *)
(* A user's name stands for its username and its e-mail.  A snowflake ID   *)
(* is a pair <<stamp, sequence>>, so that a later stamp cannot be taken    *)
(* for a larger sequence; IDs with stamp 0 were not made by the generator. *)
(* Each statement commits by itself: no handler uses a transaction.        *)
(***************************************************************************)
EXTENDS Integers, FiniteSets, FiniteSetsExt

CONSTANTS Requests,       \* goroutines that serve HTTP requests
          People,         \* names that users register with
          Legacy,         \* the name of a row from before there were UIDs
          Whitelist,      \* UIDs that need no registration
          WhitelistMax,   \* the UID above which the sequence begins
          SequenceSize,   \* IDs per millisecond (4096 in the code)
          MaxClock,       \* bound: the time at which requests stop to arrive
          MaxUID,         \* bound: UIDs taken from the sequence
          MaxFaults,      \* bound: restarts, seedings, steps back of the
                          \* clock, statements that fail
          Anyone,         \* who writes a profile without a token: anybody in
                          \* a whitelist user's name, or the seeding tool
          Free, Nobody

ASSUME AccountsAssumption ==
  /\ WhitelistMax \in Nat /\ Whitelist \subseteq 1 .. WhitelistMax
  /\ SequenceSize \in Nat \ {0} /\ MaxClock \in Nat /\ MaxUID \in Nat /\ MaxFaults \in Nat
  /\ Free \notin Requests /\ Legacy \notin People

VARIABLES users,                      \* the table
          uidSeq,                     \* last value of user_uid_seq
          clock,                      \* milliseconds
          lastStamp, sequence, mutex, \* the snowflake generator
          req,                        \* what each request does
          seeding,                    \* UIDs the seeding tool has still to write
          tokens,                     \* history: [uid, id] a token was issued for
          faults,                     \* history: counts against MaxFaults
          exposed,     \* history: newest stamp issued before the last restart
          doubtful,    \* history: UIDs in flight when another process reset uidSeq
          raced        \* history: rows whose UID was overwritten by a second login

generator == <<lastStamp, sequence, mutex>>
doubts == <<faults, exposed, doubtful, raced>>
vars == <<users, uidSeq, clock, generator, req, seeding, tokens, doubts>>

\* The user that EnsureWhitelistUser makes is named after the UID's digits; it
\* is a name that somebody may register first.
Digits(w) == <<"digits", w>>
SeedName(w) == <<"seed", w>>
Names == People \cup {Legacy} \cup {Digits(w) : w \in Whitelist} \cup {SeedName(w) : w \in Whitelist}

NoID == <<0, 0>>
\* A row: its snowflake ID, its UID (0: none yet), its name, and the row whose
\* owner its profile is from, or Anyone.
User == [id : Nat \X Nat, uid : Nat, name : Names, profile : (Nat \X Nat) \cup {Anyone}]
Idle == [pc |-> "idle", kind |-> "register", name |-> Nobody, id |-> NoID, uid |-> 0]

At(p, place) == req[p].pc = place
Finish(p) == req' = [req EXCEPT ![p] = Idle]
Issue(u, i) == tokens' = tokens \cup {[uid |-> u, id |-> i]}

UserByUID(u) == {r \in users : r.uid = u}
UserByName(n) == {r \in users : r.name = n}

\* setval(GREATEST(MAX(uid), 20000000)), at the start of every process.
SyncedSequence == Max({r.uid : r \in users} \cup {WhitelistMax})

-----------------------------------------------------------------------------
(* Arrivals.                                                               *)

Open(p) == At(p, "idle") /\ clock <= MaxClock
InFlight == {p \in Requests : req[p].pc # "idle"}

\* Register, with the request checked and the password hashed.
Register(p, n) ==
  /\ Open(p) /\ uidSeq + Cardinality(InFlight) < MaxUID
  /\ req' = [req EXCEPT ![p] = [Idle EXCEPT !.pc = "id", !.name = n]]
  /\ UNCHANGED <<users, uidSeq, clock, generator, seeding, tokens, doubts>>

\* EnsureWhitelistUser for a UID of the whitelist, as far as the insert.
EnsureWhitelistUser(p, w, kind) ==
  /\ Open(p)
  /\ IF UserByUID(w) = {}
     THEN /\ req' = [req EXCEPT ![p] = [pc |-> "id", kind |-> kind, name |-> Digits(w),
                                        id |-> NoID, uid |-> w]]
          /\ UNCHANGED tokens
     ELSE /\ \E r \in UserByUID(w) :
               IF kind = "login" THEN Issue(w, r.id) ELSE UNCHANGED tokens
          /\ UNCHANGED req
  /\ UNCHANGED <<users, uidSeq, clock, generator, seeding, doubts>>

\* The login with a UID issues a token; GetCurrentUser and AuthMiddleware only
\* need the user to be there.
LoginByUID(p, w) == EnsureWhitelistUser(p, w, "login")
GetCurrentUser(p, w) == EnsureWhitelistUser(p, w, "visit")

\* The login with an e-mail, once the password has matched.  A row without a
\* UID gets one first.
LoginByEmail(p, n) ==
  /\ Open(p) /\ uidSeq + Cardinality(InFlight) < MaxUID
  /\ \E r \in UserByName(n) :
       IF r.uid # 0
       THEN Issue(r.uid, r.id) /\ UNCHANGED req
       ELSE /\ req' = [req EXCEPT ![p] = [Idle EXCEPT !.pc = "uid", !.kind = "legacy", !.id = r.id]]
            /\ UNCHANGED tokens
  /\ UNCHANGED <<users, uidSeq, clock, generator, seeding, doubts>>

\* AuthMiddleware lets in whoever was issued a token for the UID of the
\* request, and for a UID of the whitelist everybody, once EnsureWhitelistUser
\* has answered.  (A token for such a UID, which the WebSocket asks for, is had by
\* anybody as well: LoginByUID knows no password.)
Authorized(by, u) ==
  IF u \in Whitelist THEN by = Anyone /\ UserByUID(u) # {} ELSE [uid |-> u, id |-> by] \in tokens

\* UpdateProfile, over HTTP or over the WebSocket: the row with the UID of the
\* request gets the profile that its sender wants.  (profile says
\* whose wish it is; a registered row begins with its owner's.)
UpdateProfile(by, u) ==
  /\ Authorized(by, u)
  /\ users' = {IF r.uid = u THEN [r EXCEPT !.profile = by] ELSE r : r \in users}
  /\ UNCHANGED <<uidSeq, clock, generator, req, seeding, tokens, doubts>>

-----------------------------------------------------------------------------
(* nextSnowflakeID, under the generator's mutex.                           *)

\* The ID goes to p, which then needs a UID or has it already.
Generated(p, i) ==
  req' = [req EXCEPT ![p].id = i, ![p].pc = IF req[p].kind = "register" THEN "uid" ELSE "create"]

\* Mutant: the wrapped sequence is used at once.
SameStampWraps(p) ==
  /\ clock = lastStamp
  /\ sequence' = (sequence + 1) % SequenceSize
  /\ Generated(p, <<clock, sequence'>>)
  /\ UNCHANGED <<lastStamp, mutex>>

\* The clock has reached the last stamp again, or passed it.
SameStamp(p) ==
  /\ clock = lastStamp
  /\ sequence' = (sequence + 1) % SequenceSize
  /\ IF sequence' = 0
     THEN mutex' = p /\ req' = [req EXCEPT ![p].pc = "spin"]
     ELSE UNCHANGED mutex /\ Generated(p, <<clock, sequence'>>)
  /\ UNCHANGED lastStamp

NewStamp(p) ==
  /\ clock > lastStamp
  /\ sequence' = 0 /\ lastStamp' = clock /\ UNCHANGED mutex
  /\ Generated(p, <<clock, 0>>)

\* Mutant: the error path returns without unlocking.
TakeIDKeepsLock(p) ==
  /\ At(p, "id") /\ mutex = Free
  /\ \/ clock < lastStamp /\ Finish(p) /\ mutex' = p /\ UNCHANGED <<lastStamp, sequence>>
     \/ SameStamp(p) \/ NewStamp(p)
  /\ UNCHANGED <<users, uidSeq, clock, seeding, tokens, doubts>>

\* "clock moved backwards" is the one error.
TakeID(p) ==
  /\ At(p, "id") /\ mutex = Free
  /\ \/ clock < lastStamp /\ Finish(p) /\ UNCHANGED generator
     \/ SameStamp(p) \/ NewStamp(p)
  /\ UNCHANGED <<users, uidSeq, clock, seeding, tokens, doubts>>

\* The sequence is used up: sleep, with the mutex held, until the clock has
\* passed the last stamp.
Spin(p) ==
  /\ At(p, "spin") /\ clock > lastStamp
  /\ lastStamp' = clock /\ mutex' = Free
  /\ Generated(p, <<clock, sequence>>)
  /\ UNCHANGED <<users, uidSeq, clock, sequence, seeding, tokens, doubts>>

-----------------------------------------------------------------------------
(* nextUserUID, and the statements that write the row.                     *)

TakeUID(p) ==
  /\ At(p, "uid")
  /\ uidSeq' = uidSeq + 1
  /\ req' = [req EXCEPT ![p].uid = uidSeq',
                        ![p].pc = IF req[p].kind = "legacy" THEN "update" ELSE "create"]
  /\ UNCHANGED <<users, clock, generator, seeding, tokens, doubts>>

Row(p) == [id |-> req[p].id, uid |-> req[p].uid, name |-> req[p].name,
           profile |-> IF req[p].kind = "register" THEN req[p].id ELSE Anyone]

\* id, uid, username and email are unique.
Clash(r) == {s \in users : s.id = r.id \/ s.uid = r.uid \/ s.name = r.name}

\* The token once the row is written.  (If the answer is lost it is a token that
\* nobody uses.)
Answer(p) ==
  IF req[p].kind = "visit" THEN UNCHANGED tokens ELSE Issue(req[p].uid, req[p].id)

\* Mutant: a failed insert is taken for a user who is there already.
CreateAnyway(p) ==
  /\ At(p, "create")
  /\ users' = IF Clash(Row(p)) = {} THEN users \cup {Row(p)} ELSE users
  /\ Answer(p)
  /\ Finish(p)
  /\ UNCHANGED <<uidSeq, clock, generator, seeding, doubts>>

\* Register and EnsureWhitelistUser: the insert, and the answer after it.
Create(p) ==
  /\ At(p, "create")
  /\ IF Clash(Row(p)) = {}
     THEN users' = users \cup {Row(p)} /\ Answer(p)
     ELSE UNCHANGED <<users, tokens>>
  /\ Finish(p)
  /\ UNCHANGED <<uidSeq, clock, generator, seeding, doubts>>

\* The login of a legacy row writes the UID it took, whatever is there by now.
UpdateUID(p) ==
  /\ At(p, "update")
  /\ LET i == req[p].id
         u == req[p].uid
     IN  IF UserByUID(u) = {}
         THEN /\ users' = {IF r.id = i THEN [r EXCEPT !.uid = u] ELSE r : r \in users}
              /\ raced' = raced \cup {r.id : r \in {s \in users : s.id = i /\ s.uid # 0}}
              /\ Answer(p)
         ELSE UNCHANGED <<users, raced, tokens>>
  /\ Finish(p)
  /\ UNCHANGED <<uidSeq, clock, generator, seeding, faults, exposed, doubtful>>

-----------------------------------------------------------------------------
(* The world around the server.                                            *)

Tick ==
  /\ clock <= MaxClock \/ (mutex # Free /\ clock <= lastStamp)
  /\ clock' = clock + 1
  /\ UNCHANGED <<users, uidSeq, generator, req, seeding, tokens, doubts>>

Fault == faults < MaxFaults /\ faults' = faults + 1

StepBack ==
  /\ Fault /\ clock > 1
  /\ clock' = clock - 1
  /\ UNCHANGED <<users, uidSeq, generator, req, seeding, tokens, exposed, doubtful, raced>>

\* The process ends at any point, and starts again: main calls db.Init.
Restart ==
  /\ Fault
  /\ req' = [p \in Requests |-> Idle]
  /\ lastStamp' = 0 /\ sequence' = 0 /\ mutex' = Free
  /\ exposed' = Max({exposed, lastStamp})
  /\ uidSeq' = SyncedSequence
  /\ UNCHANGED <<users, clock, seeding, tokens, doubtful, raced>>

\* A statement fails for a reason of the database's own: nothing is written, and
\* the answer is an error (for an insert the one it would be for a clash).
Fail(p) ==
  /\ Fault /\ req[p].pc \in {"uid", "create", "update"}
  /\ Finish(p)
  /\ UNCHANGED <<users, uidSeq, clock, generator, seeding, tokens, exposed, doubtful, raced>>

\* cmd/seed_social_data begins: it calls db.Init as well.
SeedStart ==
  /\ Fault /\ seeding = {}
  /\ uidSeq' = SyncedSequence
  /\ doubtful' = doubtful \cup {req[p].uid : p \in {q \in Requests : req[q].pc \in {"create", "update"}}}
  /\ seeding' = Whitelist
  /\ UNCHANGED <<users, clock, generator, req, tokens, exposed, raced>>

\* upsertUsers, one user at a time: on a conflict of the UID the row keeps its
\* ID and gets the tool's name and profile (Anyone's: the tool has no token); any
\* other conflict ends the tool.
SeedUser ==
  /\ seeding # {}
  /\ LET w == Min(seeding)
         others == {r \in users : r.uid # w}
         kept == {[r EXCEPT !.name = SeedName(w), !.profile = Anyone] : r \in UserByUID(w)}
         row == [id |-> <<0, w>>, uid |-> w, name |-> SeedName(w), profile |-> Anyone]
     IN  IF \E r \in others : r.name = SeedName(w) \/ r.id = <<0, w>>
         THEN seeding' = {} /\ UNCHANGED users
         ELSE /\ users' = others \cup (IF kept = {} THEN {row} ELSE kept)
              /\ seeding' = seeding \ {w}
  /\ UNCHANGED <<uidSeq, clock, generator, req, tokens, doubts>>

-----------------------------------------------------------------------------
Init ==
  /\ users \in {{}, {[id |-> NoID, uid |-> 0, name |-> Legacy, profile |-> NoID]}}
  /\ uidSeq = WhitelistMax /\ clock = 1
  /\ lastStamp = 0 /\ sequence = 0 /\ mutex = Free
  /\ req = [p \in Requests |-> Idle]
  /\ seeding = {} /\ tokens = {}
  /\ faults = 0 /\ exposed = 0 /\ doubtful = {} /\ raced = {}

Arrive(p) ==
  \/ \E n \in People : Register(p, n)
  \/ \E n \in Names : LoginByEmail(p, n)
  \/ \E w \in Whitelist : LoginByUID(p, w) \/ GetCurrentUser(p, w)

Proceed(p) == TakeID(p) \/ Spin(p) \/ TakeUID(p) \/ Create(p) \/ UpdateUID(p)

Next ==
  \/ \E p \in Requests : Arrive(p) \/ Proceed(p) \/ Fail(p)
  \/ \E t \in tokens : UpdateProfile(t.id, t.uid)
  \/ \E u \in Whitelist : UpdateProfile(Anyone, u)
  \/ Tick \/ StepBack \/ Restart \/ SeedStart \/ SeedUser

Spec == Init /\ [][Next]_vars

(***************************************************************************)
(* Fairness.  A handler that can go on does (WF would do, but for the      *)
(* mutex, which a waiting goroutine may find taken again and again until   *)
(* it turns to its starvation mode: SF), and time passes.                  *)
(***************************************************************************)
FairSpec == Spec /\ WF_vars(Tick) /\ \A p \in Requests : SF_vars(Proceed(p))

-----------------------------------------------------------------------------
\* Every variable stays in its domain, the keys of users are unique, and the
\* mutex is held exactly by the request that waits for the clock.
TypeOK ==
  /\ users \subseteq User /\ \A r \in users : Clash(r) = {r}
  /\ uidSeq \in Nat /\ uidSeq >= WhitelistMax /\ clock \in Nat /\ lastStamp \in Nat
  /\ sequence \in 0 .. SequenceSize - 1
  /\ mutex = Free \/ At(mutex, "spin")
  /\ \A p \in Requests :
       /\ req[p].pc \in {"idle", "id", "spin", "uid", "create", "update"}
       /\ At(p, "spin") => mutex = p
  /\ seeding \subseteq Whitelist /\ faults \in 0 .. MaxFaults

\* "username or email already exists" is what Register answers to any failure
\* of its insert, and EnsureWhitelistUser has no second try.  If it is not the
\* database that fails (Fail), a row about to be inserted can be refused only
\* because its name is taken or, for a UID of the whitelist, because somebody
\* else just made that very user: the ID and the UID that the server made itself
\* are never at fault, but for an ID of a stamp the clock repeats after a
\* restart, and for a UID in flight while the seeding tool moved the sequence
\* back.
RefusedForTheName ==
  \A p \in Requests :
    At(p, "create") /\ Clash(Row(p)) # {}
    => \/ UserByName(req[p].name) # {}
       \/ req[p].kind # "register" /\ UserByUID(req[p].uid) # {}
       \/ req[p].id[1] <= exposed
       \/ req[p].uid \in doubtful

\* A token's UID names the row it was issued for and no other, for ever: no
\* restart, no seeding and no registration gives it to another user.  And nobody
\* else writes the profile of a user outside the whitelist (that of a whitelist
\* user is written by anybody, without a token, and by the seeding tool).  The
\* exception to both is a row whose first UID was overwritten by a concurrent
\* first login (AUTH-HTTP-001: "A subsequent login returns the same UID").
TokenNamesItsUser ==
  /\ \A t \in tokens : t.id \notin raced => {r.id : r \in UserByUID(t.uid)} = {t.id}
  /\ \A r \in users : r.uid \notin Whitelist => r.profile \in {r.id} \cup raced

\* Every request is answered, unless the process ends first: the wait for the
\* clock inside the mutex ends, and whoever queued for the mutex gets it.
RequestsEnd == \A p \in Requests : req[p].pc # "idle" ~> req[p].pc = "idle"
=============================================================================
