--------------------------- MODULE ConversationList ---------------------------
(***************************************************************************)
(* A client that reads a list which pages by time to its end: the          *)
(* conversations of a user, by updated_at, or the friends of a user, by    *)
(* created_at.  The database keeps the time in finer units than the        *)
(* milliseconds of the token, and the next page begins strictly before the *)
(* token.  Rows of the same time come in any order.  Meanwhile a message   *)
(* may be sent to a conversation, or a friendship be ended and made again, *)
(* which gives the row a later time.                                       *)
(*                                                                         *)
(* The conversations of a page are found by one statement and loaded, with *)
(* the time that becomes the token, by another: no transaction holds them  *)
(* together.  Friends are found and loaded by one statement.               *)
(***************************************************************************)
EXTENDS Naturals, Sequences, FiniteSets, FiniteSetsExt, SequencesExt

CONSTANTS Rows, MaxTime,   \* the rows, and the bound on their times
          Milli            \* time units of the database in a millisecond

ASSUME ConversationListAssumption ==
  IsFiniteSet(Rows) /\ MaxTime \in Nat /\ Milli \in Nat \ {0}

VARIABLES at,       \* the time of each row
          list,     \* which of the two lists is read
          size,     \* page size
          token,    \* token of the next page
          page,     \* the rows found for a page that is not answered yet
          last,     \* the time of the last of them, as it was found
          done,     \* there is no next page
          listed,   \* the rows that the client has got
          moved,    \* history: rows that moved since the first page was asked for
          edges,    \* history: tokens that the client has used
          slipped   \* history: a conversation at a page's end was loaded with a later
                    \* millisecond than it was found with

request == <<list, size>>
history == <<moved, edges, slipped>>
vars == <<at, request, token, page, last, done, listed, history>>

First == MaxTime + 1   \* larger than any token: the first page has none

InMilli(t) == t \div Milli

-----------------------------------------------------------------------------
\* The rows before the token.
Selected == {r \in Rows : at[r] < token * Milli}

\* Every page that ORDER BY time DESC with this LIMIT allows.
Pages ==
  LET orders == {s \in SetToSeqs(Selected) : \A i, j \in DOMAIN s : i < j => at[s[i]] >= at[s[j]]}
  IN  {SubSeq(s, 1, IF Len(s) < size THEN Len(s) ELSE size) : s \in orders}

\* The rows of a page; without any, the list is at its end.
Query ==
  /\ ~done /\ page = <<>>
  /\ \E found \in Pages :
       IF found = <<>> THEN done' = TRUE /\ UNCHANGED <<page, last>>
       ELSE page' = found /\ last' = at[Last(found)] /\ UNCHANGED done
  /\ UNCHANGED <<at, request, token, listed, history>>

\* The conversation list has a next page only after a full page, the list of
\* friends after every page that is not empty.
HasNext == list = "conversations" => Len(page) = size

\* Mutant: the token carries the time of the first row.
TokenOfFirst == InMilli(at[page[1]])

\* The time of the last row, in milliseconds: of a conversation as it is when
\* it is loaded, of a friend as it was found.
TokenOfLast == InMilli(IF list = "conversations" THEN at[Last(page)] ELSE last)

\* The rows are loaded and answered.
Answer ==
  /\ page # <<>>
  /\ listed' = listed \o page /\ page' = <<>>
  /\ IF HasNext
     THEN /\ token' = TokenOfLast /\ edges' = edges \cup {token'}
          /\ slipped' = \/ slipped
                        \/ list = "conversations" /\ InMilli(at[Last(page)]) # InMilli(last)
          /\ UNCHANGED done
     ELSE done' = TRUE /\ UNCHANGED <<token, edges, slipped>>
  /\ UNCHANGED <<at, request, last, moved>>

\* A row is written: its time is the present.  Only what happens after the
\* client's first statement matters.
Move(r) ==
  /\ (token # First \/ page # <<>>) /\ ~done /\ r \notin moved
  /\ \E now \in at[r] .. MaxTime : at' = [at EXCEPT ![r] = now]
  /\ moved' = moved \cup {r}
  /\ UNCHANGED <<request, token, page, last, done, listed, edges, slipped>>

-----------------------------------------------------------------------------
Init ==
  /\ at \in [Rows -> 0 .. MaxTime]
  /\ list \in {"conversations", "friends"} /\ size \in 1 .. Cardinality(Rows)
  /\ token = First /\ page = <<>> /\ last = 0 /\ done = FALSE
  /\ listed = <<>> /\ moved = {} /\ edges = {} /\ slipped = FALSE

Next == Query \/ Answer \/ \E r \in Rows : Move(r)

Spec == Init /\ [][Next]_vars

-----------------------------------------------------------------------------
\* A client that follows the tokens to the end misses only rows that moved and
\* rows that share their millisecond with the token of some page, that is with
\* its last row.  It gets no row twice, even one that moves while it reads,
\* unless a message went to the last conversation of a page between the
\* statement that found the page and the one that loaded it (in which case the
\* token is later than the page, and the next page has rows of it again).
ListMissesOnlyTies ==
  /\ ~slipped => IsInjective(listed)
  /\ done =>
       \A r \in Rows \ (Range(listed) \cup moved) : InMilli(at[r]) \in edges
=============================================================================
