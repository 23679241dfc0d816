------------------------ MODULE ConversationListProofs ------------------------
(***************************************************************************)
(* The proof that a client which reads a list that pages by time to its    *)
(* end misses only what moved and what shares the millisecond of a page's  *)
(* end, and gets no row twice unless a token slipped, for any rows, times  *)
(* and page sizes.                                                         *)
(***************************************************************************)
EXTENDS ConversationList, SequenceTheorems, FiniteSetTheorems, TLAPS

Typed ==
  /\ at \in [Rows -> 0 .. MaxTime] /\ size \in Nat \ {0} /\ token \in Nat
  /\ page \in Seq(Rows) /\ last \in Nat
  /\ listed \in Seq(Rows) /\ edges \subseteq Nat
  /\ list \in {"conversations", "friends"} /\ done \in BOOLEAN /\ slipped \in BOOLEAN

\* While the client reads on, what it has got is not before the token, if no
\* token slipped.
Above == ~done /\ ~slipped => \A i \in DOMAIN listed : token * Milli <= at[listed[i]]

\* And what it has not got, and has not moved, still is, or has the time of an edge.
Ahead ==
  ~done =>
    \A r \in Rows \ (Range(listed) \cup moved) : at[r] < token * Milli \/ InMilli(at[r]) \in edges

\* The page in hand has each row once, rows not before the time its last one was
\* found by, and, if no token slipped, none that the client has got.  What is
\* neither on it nor got nor moved is not after that time, and then the page is
\* full, or has the time of an edge.
InHand ==
  page # <<>> =>
    /\ ~done /\ IsInjective(page)
    /\ last < token * Milli
    /\ \A i \in DOMAIN page : last <= at[page[i]]
    /\ ~slipped => \A i \in DOMAIN listed : \A j \in DOMAIN page : listed[i] # page[j]
    /\ \A r \in Rows \ (Range(listed) \cup moved \cup Range(page)) :
         (Len(page) = size /\ at[r] <= last) \/ InMilli(at[r]) \in edges

IInv == Typed /\ Above /\ Ahead /\ InHand /\ ListMissesOnlyTies

-----------------------------------------------------------------------------
(* Times in milliseconds.                                                  *)

LEMMA Floor ==
  ASSUME NEW t \in Nat
  PROVE  InMilli(t) \in Nat /\ InMilli(t) * Milli <= t /\ t < (InMilli(t) + 1) * Milli
<1>1. Milli \in Nat /\ Milli > 0
  BY ConversationListAssumption
<1>2. t \div Milli \in Nat
  BY <1>1
<1>3. (t \div Milli) * Milli <= t
  BY <1>1
<1>4. t < ((t \div Milli) + 1) * Milli
  BY <1>1
<1> QED BY <1>2, <1>3, <1>4 DEF InMilli

\* What is not later in time is earlier in milliseconds, or in the same.
LEMMA Earlier ==
  ASSUME NEW s \in Nat, NEW t \in Nat, s <= t
  PROVE  InMilli(s) = InMilli(t) \/ s < InMilli(t) * Milli
<1>1. Milli \in Nat \ {0}
  BY ConversationListAssumption
<1>2. /\ InMilli(s) \in Nat /\ InMilli(s) * Milli <= s /\ s < (InMilli(s) + 1) * Milli
      /\ InMilli(t) \in Nat /\ t < (InMilli(t) + 1) * Milli
  BY Floor
<1>3. CASE InMilli(s) >= InMilli(t) + 1
  <2>1. (InMilli(t) + 1) * Milli <= InMilli(s) * Milli
    BY <1>1, <1>2, <1>3
  <2> QED BY <1>1, <1>2, <2>1
<1>4. CASE InMilli(s) + 1 <= InMilli(t)
  <2>1. (InMilli(s) + 1) * Milli <= InMilli(t) * Milli
    BY <1>1, <1>2, <1>4
  <2> QED BY <1>1, <1>2, <2>1
<1> QED BY <1>2, <1>3, <1>4

-----------------------------------------------------------------------------
(* Pages.                                                                  *)

\* A page is of rows before the token, in the order of time and each once; what
\* is before the token and not on it made the page full.
LEMMA PageIs ==
  ASSUME Typed, NEW found \in Pages
  PROVE  /\ found \in Seq(Selected) /\ Len(found) <= size /\ IsInjective(found)
         /\ \A i, j \in DOMAIN found : i < j => at[found[i]] >= at[found[j]]
         /\ \A r \in Selected \ Range(found) :
              Len(found) = size /\ at[r] <= at[found[Len(found)]]
<1>1. PICK s \in SetToSeqs(Selected) :
             /\ \A i, j \in DOMAIN s : i < j => at[s[i]] >= at[s[j]]
             /\ found = SubSeq(s, 1, IF Len(s) < size THEN Len(s) ELSE size)
  BY DEF Pages
<1> DEFINE n == Cardinality(Selected)
           m == IF n < size THEN n ELSE size
<1>2. IsFiniteSet(Selected) /\ n \in Nat
  BY ConversationListAssumption, FS_Subset, FS_CardinalityType DEF Selected
<1>3. s \in [1 .. n -> Selected] /\ \A i, j \in 1 .. n : i # j => s[i] # s[j]
  BY <1>1 DEF SetToSeqs
<1>4. s \in Seq(Selected) /\ Len(s) = n
  BY <1>2, <1>3, LenProperties, SeqDef
<1>5. \A r \in Selected : \E i \in 1 .. n : s[i] = r
  <2>1. s \in Injection(1 .. n, Selected)
    BY <1>3 DEF Injection, IsInjective
  <2>2. Cardinality(1 .. n) = n
    BY <1>2, FS_Interval
  <2>3. s \in Surjection(1 .. n, Selected)
    BY <1>2, <2>1, <2>2, FS_Injection
  <2> QED BY <2>3 DEF Surjection
<1>6. m \in 0 .. n /\ m <= size /\ (m < n => m = size /\ m >= 1)
  BY <1>2 DEF Typed
<1>7. found = SubSeq(s, 1, m)
  BY <1>1, <1>4
<1>8. found \in Seq(Selected) /\ Len(found) = m /\ \A i \in 1 .. m : found[i] = s[i]
  <2>1. 1 \in Nat /\ m \in Nat
    BY <1>2, <1>6
  <2> HIDE DEF m
  <2> QED BY <1>2, <1>4, <1>6, <1>7, <2>1
<1>9. DOMAIN found = 1 .. m
  BY <1>8
<1> HIDE DEF m, n
<1>10. IsInjective(found)
  BY <1>2, <1>3, <1>6, <1>8, <1>9 DEF IsInjective
<1>11. \A i, j \in DOMAIN found : i < j => at[found[i]] >= at[found[j]]
  BY <1>1, <1>2, <1>3, <1>6, <1>8, <1>9
<1>12. ASSUME NEW r \in Selected \ Range(found)
       PROVE  Len(found) = size /\ at[r] <= at[found[Len(found)]]
  <2>1. PICK i \in 1 .. n : s[i] = r
    BY <1>5
  <2>2. i \notin 1 .. m
    BY <1>8, <1>9, <2>1 DEF Range
  <2>3. m < i /\ m = size /\ m \in 1 .. n /\ i \in 1 .. n
    BY <1>2, <1>6, <2>2
  <2>4. at[s[m]] >= at[r]
    BY <1>1, <1>3, <2>1, <2>3
  <2>5. at[r] \in Nat /\ at[s[m]] \in Nat
    BY <1>3, <2>1, <2>3 DEF Typed, Selected
  <2> QED BY <1>8, <2>3, <2>4, <2>5
<1> QED BY <1>6, <1>8, <1>10, <1>11, <1>12

\* Rows got one after the other are got once if no page has a row of those before.
LEMMA Joined ==
  ASSUME NEW S, NEW s \in Seq(S), NEW t \in Seq(S), IsInjective(s), IsInjective(t),
         \A i \in DOMAIN s : \A j \in DOMAIN t : s[i] # t[j]
  PROVE  IsInjective(s \o t)
<1>1. /\ DOMAIN s = 1 .. Len(s) /\ DOMAIN t = 1 .. Len(t)
      /\ DOMAIN (s \o t) = 1 .. Len(s) + Len(t) /\ Len(s) \in Nat /\ Len(t) \in Nat
  BY ConcatProperties, LenProperties
<1>2. \A i \in DOMAIN (s \o t) :
        \/ i \in DOMAIN s /\ (s \o t)[i] = s[i]
        \/ i - Len(s) \in DOMAIN t /\ i > Len(s) /\ (s \o t)[i] = t[i - Len(s)]
  BY <1>1, ConcatProperties
<1> SUFFICES ASSUME NEW a \in DOMAIN (s \o t), NEW b \in DOMAIN (s \o t),
                    (s \o t)[a] = (s \o t)[b]
             PROVE  a = b
  BY DEF IsInjective
<1>3. a \in Nat /\ b \in Nat
  BY <1>1
<1>4. (a - Len(s) = b - Len(s)) => a = b
  BY <1>1, <1>3
<1> HIDE DEF IsInjective
<1> DEFINE u == s \o t
<1>5. CASE a \in DOMAIN s /\ b \in DOMAIN s /\ u[a] = s[a] /\ u[b] = s[b]
  BY <1>5 DEF IsInjective
<1>6. CASE /\ a - Len(s) \in DOMAIN t /\ u[a] = t[a - Len(s)]
           /\ b - Len(s) \in DOMAIN t /\ u[b] = t[b - Len(s)]
  <2>1. a - Len(s) = b - Len(s)
    BY <1>6 DEF IsInjective
  <2> QED BY <1>4, <2>1
<1> QED BY <1>2, <1>5, <1>6

LEMMA RangeJoined ==
  ASSUME NEW S, NEW s \in Seq(S), NEW t \in Seq(S)
  PROVE  /\ s \o t \in Seq(S) /\ Range(s) \cup Range(t) \subseteq Range(s \o t)
         /\ \A i \in DOMAIN (s \o t) : (s \o t)[i] \in Range(s) \cup Range(t)
<1>1. /\ DOMAIN s = 1 .. Len(s) /\ DOMAIN t = 1 .. Len(t) /\ s \o t \in Seq(S)
      /\ DOMAIN (s \o t) = 1 .. Len(s) + Len(t) /\ Len(s) \in Nat /\ Len(t) \in Nat
  BY ConcatProperties, LenProperties
<1>2. \A i \in DOMAIN (s \o t) :
        \/ i \in DOMAIN s /\ (s \o t)[i] = s[i]
        \/ i - Len(s) \in DOMAIN t /\ i > Len(s) /\ (s \o t)[i] = t[i - Len(s)]
  BY <1>1, ConcatProperties
<1>3. \A i \in DOMAIN s : i \in DOMAIN (s \o t) /\ (s \o t)[i] = s[i]
  BY <1>1, ConcatProperties
<1>4. \A i \in DOMAIN t :
        i + Len(s) \in DOMAIN (s \o t) /\ (s \o t)[i + Len(s)] = t[i]
  BY <1>1, ConcatProperties
<1>5. Range(s) \subseteq Range(s \o t)
  BY <1>3, Zenon DEF Range
<1>6. Range(t) \subseteq Range(s \o t)
  BY <1>4, Zenon DEF Range
<1>7. \A i \in DOMAIN (s \o t) : (s \o t)[i] \in Range(s) \cup Range(t)
  BY <1>2, Zenon DEF Range
<1> QED BY <1>1, <1>5, <1>6, <1>7

-----------------------------------------------------------------------------
(* The invariant holds of every state.                                     *)

LEMMA Initially == Init => IInv
<1> SUFFICES ASSUME Init PROVE IInv
  OBVIOUS
<1>1. Milli \in Nat /\ Milli > 0 /\ MaxTime \in Nat /\ First \in Nat
  BY ConversationListAssumption DEF First
<1>2. Typed
  <2>1. Cardinality(Rows) \in Nat
    BY FS_CardinalityType, ConversationListAssumption
  <2>2. size \in Nat \ {0}
    BY <2>1 DEF Init
  <2>3. listed \in Seq(Rows) /\ page \in Seq(Rows)
    BY DEF Init
  <2> QED BY <1>1, <2>2, <2>3 DEF Init, Typed
<1>3. \A r \in Rows : at[r] < token * Milli
  <2> TAKE r \in Rows
  <2>1. at[r] \in Nat /\ at[r] <= MaxTime
    BY <1>1 DEF Init
  <2>2. MaxTime < (MaxTime + 1) * Milli
    BY <1>1
  <2>3. (MaxTime + 1) * Milli \in Nat /\ token = MaxTime + 1
    BY <1>1 DEF Init, First
  <2> QED BY <1>1, <2>1, <2>2, <2>3
<1>4. Above /\ Ahead /\ InHand
  BY <1>3 DEF Init, Above, Ahead, InHand
<1>5. ListMissesOnlyTies
  BY DEF Init, ListMissesOnlyTies, IsInjective
<1> QED BY <1>2, <1>4, <1>5 DEF IInv

\* A row that moves gets a later time, and counts as moved.
LEMMA MoveKeeps ==
  ASSUME IInv, NEW r \in Rows, Move(r)
  PROVE  IInv'
<1>1. PICK now \in at[r] .. MaxTime : at' = [at EXCEPT ![r] = now]
  BY DEF Move
<1>2. Typed'
  <2>1. at[r] \in Nat
    BY DEF IInv, Typed
  <2>2. now \in 0 .. MaxTime
    BY <1>1, <2>1, ConversationListAssumption
  <2> QED BY <1>1, <2>2 DEF IInv, Typed, Move, request
<1>3. ~done /\ done' = done /\ token' = token /\ listed' = listed /\ edges' = edges
      /\ moved' = moved \cup {r} /\ list' = list /\ size' = size
      /\ page' = page /\ last' = last /\ slipped' = slipped
  BY DEF Move, request
<1>4. \A q \in Rows : at[q] \in Nat /\ at'[q] \in Nat /\ at[q] <= at'[q]
                    /\ (q # r => at'[q] = at[q])
  BY <1>1, ConversationListAssumption DEF IInv, Typed
<1>5. token * Milli \in Nat /\ last \in Nat
  BY ConversationListAssumption DEF IInv, Typed
<1>6. Above'
  <2> SUFFICES ASSUME ~slipped PROVE \A i \in DOMAIN listed : token * Milli <= at'[listed[i]]
    BY <1>3 DEF Above
  <2>1. \A i \in DOMAIN listed : listed[i] \in Rows /\ token * Milli <= at[listed[i]]
    BY <1>3, ElementOfSeq, LenProperties DEF IInv, Typed, Above
  <2> QED BY <1>4, <1>5, <2>1
<1>7. Ahead'
  BY <1>3, <1>4 DEF IInv, Ahead
<1>8. InHand'
  <2> SUFFICES ASSUME page # <<>> PROVE InHand'
    BY <1>3 DEF InHand
  <2>1. \A i \in DOMAIN page : page[i] \in Rows
    BY ElementOfSeq, LenProperties DEF IInv, Typed
  <2>2. \A i \in DOMAIN page : last <= at'[page[i]]
    BY <1>4, <1>5, <2>1 DEF IInv, InHand
  <2>3. \A q \in Rows \ (Range(listed) \cup moved' \cup Range(page)) :
          (Len(page) = size /\ at'[q] <= last) \/ InMilli(at'[q]) \in edges
    BY <1>3, <1>4 DEF IInv, InHand
  <2> QED BY <1>3, <2>2, <2>3 DEF IInv, InHand
<1>9. ListMissesOnlyTies'
  BY <1>3 DEF IInv, ListMissesOnlyTies
<1> QED BY <1>2, <1>6, <1>7, <1>8, <1>9 DEF IInv

\* A page is found: rows before the token, and so rows the client has not got.
LEMMA QueryKeeps ==
  ASSUME IInv, Query
  PROVE  IInv'
<1>1. PICK found \in Pages :
        IF found = <<>> THEN done' = TRUE /\ page' = page /\ last' = last
        ELSE page' = found /\ last' = at[Last(found)] /\ done' = done
  BY DEF Query
<1>2. /\ ~done /\ page = <<>> /\ at' = at /\ list' = list /\ size' = size /\ token' = token
      /\ listed' = listed /\ moved' = moved /\ edges' = edges /\ slipped' = slipped
  BY DEF Query, request, history
<1>3. Typed
  BY DEF IInv
<1>4. /\ found \in Seq(Selected) /\ Len(found) <= size /\ IsInjective(found)
      /\ \A i, j \in DOMAIN found : i < j => at[found[i]] >= at[found[j]]
      /\ \A r \in Selected \ Range(found) :
           Len(found) = size /\ at[r] <= at[found[Len(found)]]
  BY <1>3, PageIs
<1>5. /\ DOMAIN found = 1 .. Len(found) /\ Len(found) \in Nat
      /\ \A i \in 1 .. Len(found) : found[i] \in Selected
  BY <1>4, ElementOfSeq, LenProperties
<1>6. \A r \in Rows : at[r] \in Nat
  BY <1>3 DEF Typed
<1>7. token * Milli \in Nat
  BY <1>3, ConversationListAssumption DEF Typed
<1>8. \A r \in Rows \ (Range(listed) \cup moved) : r \in Selected \/ InMilli(at[r]) \in edges
  BY <1>2 DEF IInv, Ahead, Selected
<1>9. CASE found = <<>>
  <2>1. done' = TRUE /\ page' = <<>> /\ last' = last
    BY <1>1, <1>2, <1>9
  <2>2. Selected = {}
    <3>1. Len(found) # size /\ Range(found) = {}
      BY <1>3, <1>9 DEF Typed, Range
    <3> QED BY <1>4, <3>1
  <2>3. ListMissesOnlyTies'
    BY <1>2, <1>8, <2>2 DEF IInv, ListMissesOnlyTies
  <2>4. Typed'
    BY <1>2, <1>3, <2>1 DEF Typed
  <2> QED BY <2>1, <2>3, <2>4 DEF IInv, Above, Ahead, InHand
<1>10. CASE found # <<>>
  <2> DEFINE t == at[found[Len(found)]]
  <2>1. page' = found /\ last' = t /\ done' = done
    BY <1>1, <1>10 DEF Last
  <2>2. Len(found) \in DOMAIN found
    <3>1. Len(found) # 0
      BY <1>4, <1>10, EmptySeq
    <3> QED BY <1>5, <3>1
  <2>3. t \in Nat /\ t < token * Milli
    BY <1>5, <1>6, <2>2 DEF Selected
  <2>4. \A i \in DOMAIN found : t <= at[found[i]]
    <3> TAKE i \in DOMAIN found
    <3>1. i = Len(found) \/ i < Len(found)
      BY <1>5
    <3> QED BY <1>4, <1>5, <1>6, <2>2, <2>3, <3>1 DEF Selected
  <2>5. ASSUME ~slipped
        PROVE  \A i \in DOMAIN listed : \A j \in DOMAIN found : listed[i] # found[j]
    <3>1. \A i \in DOMAIN listed : listed[i] \in Rows /\ token * Milli <= at[listed[i]]
      BY <1>2, <1>3, <2>5, ElementOfSeq, LenProperties DEF IInv, Typed, Above
    <3>2. \A j \in DOMAIN found : found[j] \in Rows /\ at[found[j]] < token * Milli
      BY <1>5 DEF Selected
    <3> QED BY <1>6, <1>7, <3>1, <3>2
  <2>6. \A r \in Rows \ (Range(listed) \cup moved \cup Range(found)) :
          (Len(found) = size /\ at[r] <= t) \/ InMilli(at[r]) \in edges
    BY <1>4, <1>8
  <2>7. Typed'
    <3>1. found \in Seq(Rows)
      BY <1>4, <1>5 DEF Selected
    <3> QED BY <1>2, <1>3, <2>1, <2>3, <3>1 DEF Typed
  <2> HIDE DEF t
  <2>8. InHand'
    BY <1>2, <1>4, <2>1, <2>3, <2>4, <2>5, <2>6 DEF InHand
  <2> QED BY <1>2, <2>1, <2>7, <2>8 DEF IInv, Above, Ahead, ListMissesOnlyTies
<1> QED BY <1>9, <1>10

\* A page is answered: what it leaves behind is before the new token, or of the
\* new token's millisecond.
LEMMA AnswerKeeps ==
  ASSUME IInv, Answer
  PROVE  IInv'
<1>1. /\ page # <<>> /\ listed' = listed \o page /\ page' = <<>> /\ at' = at /\ list' = list
      /\ size' = size /\ last' = last /\ moved' = moved
  BY DEF Answer, request
<1>2. Typed /\ InHand /\ ~done
  BY <1>1 DEF IInv, InHand
<1>3. DOMAIN page = 1 .. Len(page) /\ Len(page) \in DOMAIN page
      /\ \A i \in DOMAIN page : page[i] \in Rows
  <2>1. page \in Seq(Rows)
    BY <1>2 DEF Typed
  <2>2. Len(page) # 0
    BY <1>1, <2>1, EmptySeq
  <2> QED BY <2>1, <2>2, ElementOfSeq, LenProperties
<1>4. \A r \in Rows : at[r] \in Nat
  BY <1>2 DEF Typed
<1>5. token * Milli \in Nat /\ last \in Nat
  BY <1>2, ConversationListAssumption DEF Typed
<1>6. /\ listed' \in Seq(Rows) /\ Range(listed) \cup Range(page) \subseteq Range(listed')
      /\ \A i \in DOMAIN listed' : listed'[i] \in Range(listed) \cup Range(page)
  BY <1>1, <1>2, RangeJoined DEF Typed
<1>7. ~slipped => IsInjective(listed')
  <2> SUFFICES ASSUME ~slipped PROVE IsInjective(listed')
    OBVIOUS
  <2>1. IsInjective(listed) /\ listed \in Seq(Rows) /\ IsInjective(page) /\ page \in Seq(Rows)
    BY <1>1, <1>2 DEF IInv, ListMissesOnlyTies, InHand, Typed
  <2>2. \A i \in DOMAIN listed : \A j \in DOMAIN page : listed[i] # page[j]
    BY <1>1, <1>2 DEF InHand
  <2> QED BY <1>1, <2>1, <2>2, Joined
<1>8. \A r \in Rows \ (Range(listed') \cup moved) :
        (Len(page) = size /\ at[r] <= last) \/ InMilli(at[r]) \in edges
  BY <1>1, <1>2, <1>6 DEF InHand
<1>9. CASE HasNext
  <2> DEFINE t == IF list = "conversations" THEN at[page[Len(page)]] ELSE last
  <2>1. t \in Nat /\ last <= t
    BY <1>1, <1>2, <1>3, <1>4, <1>5 DEF InHand
  <2>2. /\ token' = InMilli(t) /\ edges' = edges \cup {InMilli(t)} /\ done' = done
        /\ slipped' = (slipped \/ InMilli(t) # InMilli(last))
    <3>1. /\ token' = InMilli(t) /\ edges' = edges \cup {InMilli(t)} /\ done' = done
          /\ slipped' = (slipped \/ (list = "conversations"
                                       /\ InMilli(at[page[Len(page)]]) # InMilli(last)))
      BY <1>9 DEF Answer, TokenOfLast, Last
    <3> QED BY <3>1
  <2> HIDE DEF t
  <2>3. /\ InMilli(t) \in Nat /\ InMilli(last) \in Nat /\ InMilli(last) * Milli <= last
        /\ InMilli(last) * Milli \in Nat
    <3>1. InMilli(t) \in Nat /\ InMilli(last) \in Nat /\ InMilli(last) * Milli <= last
      BY <1>5, <2>1, Floor
    <3>2. InMilli(last) * Milli \in Nat
      BY <3>1, ConversationListAssumption
    <3> QED BY <3>1, <3>2
  <2>4. Typed'
    <3>1. edges' \subseteq Nat /\ token' \in Nat /\ slipped' \in BOOLEAN /\ done' \in BOOLEAN
      BY <1>2, <2>2, <2>3 DEF Typed
    <3>2. page' \in Seq(Rows)
      BY <1>1
    <3>3. /\ at' \in [Rows -> 0 .. MaxTime] /\ size' \in Nat \ {0} /\ last' \in Nat
          /\ list' \in {"conversations", "friends"}
      BY <1>1, <1>2, Zenon DEF Typed
    <3> QED BY <1>6, <3>1, <3>2, <3>3, Zenon DEF Typed
  <2>5. Above'
    <3> SUFFICES ASSUME ~slipped' PROVE \A i \in DOMAIN listed' : token' * Milli <= at[listed'[i]]
      BY <1>1 DEF Above
    <3>1. ~slipped /\ token' = InMilli(last)
      BY <2>2
    <3>2. \A x \in Range(page) : x \in Rows /\ last <= at[x]
      BY <1>1, <1>2, <1>3 DEF InHand, Range
    <3>3. \A x \in Range(listed) : x \in Rows /\ token * Milli <= at[x]
      BY <1>2, <3>1, ElementOfSeq, LenProperties DEF IInv, Typed, Above, Range
    <3>4. last < token * Milli
      BY <1>1, <1>2 DEF InHand
    <3>5. \A x \in Range(listed) \cup Range(page) : token' * Milli <= at[x]
      BY <1>4, <1>5, <2>3, <3>1, <3>2, <3>3, <3>4
    <3> QED BY <1>6, <3>5
  <2>6. Ahead'
    <3> SUFFICES ASSUME NEW r \in Rows \ (Range(listed') \cup moved)
                 PROVE  at[r] < token' * Milli \/ InMilli(at[r]) \in edges'
      BY <1>1 DEF Ahead
    <3>1. CASE InMilli(at[r]) \in edges
      BY <2>2, <3>1
    <3>2. CASE at[r] <= last
      <4>1. at[r] <= t /\ at[r] \in Nat
        BY <1>4, <1>5, <2>1, <3>2
      <4> QED BY <2>1, <2>2, <4>1, Earlier
    <3> QED BY <1>8, <3>1, <3>2
  <2>7. InHand' /\ ListMissesOnlyTies'
    BY <1>1, <1>2, <1>7, <2>2 DEF InHand, ListMissesOnlyTies
  <2> QED BY <2>4, <2>5, <2>6, <2>7 DEF IInv
<1>10. CASE ~HasNext
  <2>1. done' = TRUE /\ token' = token /\ edges' = edges /\ slipped' = slipped
    BY <1>10 DEF Answer
  <2>2. Len(page) # size
    BY <1>10 DEF HasNext
  <2>3. \A r \in Rows \ (Range(listed') \cup moved) : InMilli(at[r]) \in edges
    BY <1>8, <2>2
  <2>4. Typed'
    <3>1. page' \in Seq(Rows)
      BY <1>1
    <3> QED BY <1>1, <1>2, <1>6, <2>1, <3>1 DEF Typed
  <2> QED BY <1>1, <1>7, <2>1, <2>3, <2>4 DEF IInv, Above, Ahead, InHand, ListMissesOnlyTies
<1> QED BY <1>9, <1>10

\* A client that follows the tokens of GetConversationList, or of GetFriends,
\* to the end misses only rows that moved meanwhile and rows that share the
\* millisecond of a page's token; and it gets no row twice, unless the last
\* conversation of a page was written between the statement that found the page
\* and the one that loaded its time.
THEOREM MissesOnlyTies == Spec => []ListMissesOnlyTies
<1>1. IInv /\ [Next]_vars => IInv'
  <2> SUFFICES ASSUME IInv, [Next]_vars PROVE IInv'
    OBVIOUS
  <2>1. CASE Query
    BY <2>1, QueryKeeps
  <2>2. CASE Answer
    BY <2>2, AnswerKeeps
  <2>3. ASSUME NEW r \in Rows, Move(r)
        PROVE  IInv'
    BY <2>3, MoveKeeps
  <2>4. CASE UNCHANGED vars
    BY <2>4 DEF vars, request, history, IInv, Typed, Above, Ahead, InHand, ListMissesOnlyTies
  <2> QED BY <2>1, <2>2, <2>3, <2>4 DEF Next
<1>2. IInv => ListMissesOnlyTies
  BY DEF IInv
<1> QED BY Initially, <1>1, <1>2, PTL DEF Spec
=============================================================================
