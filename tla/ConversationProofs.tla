------------------------- MODULE ConversationProofs -------------------------
(***************************************************************************)
(* Proofs that conversations keep what they say, for any number of them,   *)
(* of requests in flight and of turns.                                     *)
(***************************************************************************)
EXTENDS Conversation, TLAPS, WellFoundedInduction, NaturalsInduction

-----------------------------------------------------------------------------
(* Numbers and sequences. *)

LEMMA LeastExists ==
    ASSUME NEW S, S \subseteq Nat, S # {}
    PROVE  \E x \in S : \A y \in S : x <= y
<1> DEFINE R == OpToRel(<, Nat)
<1>1. \A x, y \in Nat : y < x => <<y, x>> \in R
  BY DEF OpToRel
<1>2. IsWellFoundedOn(R, Nat)
  BY NatLessThanWellFounded
<1> HIDE DEF R
<1>3. PICK x \in S : \A y \in S : ~(<<y, x>> \in R)
  BY <1>2, WFMin
<1>4. \A y \in S : ~(y < x) /\ y \in Nat /\ x \in Nat
  BY <1>1, <1>3
<1>5. QED
  BY <1>4

LEMMA GreatestExists ==
    ASSUME NEW n \in Nat, NEW S, S \subseteq 0..n, S # {}
    PROVE  \E x \in S : \A y \in S : x >= y
<1> DEFINE T == {n - y : y \in S}
<1>1. T \subseteq Nat /\ T # {}
  <2>1. ASSUME NEW y \in S PROVE y \in Int /\ n - y \in Nat
    OBVIOUS
  <2>2. QED
    BY <2>1
<1> HIDE DEF T
<1>2. PICK t \in T : \A u \in T : t <= u
  BY <1>1, LeastExists
<1>3. PICK x \in S : t = n - x
  BY DEF T
<1>4. \A y \in S : n - y \in T
  BY DEF T
<1>5. \A y \in S : x >= y
  <2>1. \A y \in S : y \in 0..n /\ n - x <= n - y
    BY <1>2, <1>3, <1>4
  <2>2. QED
    BY <1>3, <2>1
<1>6. QED
  BY <1>5

\* The nearest question's words are words.
LEMMA NearestIsWords ==
    ASSUME NEW turns \in Seq(Turn), NEW i \in DOMAIN turns
    PROVE  NearestQuestion(turns, i) \in Nat
<1> DEFINE before == {j \in 1..(i - 1) : turns[j].role = "question"}
<1>1. CASE before = {}
  BY <1>1 DEF NearestQuestion, NoQuestion
<1>2. CASE before # {}
  <2>1. i \in Nat /\ i \in 1..Len(turns) /\ before \subseteq 0..i
    OBVIOUS
  <2>2. \E x \in before : \A y \in before : x >= y
    <3> HIDE DEF before
    <3>1. QED
      BY <1>2, <2>1, GreatestExists
  <2>3. Max(before) \in before
    <3> HIDE DEF before
    <3> DEFINE m == CHOOSE x \in before : \A y \in before : x >= y
    <3>1. m \in before
      BY <2>2
    <3>2. Max(before) = m
      BY DEF Max
    <3> HIDE DEF m
    <3>3. QED
      BY <3>1, <3>2
  <2>4. Max(before) \in 1..Len(turns)
    <3>1. \A b \in before : b \in 1..Len(turns)
      BY <2>1
    <3> HIDE DEF before
    <3>2. QED
      BY <2>3, <3>1
  <2>5. \A b \in 1..Len(turns) : turns[b] \in Turn
    OBVIOUS
  <2>6. \A b \in 1..Len(turns) : turns[b].text \in Nat
    BY <2>5 DEF Turn
  <2>7. turns[Max(before)].text \in Nat
    <3> HIDE DEF before
    <3>1. QED
      BY <2>4, <2>6
  <2>8. QED
    BY <1>2, <2>7 DEF NearestQuestion
<1>3. QED
  BY <1>1, <1>2

\* What a request says of earlier questions.
LEMMA ContextTyped ==
    ASSUME NEW turns \in Seq(Turn)
    PROVE  /\ DOMAIN ToContextTurns(turns) \subseteq Nat
           /\ ToContextTurns(turns) \in [DOMAIN ToContextTurns(turns) -> [question: Nat, asked: Nat]]
<1>1. DOMAIN ToContextTurns(turns) = AnsweredAt(turns)
  BY DEF ToContextTurns
<1>2. ASSUME NEW i \in AnsweredAt(turns)
      PROVE  i \in Nat /\ [question |-> turns[i].text, asked |-> turns[i + 1].asked] \in [question: Nat, asked: Nat]
  <2>1. i \in DOMAIN turns /\ i + 1 \in DOMAIN turns
    BY <1>2 DEF AnsweredAt
  <2>2. turns[i] \in Turn /\ turns[i + 1] \in Turn /\ i \in Nat
    BY <2>1
  <2>3. QED
    BY <2>2 DEF Turn
<1>3. QED
  BY <1>1, <1>2 DEF ToContextTurns

-----------------------------------------------------------------------------
(* The turns of one conversation. *)

\* Ids increase and are minted before they are used; an alternative was chosen from a row
\* that remembers it, and from no other.
GoodTurns(turns, n) ==
    /\ turns \in Seq(Turn)
    /\ \A i \in DOMAIN turns : turns[i].id \in 1..n /\ turns[i].from \in 0..n
    /\ \A i, j \in DOMAIN turns : i < j => turns[i].id < turns[j].id
    /\ \A i, j \in DOMAIN turns :
         turns[j].role = "choice" /\ turns[i].id = turns[j].from => turns[i].chosen # None
    /\ \A i, j \in DOMAIN turns :
         turns[i].role = "choice" /\ turns[j].role = "choice" /\ turns[i].from = turns[j].from => i = j

NoQuestionIn(turns) == \A i \in DOMAIN turns : turns[i].role # "question"

IInv ==
    /\ TypeOK
    /\ \A k \in Keys : GoodTurns(conversations[k].turns, minted)
    /\ \A k \in fresh : NoQuestionIn(conversations[k].turns)
    /\ \A r \in requests : r.from \in 0..minted

LEMMA Appended ==
    ASSUME NEW S, NEW turns \in Seq(S), NEW t \in S
    PROVE  /\ Append(turns, t) \in Seq(S)
           /\ Len(turns) \in Nat /\ DOMAIN turns = 1..Len(turns)
           /\ DOMAIN Append(turns, t) = 1..(Len(turns) + 1)
           /\ Append(turns, t)[Len(turns) + 1] = t
           /\ \A i \in 1..Len(turns) : Append(turns, t)[i] = turns[i]
OBVIOUS

LEMMA AppendGood ==
    ASSUME NEW turns, NEW n \in Nat, NEW m \in Nat, NEW t \in Turn, GoodTurns(turns, n),
           n < m, t.id \in (n + 1)..m, t.from \in 0..n,
           t.role = "choice" =>
             \A i \in DOMAIN turns : /\ turns[i].role = "choice" => turns[i].from # t.from
                                     /\ turns[i].id = t.from => turns[i].chosen # None
    PROVE  GoodTurns(Append(turns, t), m)
<1> DEFINE more == Append(turns, t)
           l == Len(turns)
<1>1. /\ more \in Seq(Turn) /\ l \in Nat /\ DOMAIN turns = 1..l /\ DOMAIN more = 1..(l + 1)
      /\ more[l + 1] = t /\ \A i \in 1..l : more[i] = turns[i]
  BY Appended DEF GoodTurns
<1>2. /\ \A i \in 1..l : turns[i].id \in 1..n /\ turns[i].from \in 0..n
      /\ \A i, j \in 1..l : i < j => turns[i].id < turns[j].id
      /\ \A i, j \in 1..l : turns[j].role = "choice" /\ turns[i].id = turns[j].from => turns[i].chosen # None
      /\ \A i, j \in 1..l :
           turns[i].role = "choice" /\ turns[j].role = "choice" /\ turns[i].from = turns[j].from => i = j
  BY <1>1 DEF GoodTurns
<1> HIDE DEF more, l
<1>3. ASSUME NEW i \in 1..(l + 1) PROVE more[i].id \in 1..m /\ more[i].from \in 0..m
  BY <1>1, <1>2
<1>4. ASSUME NEW i \in 1..(l + 1), NEW j \in 1..(l + 1)
      PROVE  /\ i < j => more[i].id < more[j].id
             /\ more[j].role = "choice" /\ more[i].id = more[j].from => more[i].chosen # None
             /\ more[i].role = "choice" /\ more[j].role = "choice" /\ more[i].from = more[j].from => i = j
  <2>1. CASE i \in 1..l /\ j \in 1..l
    <3>1. more[i] = turns[i] /\ more[j] = turns[j]
      BY <1>1, <2>1
    <3>2. i < j => turns[i].id < turns[j].id
      BY <1>2, <2>1
    <3>3. turns[j].role = "choice" /\ turns[i].id = turns[j].from => turns[i].chosen # None
      BY <1>2, <2>1
    <3>4. turns[i].role = "choice" /\ turns[j].role = "choice" /\ turns[i].from = turns[j].from => i = j
      BY <1>2, <2>1
    <3>5. QED
      BY <3>1, <3>2, <3>3, <3>4
  <2>2. CASE i \in 1..l /\ j = l + 1
    <3>1. more[i] = turns[i] /\ more[j] = t
      BY <1>1, <2>2
    <3>2. turns[i].id \in 1..n /\ turns[i].id < t.id
      BY <1>2, <2>2
    <3>3. /\ t.role = "choice" /\ turns[i].role = "choice" => turns[i].from # t.from
          /\ t.role = "choice" /\ turns[i].id = t.from => turns[i].chosen # None
      BY <1>1, <2>2
    <3>4. QED
      BY <3>1, <3>2, <3>3
  <2>3. CASE i = l + 1 /\ j \in 1..l
    <3>1. more[i] = t /\ more[j] = turns[j] /\ ~(i < j)
      BY <1>1, <2>3
    <3>2. t.id # turns[j].from
      BY <1>2, <2>3
    <3>3. t.role = "choice" /\ turns[j].role = "choice" => turns[j].from # t.from
      BY <1>1, <2>3
    <3>4. QED
      BY <3>1, <3>2, <3>3
  <2>4. CASE i = l + 1 /\ j = l + 1
    BY <1>1, <1>2, <2>4
  <2>5. QED
    BY <1>1, <2>1, <2>2, <2>3, <2>4
<1>5. GoodTurns(more, m)
  BY <1>1, <1>3, <1>4 DEF GoodTurns
<1>6. QED
  BY <1>5 DEF more

LEMMA MarkSays ==
    ASSUME NEW turns, NEW n \in Nat, GoodTurns(turns, n), NEW id \in Nat, NEW op \in Operations,
           NEW i \in DOMAIN turns
    PROVE  /\ MarkChosen(turns, id, op)[i] \in Turn
           /\ MarkChosen(turns, id, op)[i].id = turns[i].id
           /\ MarkChosen(turns, id, op)[i].role = turns[i].role
           /\ MarkChosen(turns, id, op)[i].from = turns[i].from
           /\ turns[i].id = id => MarkChosen(turns, id, op)[i].chosen = op
           /\ turns[i].chosen # None => MarkChosen(turns, id, op)[i].chosen # None
<1>1. turns[i] \in Turn /\ op # None
  BY NoneAssumption DEF GoodTurns
<1>2. CASE turns[i].id = id
  <2>1. MarkChosen(turns, id, op)[i] = [turns[i] EXCEPT !.chosen = op]
    BY <1>2 DEF MarkChosen
  <2>2. QED
    BY <1>1, <1>2, <2>1 DEF Turn
<1>3. CASE turns[i].id # id
  <2>1. MarkChosen(turns, id, op)[i] = turns[i]
    BY <1>3 DEF MarkChosen
  <2>2. QED
    BY <1>1, <1>3, <2>1
<1>4. QED
  BY <1>2, <1>3

LEMMA MarkKeeps ==
    ASSUME NEW turns, NEW n \in Nat, GoodTurns(turns, n), NEW id \in Nat, NEW op \in Operations,
           NEW i \in DOMAIN turns
    PROVE  [MarkChosen(turns, id, op)[i] EXCEPT !.chosen = None] = [turns[i] EXCEPT !.chosen = None]
<1>1. turns[i] \in Turn
  BY DEF GoodTurns
<1>2. CASE turns[i].id = id
  <2>1. MarkChosen(turns, id, op)[i] = [turns[i] EXCEPT !.chosen = op]
    BY <1>2 DEF MarkChosen
  <2>2. QED
    BY <1>1, <2>1 DEF Turn
<1>3. CASE turns[i].id # id
  BY <1>3 DEF MarkChosen
<1>4. QED
  BY <1>2, <1>3

LEMMA MarkGood ==
    ASSUME NEW turns, NEW n \in Nat, GoodTurns(turns, n), NEW id \in Nat, NEW op \in Operations
    PROVE  GoodTurns(MarkChosen(turns, id, op), n) /\ DOMAIN MarkChosen(turns, id, op) = DOMAIN turns
<1> DEFINE marks == MarkChosen(turns, id, op)
<1>1. Len(turns) \in Nat /\ DOMAIN turns = 1..Len(turns) /\ \A i \in DOMAIN turns : turns[i] \in Turn
  BY DEF GoodTurns
<1>2. DOMAIN marks = DOMAIN turns
  BY DEF MarkChosen
<1>3. ASSUME NEW i \in DOMAIN turns
      PROVE  /\ marks[i] \in Turn
             /\ marks[i].id = turns[i].id /\ marks[i].role = turns[i].role /\ marks[i].from = turns[i].from
             /\ turns[i].id = id => marks[i].chosen = op
             /\ turns[i].chosen # None => marks[i].chosen # None
  BY MarkSays
<1>4. marks \in Seq(Turn)
  <2>1. marks \in [1..Len(turns) -> Turn]
    BY <1>1, <1>2, <1>3 DEF MarkChosen
  <2>2. QED
    BY <1>1, <2>1
<1> HIDE DEF marks
<1>5. GoodTurns(marks, n)
  BY <1>2, <1>3, <1>4 DEF GoodTurns
<1>6. QED
  BY <1>2, <1>3, <1>5 DEF marks

\* Turns stay what they are while ids are minted.
LEMMA GoodLater ==
    ASSUME NEW turns, NEW n \in Nat, NEW m \in Nat, GoodTurns(turns, n), n <= m
    PROVE  GoodTurns(turns, m)
BY DEF GoodTurns

LEMMA AppendOne ==
    ASSUME NEW S, NEW turns \in Seq(S), NEW t \in S
    PROVE  turns \o <<t>> = Append(turns, t) /\ turns \o <<>> = turns
OBVIOUS

LEMMA NoTurnsGood ==
    ASSUME NEW n \in Nat
    PROVE  GoodTurns(<<>>, n) /\ NoQuestionIn(<<>>)
<1>1. <<>> \in Seq(Turn) /\ DOMAIN <<>> = {}
  OBVIOUS
<1>2. QED
  BY <1>1 DEF GoodTurns, NoQuestionIn

-----------------------------------------------------------------------------
(* A step. *)

Becomes(k, turns, pending) ==
    conversations' = [conversations EXCEPT ![k] = [turns |-> turns, pending |-> pending]]

\* One conversation changes and stays good: all of them are.
LEMMA OneChanges ==
    ASSUME IInv, NEW k \in Keys, NEW turns, NEW pending \in BOOLEAN,
           Becomes(k, turns, pending), minted' \in Nat, minted <= minted', GoodTurns(turns, minted')
    PROVE  /\ conversations' \in [Keys -> [turns: Seq(Turn), pending: BOOLEAN]]
           /\ \A h \in Keys : GoodTurns(conversations'[h].turns, minted')
           /\ \A h \in Keys : h # k => conversations'[h] = conversations[h]
           /\ conversations'[k].turns = turns
<1>1. /\ conversations \in [Keys -> [turns: Seq(Turn), pending: BOOLEAN]] /\ minted \in Nat
      /\ \A h \in Keys : GoodTurns(conversations[h].turns, minted)
  BY DEF IInv, TypeOK
<1>2. [turns |-> turns, pending |-> pending] \in [turns: Seq(Turn), pending: BOOLEAN]
  BY DEF GoodTurns
<1>3. /\ \A h \in Keys : h # k => conversations'[h] = conversations[h]
      /\ conversations'[k] = [turns |-> turns, pending |-> pending]
      /\ conversations' \in [Keys -> [turns: Seq(Turn), pending: BOOLEAN]]
  BY <1>1, <1>2 DEF Becomes
<1>4. ASSUME NEW h \in Keys PROVE GoodTurns(conversations'[h].turns, minted')
  <2>1. CASE h = k
    BY <1>3, <2>1
  <2>2. CASE h # k
    BY <1>1, <1>3, <2>2, GoodLater
  <2>3. QED
    BY <2>1, <2>2
<1>5. QED
  BY <1>3, <1>4

\* A step that keeps conversations good, sends good requests and ends nothing that asks.
LEMMA StepGood ==
    ASSUME IInv,
           conversations' \in [Keys -> [turns: Seq(Turn), pending: BOOLEAN]],
           \A k \in Keys : GoodTurns(conversations'[k].turns, minted'),
           screen' \in Keys,
           minted' \in Nat, minted <= minted', sent' \in Nat, sent <= sent',
           controls' \subseteq [turn: 1..minted', by: 1..sent'],
           \A r \in requests' : r \in requests \/ (IsRequest(r)' /\ r.from \in 0..minted'),
           fresh' \subseteq Keys,
           \A k \in fresh' : NoQuestionIn(conversations'[k].turns)
    PROVE  IInv'
<1>1. minted \in Nat /\ sent \in Nat
  BY DEF IInv, TypeOK
<1>2. ASSUME NEW r \in requests PROVE IsRequest(r)' /\ r.from \in 0..minted'
  <2>1. IsRequest(r) /\ r.from \in 0..minted
    BY <1>2 DEF IInv, TypeOK
  <2>2. QED
    BY <1>1, <2>1 DEF IsRequest
<1>3. \A r \in requests' : IsRequest(r)' /\ r.from \in 0..minted'
  BY <1>2
<1>4. \A k \in Keys : \A i, j \in DOMAIN conversations'[k].turns :
         i < j => conversations'[k].turns[i].id < conversations'[k].turns[j].id
  BY DEF GoodTurns
<1>5. TypeOK'
  BY <1>3, <1>4 DEF TypeOK, TurnsOf
<1>6. QED
  BY <1>3, <1>5 DEF IInv

\* The request a step sends.
LEMMA SentGood ==
    ASSUME IInv, NEW k \in Keys, NEW sort \in {"plan", "option", "form"}, NEW asked \in Nat,
           NEW from \in 0..minted, NEW context, minted' \in Nat, minted <= minted',
           DOMAIN context \subseteq Nat, context \in [DOMAIN context -> [question: Nat, asked: Nat]],
           Send(k, sort, asked, from, context)
    PROVE  /\ sent' = sent + 1 /\ sent \in Nat
           /\ \A r \in requests' : r \in requests \/ (IsRequest(r)' /\ r.from \in 0..minted')
<1>1. /\ sent \in Nat /\ minted \in Nat /\ sent' = sent + 1 /\ from \in 0..minted'
      /\ requests' = requests \union
           {[id |-> sent + 1, key |-> k, sort |-> sort, asked |-> asked, from |-> from, context |-> context]}
  BY DEF IInv, TypeOK, Send
<1>2. ASSUME NEW r \in requests', r \notin requests
      PROVE  IsRequest(r)' /\ r.from \in 0..minted'
  <2>1. /\ r.id = sent' /\ r.key = k /\ r.sort = sort /\ r.asked = asked /\ r.from = from
        /\ r.context = context
    BY <1>1, <1>2
  <2>2. r.id \in 1..sent'
    BY <1>1, <2>1
  <2>3. QED
    BY <1>1, <2>1, <2>2 DEF IsRequest
<1>3. QED
  BY <1>1, <1>2

LEMMA NoContext ==
    DOMAIN <<>> \subseteq Nat /\ <<>> \in [DOMAIN <<>> -> [question: Nat, asked: Nat]]
<1>1. DOMAIN <<>> = {}
  OBVIOUS
<1>2. QED
  BY <1>1

\* Turns that only have others added, and rows of alternatives answered.
Extends(turns, more) ==
    /\ turns \in Seq(Turn) /\ more \in Seq(Turn) /\ Len(turns) <= Len(more)
    /\ \A i \in DOMAIN turns : [more[i] EXCEPT !.chosen = None] = [turns[i] EXCEPT !.chosen = None]

\* The answers a step adds to a conversation are to requests sent from it.
Homes(k) ==
    \A i \in (Len(conversations[k].turns) + 1)..Len(conversations'[k].turns) :
        conversations'[k].turns[i].role = "answer" =>
            \E r \in requests \ requests' : r.id = conversations'[k].turns[i].by /\ r.key = k

\* What a step leaves of every conversation: all of it, unless the step ended it.
Kept ==
    \A k \in Keys :
        /\ Homes(k)
        /\ \/ Extends(conversations[k].turns, conversations'[k].turns)
           \/ k \in fresh' /\ conversations'[k] = Empty

LEMMA SameExtends ==
    ASSUME NEW turns \in Seq(Turn)
    PROVE  Extends(turns, turns)
BY DEF Extends

LEMMA AppendExtends ==
    ASSUME NEW turns, NEW more, NEW t \in Turn, Extends(turns, more)
    PROVE  /\ Extends(turns, Append(more, t))
           /\ Len(Append(more, t)) = Len(more) + 1 /\ Append(more, t)[Len(more) + 1] = t
           /\ \A i \in DOMAIN more : Append(more, t)[i] = more[i]
           /\ Len(turns) \in Nat /\ Len(more) \in Nat
           /\ DOMAIN turns = 1..Len(turns) /\ DOMAIN more = 1..Len(more)
<1>1. turns \in Seq(Turn) /\ more \in Seq(Turn) /\ Len(turns) <= Len(more)
  BY DEF Extends
<1>2. /\ Append(more, t) \in Seq(Turn) /\ Len(Append(more, t)) = Len(more) + 1
      /\ Append(more, t)[Len(more) + 1] = t
      /\ \A i \in DOMAIN more : Append(more, t)[i] = more[i]
      /\ Len(turns) \in Nat /\ Len(more) \in Nat
      /\ DOMAIN turns = 1..Len(turns) /\ DOMAIN more = 1..Len(more)
  BY <1>1
<1>3. \A i \in DOMAIN turns : Append(more, t)[i] = more[i]
  BY <1>1, <1>2
<1>4. Extends(turns, Append(more, t))
  BY <1>1, <1>2, <1>3 DEF Extends
<1>5. QED
  BY <1>2, <1>4

LEMMA MarkExtends ==
    ASSUME NEW turns, NEW n \in Nat, GoodTurns(turns, n), NEW id \in Nat, NEW op \in Operations
    PROVE  Extends(turns, MarkChosen(turns, id, op)) /\ Len(MarkChosen(turns, id, op)) = Len(turns)
<1> DEFINE marks == MarkChosen(turns, id, op)
<1>1. /\ marks \in Seq(Turn) /\ turns \in Seq(Turn) /\ DOMAIN marks = DOMAIN turns
      /\ \A i \in DOMAIN turns : [marks[i] EXCEPT !.chosen = None] = [turns[i] EXCEPT !.chosen = None]
  <2>1. GoodTurns(marks, n) /\ DOMAIN marks = DOMAIN turns
    BY MarkGood
  <2>2. ASSUME NEW i \in DOMAIN turns
        PROVE  [marks[i] EXCEPT !.chosen = None] = [turns[i] EXCEPT !.chosen = None]
    BY MarkKeeps
  <2> HIDE DEF marks
  <2>3. QED
    BY <2>1, <2>2 DEF GoodTurns
<1> HIDE DEF marks
<1>2. Len(marks) = Len(turns) /\ Len(turns) \in Nat
  BY <1>1
<1>3. QED
  BY <1>1, <1>2 DEF Extends, marks

LEMMA OneSame ==
    ASSUME NEW h \in Keys, conversations[h].turns \in Seq(Turn),
           conversations'[h].turns = conversations[h].turns
    PROVE  Extends(conversations[h].turns, conversations'[h].turns) /\ Homes(h)
<1>1. Len(conversations[h].turns) \in Nat
  OBVIOUS
<1>2. Homes(h)
  BY <1>1 DEF Homes
<1>3. QED
  BY <1>2, SameExtends

\* One conversation grows: all of them are kept.
LEMMA OneGrows ==
    ASSUME IInv, NEW k \in Keys, \A h \in Keys : h # k => conversations'[h] = conversations[h],
           Extends(conversations[k].turns, conversations'[k].turns), Homes(k)
    PROVE  Kept
<1>1. \A h \in Keys : conversations[h].turns \in Seq(Turn)
  BY DEF IInv, GoodTurns
<1>2. ASSUME NEW h \in Keys, h # k
      PROVE  Extends(conversations[h].turns, conversations'[h].turns) /\ Homes(h)
  BY <1>1, <1>2, OneSame
<1>3. QED
  BY <1>2 DEF Kept

LEMMA NoneChanges ==
    ASSUME IInv, conversations' = conversations
    PROVE  Kept
<1>1. \A k \in Keys : conversations[k].turns \in Seq(Turn)
  BY DEF IInv, GoodTurns
<1>2. QED
  BY <1>1, OneSame DEF Kept

LEMMA AskGood ==
    ASSUME IInv, NEW k \in Keys, Ask(k)
    PROVE  IInv' /\ Kept
<1> DEFINE turns == TurnsOf(k)
           question == [Blank(minted + 1, "question") EXCEPT !.text = minted + 1]
           more == Append(turns, question)
<1>1. /\ minted \in Nat /\ GoodTurns(turns, minted) /\ turns \in Seq(Turn)
      /\ screen \in Keys /\ fresh \subseteq Keys
      /\ controls \subseteq [turn: 1..minted, by: 1..sent] /\ sent \in Nat
      /\ \A h \in fresh : NoQuestionIn(conversations[h].turns)
  BY DEF IInv, TypeOK, TurnsOf, GoodTurns
<1>2. /\ minted' = minted + 1 /\ screen' = screen /\ controls' = controls /\ fresh' = fresh \ {k}
      /\ Becomes(k, more, TRUE)
      /\ Send(k, "plan", question.text, 0, ToContextTurns(turns))
  BY DEF Ask, Becomes
<1>3. /\ question \in Turn /\ question.id = minted + 1 /\ question.from = 0
      /\ question.role = "question" /\ question.text = minted + 1
  <2>1. question = [id |-> minted + 1, role |-> "question", text |-> minted + 1, kind |-> None,
                    chosen |-> None, asked |-> 0, from |-> 0, by |-> 0]
    BY DEF Blank, NoQuestion
  <2> HIDE DEF question
  <2>2. QED
    BY <1>1, <2>1 DEF Turn
<1> HIDE DEF turns, question, more
<1>4. GoodTurns(more, minted')
  <2>1. question.id \in (minted + 1)..(minted + 1) /\ minted < minted + 1
    BY <1>1, <1>3
  <2>2. QED
    BY <1>1, <1>2, <1>3, <2>1, AppendGood DEF more
<1>5. /\ conversations' \in [Keys -> [turns: Seq(Turn), pending: BOOLEAN]]
      /\ \A h \in Keys : GoodTurns(conversations'[h].turns, minted')
      /\ \A h \in Keys : h # k => conversations'[h] = conversations[h]
      /\ conversations'[k].turns = more
  <2>1. minted' \in Nat /\ minted <= minted' /\ TRUE \in BOOLEAN
    BY <1>1, <1>2
  <2>2. QED
    BY <1>2, <1>4, <2>1, OneChanges
<1>6. /\ sent' = sent + 1
      /\ \A r \in requests' : r \in requests \/ (IsRequest(r)' /\ r.from \in 0..minted')
  <2>1. /\ minted' \in Nat /\ minted <= minted' /\ 0 \in 0..minted /\ question.text \in Nat
        /\ "plan" \in {"plan", "option", "form"}
    BY <1>1, <1>2, <1>3
  <2>2. /\ DOMAIN ToContextTurns(turns) \subseteq Nat
        /\ ToContextTurns(turns) \in [DOMAIN ToContextTurns(turns) -> [question: Nat, asked: Nat]]
    BY <1>1, ContextTyped
  <2>3. QED
    BY <1>2, <2>1, <2>2, SentGood
<1>7. \A h \in fresh' : NoQuestionIn(conversations'[h].turns)
  BY <1>1, <1>2, <1>5
<1>8. controls' \subseteq [turn: 1..minted', by: 1..sent']
  BY <1>1, <1>2, <1>6
<1>9. IInv'
  BY <1>1, <1>2, <1>5, <1>6, <1>7, <1>8, StepGood
<1>10. Kept
  <2>1. conversations[k].turns = turns /\ Extends(turns, turns)
    BY <1>1, SameExtends DEF turns, TurnsOf
  <2>2. /\ Extends(turns, more) /\ Len(turns) \in Nat /\ Len(more) = Len(turns) + 1
        /\ more[Len(turns) + 1] = question
    BY <1>3, <2>1, AppendExtends DEF more
  <2>3. Homes(k)
    BY <1>3, <1>5, <2>1, <2>2 DEF Homes
  <2>4. QED
    BY <1>5, <2>1, <2>2, <2>3, OneGrows
<1>11. QED
  BY <1>9, <1>10

LEMMA ChooseGood ==
    ASSUME IInv, NEW k \in Keys, NEW i \in DOMAIN TurnsOf(k), NEW op \in Operations,
           ChooseAlternative(k, i, op)
    PROVE  IInv' /\ Kept
<1> DEFINE turns == TurnsOf(k)
           id == turns[i].id
           query == NearestQuestion(turns, i)
           marks == MarkChosen(turns, id, op)
           choice == [Blank(minted + 1, "choice") EXCEPT !.text = query, !.chosen = op, !.from = id]
           more == Append(marks, choice)
<1>1. /\ minted \in Nat /\ GoodTurns(turns, minted) /\ turns \in Seq(Turn)
      /\ screen \in Keys /\ fresh \subseteq Keys
      /\ controls \subseteq [turn: 1..minted, by: 1..sent] /\ sent \in Nat
      /\ \A h \in fresh : NoQuestionIn(conversations[h].turns)
  BY DEF IInv, TypeOK, TurnsOf, GoodTurns
<1>2. /\ minted' = minted + 1 /\ screen' = screen /\ controls' = controls /\ fresh' = fresh \ {k}
      /\ turns[i].role = "alternatives" /\ turns[i].chosen = None
      /\ Becomes(k, more, TRUE)
      /\ Send(k, "plan", query, id, ToContextTurns(turns))
  BY DEF ChooseAlternative, Becomes
<1>3. query \in Nat /\ id \in 1..minted /\ id \in Nat /\ op # None
  <2>1. id \in 1..minted
    BY <1>1 DEF GoodTurns
  <2>2. query \in Nat
    BY <1>1, NearestIsWords
  <2> HIDE DEF id, query
  <2>3. QED
    BY <1>1, <2>1, <2>2, NoneAssumption
<1> HIDE DEF query
<1>4. choice \in Turn /\ choice.id = minted + 1 /\ choice.from = id /\ choice.role = "choice"
  <2> HIDE DEF id
  <2> DEFINE blank == Blank(minted + 1, "choice")
             worded == [blank EXCEPT !.text = query]
             chosen == [worded EXCEPT !.chosen = op]
  <2>1. choice = [id |-> minted + 1, role |-> "choice", text |-> query, kind |-> None,
                  chosen |-> op, asked |-> 0, from |-> id, by |-> 0]
    <3>1. worded = [id |-> minted + 1, role |-> "choice", text |-> query, kind |-> None,
                    chosen |-> None, asked |-> 0, from |-> 0, by |-> 0]
      BY DEF Blank, NoQuestion
    <3>2. choice = [chosen EXCEPT !.from = id]
      OBVIOUS
    <3> HIDE DEF worded, choice
    <3>3. chosen = [id |-> minted + 1, role |-> "choice", text |-> query, kind |-> None,
                    chosen |-> op, asked |-> 0, from |-> 0, by |-> 0]
      BY <3>1
    <3> HIDE DEF chosen
    <3>4. QED
      BY <3>2, <3>3
  <2> HIDE DEF choice
  <2>2. QED
    BY <1>1, <1>3, <2>1 DEF Turn
<1>5. /\ GoodTurns(marks, minted) /\ DOMAIN marks = DOMAIN turns
      /\ \A j \in DOMAIN turns :
           /\ marks[j].id = turns[j].id /\ marks[j].role = turns[j].role /\ marks[j].from = turns[j].from
           /\ turns[j].id = id => marks[j].chosen = op
  <2> HIDE DEF id, turns
  <2>1. GoodTurns(turns, minted) /\ minted \in Nat /\ id \in Nat /\ op \in Operations
    BY <1>1, <1>3
  <2>2. GoodTurns(marks, minted) /\ DOMAIN marks = DOMAIN turns
    BY <2>1, MarkGood
  <2>3. ASSUME NEW j \in DOMAIN turns
        PROVE  /\ marks[j].id = turns[j].id /\ marks[j].role = turns[j].role /\ marks[j].from = turns[j].from
               /\ turns[j].id = id => marks[j].chosen = op
    BY <2>1, MarkSays
  <2>4. QED
    BY <2>2, <2>3
<1>6. \A j \in DOMAIN turns : turns[j].role = "choice" => turns[j].from # id
  <2>1. \A j \in DOMAIN turns : turns[j].role = "choice" /\ turns[i].id = turns[j].from => turns[i].chosen # None
    BY <1>1 DEF GoodTurns
  <2>2. QED
    BY <1>2, <2>1
<1> HIDE DEF turns, id, marks, choice
<1>7. GoodTurns(more, minted')
  <2>1. \A j \in DOMAIN marks : /\ marks[j].role = "choice" => marks[j].from # choice.from
                                /\ marks[j].id = choice.from => marks[j].chosen # None
    BY <1>3, <1>4, <1>5, <1>6
  <2>2. choice.id \in (minted + 1)..(minted + 1) /\ minted < minted + 1 /\ choice.from \in 0..minted
    BY <1>1, <1>3, <1>4
  <2>3. QED
    BY <1>1, <1>2, <1>4, <1>5, <2>1, <2>2, AppendGood
<1> HIDE DEF more
<1>8. /\ conversations' \in [Keys -> [turns: Seq(Turn), pending: BOOLEAN]]
      /\ \A h \in Keys : GoodTurns(conversations'[h].turns, minted')
      /\ \A h \in Keys : h # k => conversations'[h] = conversations[h]
      /\ conversations'[k].turns = more
  <2>1. minted' \in Nat /\ minted <= minted' /\ TRUE \in BOOLEAN
    BY <1>1, <1>2
  <2>2. QED
    BY <1>2, <1>7, <2>1, OneChanges
<1>9. /\ sent' = sent + 1
      /\ \A r \in requests' : r \in requests \/ (IsRequest(r)' /\ r.from \in 0..minted')
  <2>1. /\ minted' \in Nat /\ minted <= minted' /\ id \in 0..minted
        /\ "plan" \in {"plan", "option", "form"}
    BY <1>1, <1>2, <1>3
  <2>2. /\ DOMAIN ToContextTurns(turns) \subseteq Nat
        /\ ToContextTurns(turns) \in [DOMAIN ToContextTurns(turns) -> [question: Nat, asked: Nat]]
    BY <1>1, ContextTyped
  <2>3. QED
    BY <1>2, <1>3, <2>1, <2>2, SentGood
<1>10. IInv'
  <2>1. \A h \in fresh' : NoQuestionIn(conversations'[h].turns)
    BY <1>1, <1>2, <1>8
  <2>2. controls' \subseteq [turn: 1..minted', by: 1..sent']
    BY <1>1, <1>2, <1>9
  <2>3. QED
    BY <1>1, <1>2, <1>8, <1>9, <2>1, <2>2, StepGood
<1>11. Kept
  <2>1. conversations[k].turns = turns
    BY DEF turns, TurnsOf
  <2>2. Extends(turns, marks) /\ Len(marks) = Len(turns)
    BY <1>1, <1>3, MarkExtends DEF marks
  <2>3. /\ Extends(turns, more) /\ Len(turns) \in Nat /\ Len(more) = Len(turns) + 1
        /\ more[Len(turns) + 1] = choice
    BY <1>4, <2>2, AppendExtends DEF more
  <2>4. Homes(k)
    BY <1>4, <1>8, <2>1, <2>3 DEF Homes
  <2>5. QED
    BY <1>8, <2>1, <2>3, <2>4, OneGrows
<1>12. QED
  BY <1>10, <1>11

LEMMA PressGood ==
    ASSUME IInv, NEW k \in Keys, NEW i \in DOMAIN TurnsOf(k), Press(k, i)
    PROVE  IInv' /\ Kept
<1> DEFINE turns == TurnsOf(k)
           turn == turns[i]
           sort == IF turn.kind = "ask" THEN "option" ELSE "form"
           asked == IF turn.kind = "ask" THEN NearestQuestion(turns, i) ELSE turn.asked
<1>1. /\ minted \in Nat /\ GoodTurns(turns, minted) /\ turns \in Seq(Turn)
      /\ screen \in Keys /\ fresh \subseteq Keys
      /\ controls \subseteq [turn: 1..minted, by: 1..sent] /\ sent \in Nat
      /\ \A h \in fresh : NoQuestionIn(conversations[h].turns)
      /\ \A h \in Keys : GoodTurns(conversations[h].turns, minted)
      /\ conversations \in [Keys -> [turns: Seq(Turn), pending: BOOLEAN]]
  BY DEF IInv, TypeOK, TurnsOf, GoodTurns
<1>2. /\ minted' = minted /\ screen' = screen /\ fresh' = fresh /\ conversations' = conversations
      /\ controls' = controls \union {[turn |-> turn.id, by |-> sent + 1]}
      /\ Send(k, sort, asked, turn.id, <<>>)
  BY DEF Press
<1>3. asked \in Nat /\ turn.id \in 1..minted /\ sort \in {"plan", "option", "form"}
  <2>1. turn.id \in 1..minted
    BY <1>1 DEF GoodTurns
  <2>2. NearestQuestion(turns, i) \in Nat /\ turn \in Turn
    BY <1>1, NearestIsWords
  <2>3. turn.asked \in Nat
    BY <2>2 DEF Turn
  <2>4. QED
    BY <2>1, <2>2, <2>3
<1> HIDE DEF turns, turn, sort, asked
<1>4. /\ sent' = sent + 1
      /\ \A r \in requests' : r \in requests \/ (IsRequest(r)' /\ r.from \in 0..minted')
  <2>1. minted' \in Nat /\ minted <= minted' /\ turn.id \in 0..minted
    BY <1>1, <1>2, <1>3
  <2>2. QED
    BY <1>2, <1>3, <2>1, NoContext, SentGood
<1>5. controls' \subseteq [turn: 1..minted', by: 1..sent']
  BY <1>1, <1>2, <1>3, <1>4
<1>6. IInv'
  BY <1>1, <1>2, <1>4, <1>5, StepGood
<1>7. QED
  BY <1>2, <1>6, NoneChanges

LEMMA NewConversationGood ==
    ASSUME IInv, NEW k \in Keys, NewConversation(k)
    PROVE  IInv' /\ Kept
<1>1. /\ minted \in Nat /\ sent \in Nat /\ screen \in Keys /\ fresh \subseteq Keys
      /\ controls \subseteq [turn: 1..minted, by: 1..sent]
      /\ \A h \in fresh : NoQuestionIn(conversations[h].turns)
      /\ \A h \in Keys : conversations[h].turns \in Seq(Turn)
  BY DEF IInv, TypeOK, GoodTurns
<1>2. /\ minted' = minted /\ sent' = sent /\ screen' = screen /\ requests' = requests
      /\ fresh' = fresh \union {k} /\ controls' \subseteq controls
      /\ Becomes(k, <<>>, FALSE)
  BY DEF NewConversation, Unmount, Becomes, Empty
<1>3. /\ conversations' \in [Keys -> [turns: Seq(Turn), pending: BOOLEAN]]
      /\ \A h \in Keys : GoodTurns(conversations'[h].turns, minted')
      /\ \A h \in Keys : h # k => conversations'[h] = conversations[h]
      /\ conversations'[k].turns = <<>>
  <2>1. minted' \in Nat /\ minted <= minted' /\ FALSE \in BOOLEAN
    BY <1>1, <1>2
  <2>2. GoodTurns(<<>>, minted')
    BY <2>1, NoTurnsGood
  <2>3. QED
    BY <1>2, <2>1, <2>2, OneChanges
<1>4. IInv'
  <2>1. \A h \in fresh' : NoQuestionIn(conversations'[h].turns)
    BY <1>1, <1>2, <1>3, NoTurnsGood
  <2>2. /\ fresh' \subseteq Keys /\ screen' \in Keys /\ minted' \in Nat /\ sent' \in Nat
        /\ minted <= minted' /\ sent <= sent'
        /\ controls' \subseteq [turn: 1..minted', by: 1..sent']
        /\ \A r \in requests' : r \in requests
    BY <1>1, <1>2
  <2>3. QED
    BY <1>3, <2>1, <2>2, StepGood
<1>5. Kept
  <2>1. k \in fresh' /\ conversations'[k] = Empty
    <3>1. conversations \in [Keys -> [turns: Seq(Turn), pending: BOOLEAN]]
      BY DEF IInv, TypeOK
    <3>2. QED
      BY <1>2, <3>1 DEF Becomes, Empty
  <2>2. Homes(k)
    <3>1. Len(conversations[k].turns) \in Nat /\ Len(conversations'[k].turns) = 0
      BY <1>1, <1>3
    <3>2. (Len(conversations[k].turns) + 1)..Len(conversations'[k].turns) = {}
      BY <3>1
    <3>3. QED
      BY <3>2 DEF Homes
  <2>3. ASSUME NEW h \in Keys, h # k
        PROVE  Extends(conversations[h].turns, conversations'[h].turns) /\ Homes(h)
    BY <1>1, <1>3, <2>3, OneSame
  <2>4. QED
    BY <2>1, <2>2, <2>3 DEF Kept
<1>6. QED
  BY <1>4, <1>5

LEMMA ShowGood ==
    ASSUME IInv, NEW k \in Keys, Show(k)
    PROVE  IInv' /\ Kept
<1>1. /\ minted \in Nat /\ sent \in Nat /\ fresh \subseteq Keys
      /\ controls \subseteq [turn: 1..minted, by: 1..sent]
      /\ \A h \in fresh : NoQuestionIn(conversations[h].turns)
      /\ \A h \in Keys : GoodTurns(conversations[h].turns, minted)
      /\ conversations \in [Keys -> [turns: Seq(Turn), pending: BOOLEAN]]
  BY DEF IInv, TypeOK
<1>2. /\ minted' = minted /\ sent' = sent /\ screen' = k /\ requests' = requests
      /\ fresh' = fresh /\ controls' \subseteq controls /\ conversations' = conversations
  BY DEF Show, Unmount
<1>3. /\ minted <= minted' /\ sent <= sent' /\ controls' \subseteq [turn: 1..minted', by: 1..sent']
      /\ \A r \in requests' : r \in requests
  BY <1>1, <1>2
<1>4. IInv'
  BY <1>1, <1>2, <1>3, StepGood
<1>5. QED
  BY <1>2, <1>4, NoneChanges

LEMMA FailedGood ==
    ASSUME IInv, NEW r \in requests, Failed(r)
    PROVE  IInv' /\ Kept
<1>1. /\ minted \in Nat /\ sent \in Nat /\ fresh \subseteq Keys /\ screen \in Keys
      /\ controls \subseteq [turn: 1..minted, by: 1..sent]
      /\ \A h \in fresh : NoQuestionIn(conversations[h].turns)
      /\ \A h \in Keys : GoodTurns(conversations[h].turns, minted)
      /\ \A h \in Keys : conversations[h].turns \in Seq(Turn)
      /\ conversations \in [Keys -> [turns: Seq(Turn), pending: BOOLEAN]]
  BY DEF IInv, TypeOK, GoodTurns
<1>2. /\ minted' = minted /\ sent' = sent /\ screen' = screen /\ fresh' = fresh
      /\ \A q \in requests' : q \in requests
      /\ controls' \subseteq controls
      /\ \/ conversations' = conversations
         \/ conversations' = [conversations EXCEPT ![r.key].pending = FALSE]
  BY DEF Failed
<1>3. /\ \A h \in Keys : conversations'[h].turns = conversations[h].turns
      /\ conversations' \in [Keys -> [turns: Seq(Turn), pending: BOOLEAN]]
  <2>1. CASE conversations' = conversations
    BY <1>1, <2>1
  <2>2. CASE conversations' = [conversations EXCEPT ![r.key].pending = FALSE]
    <3>1. /\ conversations' \in [Keys -> [turns: Seq(Turn), pending: BOOLEAN]]
          /\ \A h \in Keys : conversations'[h].turns = conversations[h].turns
      BY <1>1, <2>2
    <3>2. QED
      BY <3>1
  <2>3. QED
    BY <1>2, <2>1, <2>2
<1>4. /\ minted <= minted' /\ sent <= sent' /\ controls' \subseteq [turn: 1..minted', by: 1..sent']
  BY <1>1, <1>2
<1>5. /\ \A h \in Keys : GoodTurns(conversations'[h].turns, minted')
      /\ \A h \in fresh' : NoQuestionIn(conversations'[h].turns)
  BY <1>1, <1>2, <1>3
<1>6. IInv'
  BY <1>1, <1>2, <1>3, <1>4, <1>5, StepGood
<1>7. ASSUME NEW h \in Keys
      PROVE  Extends(conversations[h].turns, conversations'[h].turns) /\ Homes(h)
  BY <1>1, <1>3, OneSame
<1>8. QED
  BY <1>6, <1>7 DEF Kept

\* The turns an answer adds are good ones, and none is a question.
LEMMA AnswerTyped ==
    ASSUME IInv, NEW r \in requests, NEW kind \in Kinds
    PROVE  /\ AnswerTurn(r, kind) \in Turn /\ AnswerTurn(r, kind).id = minted + 1
           /\ AnswerTurn(r, kind).from \in 0..minted /\ AnswerTurn(r, kind).by = r.id
           /\ AnswerTurn(r, kind).role = "answer"
<1>1. minted \in Nat /\ sent \in Nat /\ r.id \in 1..sent /\ r.asked \in Nat /\ r.from \in 0..minted
  BY DEF IInv, TypeOK, IsRequest
<1> DEFINE blank == Blank(minted + 1, "answer")
           kinded == [blank EXCEPT !.kind = kind]
           given == [kinded EXCEPT !.asked = r.asked]
           traced == [given EXCEPT !.from = r.from]
<1>2. kinded = [id |-> minted + 1, role |-> "answer", text |-> 0, kind |-> kind,
                chosen |-> None, asked |-> 0, from |-> 0, by |-> 0]
  BY DEF Blank, NoQuestion
<1>3. AnswerTurn(r, kind) = [traced EXCEPT !.by = r.id]
  BY DEF AnswerTurn
<1> HIDE DEF kinded
<1>4. given = [id |-> minted + 1, role |-> "answer", text |-> 0, kind |-> kind,
               chosen |-> None, asked |-> r.asked, from |-> 0, by |-> 0]
  BY <1>2
<1> HIDE DEF given
<1>5. traced = [id |-> minted + 1, role |-> "answer", text |-> 0, kind |-> kind,
                chosen |-> None, asked |-> r.asked, from |-> r.from, by |-> 0]
  BY <1>4
<1> HIDE DEF traced
<1>6. AnswerTurn(r, kind) = [id |-> minted + 1, role |-> "answer", text |-> 0, kind |-> kind,
                             chosen |-> None, asked |-> r.asked, from |-> r.from, by |-> r.id]
  BY <1>3, <1>5
<1>7. QED
  BY <1>1, <1>6 DEF Turn

LEMMA RowTyped ==
    ASSUME NEW id \in Nat
    PROVE  /\ Blank(id, "alternatives") \in Turn /\ Blank(id, "alternatives").id = id
           /\ Blank(id, "alternatives").from = 0 /\ Blank(id, "alternatives").role = "alternatives"
BY DEF Blank, Turn, NoQuestion

\* An answer, with a row of alternatives or without.
LEMMA AnswersAppended ==
    ASSUME IInv, NEW r \in requests, r \notin requests', NEW kind \in Kinds, NEW row \in BOOLEAN,
           NEW pending \in BOOLEAN,
           Becomes(r.key, Append(conversations[r.key].turns, AnswerTurn(r, kind))
                            \o IF row THEN <<Blank(minted + 2, "alternatives")>> ELSE <<>>, pending),
           minted' = minted + (IF row THEN 2 ELSE 1), fresh' = fresh
    PROVE  /\ conversations' \in [Keys -> [turns: Seq(Turn), pending: BOOLEAN]]
           /\ \A h \in Keys : GoodTurns(conversations'[h].turns, minted')
           /\ \A h \in fresh' : NoQuestionIn(conversations'[h].turns)
           /\ minted' \in Nat /\ minted <= minted'
           /\ Kept
<1> DEFINE k == r.key
           turns == conversations[k].turns
           answer == AnswerTurn(r, kind)
           more == Append(turns, answer)
           brow == Blank(minted + 2, "alternatives")
           all == more \o IF row THEN <<brow>> ELSE <<>>
<1>1. /\ minted \in Nat /\ k \in Keys /\ GoodTurns(turns, minted) /\ turns \in Seq(Turn) /\ fresh \subseteq Keys
      /\ \A h \in fresh : NoQuestionIn(conversations[h].turns)
  BY DEF IInv, TypeOK, GoodTurns, IsRequest
<1>2. /\ answer \in Turn /\ answer.id = minted + 1 /\ answer.from \in 0..minted /\ answer.by = r.id
      /\ answer.role = "answer"
  BY AnswerTyped
<1>3. brow \in Turn /\ brow.id = minted + 2 /\ brow.from = 0 /\ brow.role = "alternatives"
  <2>1. minted + 2 \in Nat
    BY <1>1
  <2>2. QED
    BY <2>1, RowTyped
<1>4. minted' \in Nat /\ minted < minted' /\ minted <= minted' /\ minted + 1 \in Nat /\ minted + 1 <= minted'
  BY <1>1
<1>5. /\ Extends(turns, turns) /\ Len(turns) \in Nat /\ DOMAIN turns = 1..Len(turns)
  BY <1>1, SameExtends
<1> HIDE DEF answer, brow, turns
<1>6. GoodTurns(more, minted + 1)
  <2>1. answer.id \in (minted + 1)..(minted + 1) /\ minted < minted + 1
    BY <1>1, <1>2
  <2>2. QED
    BY <1>1, <1>2, <1>4, <2>1, AppendGood
<1>7. /\ Extends(turns, more) /\ Len(more) = Len(turns) + 1 /\ more[Len(turns) + 1] = answer
      /\ \A i \in DOMAIN turns : more[i] = turns[i]
  BY <1>2, <1>5, AppendExtends
<1> HIDE DEF more
<1>8. more \in Seq(Turn) /\ DOMAIN more = 1..Len(more)
  BY <1>6 DEF GoodTurns
<1>9. /\ GoodTurns(all, minted') /\ Extends(turns, all)
      /\ \A i \in DOMAIN all : i \in DOMAIN turns \/ all[i] = answer \/ all[i] = brow
      /\ \A i \in DOMAIN turns : all[i] = turns[i]
      /\ DOMAIN all = 1..Len(all)
  <2>1. CASE row
    <3>1. all = Append(more, brow)
      BY <1>3, <1>8, <2>1, AppendOne
    <3>2. GoodTurns(all, minted')
      <4>1. /\ brow.id \in ((minted + 1) + 1)..minted' /\ brow.from \in 0..(minted + 1)
            /\ minted + 1 < minted'
        BY <1>1, <1>3, <2>1
      <4>2. GoodTurns(Append(more, brow), minted')
        BY <1>3, <1>4, <1>6, <4>1, AppendGood
      <4>3. QED
        BY <3>1, <4>2
    <3> HIDE DEF all
    <3>3. /\ Extends(turns, all) /\ Len(all) = Len(more) + 1 /\ all[Len(more) + 1] = brow
          /\ \A i \in DOMAIN more : all[i] = more[i]
      BY <1>3, <1>7, <3>1, AppendExtends
    <3>4. DOMAIN all = 1..Len(all)
      BY <3>2 DEF GoodTurns
    <3>5. ASSUME NEW i \in DOMAIN all PROVE i \in DOMAIN turns \/ all[i] = answer \/ all[i] = brow
      BY <1>5, <1>7, <1>8, <3>3, <3>4
    <3>6. \A i \in DOMAIN turns : all[i] = turns[i]
      BY <1>5, <1>7, <1>8, <3>3
    <3>7. QED
      BY <3>2, <3>3, <3>4, <3>5, <3>6
  <2>2. CASE ~row
    <3>1. all = more
      BY <1>3, <1>8, <2>2, AppendOne
    <3>2. minted' = minted + 1
      BY <2>2
    <3> HIDE DEF all
    <3>3. ASSUME NEW i \in DOMAIN all PROVE i \in DOMAIN turns \/ all[i] = answer \/ all[i] = brow
      BY <1>5, <1>7, <1>8, <3>1
    <3>4. QED
      BY <1>6, <1>7, <1>8, <3>1, <3>2, <3>3
  <2>3. QED
    BY <2>1, <2>2
<1>10. Becomes(k, all, pending)
  BY DEF all, more, turns, answer, brow
<1> HIDE DEF all
<1>11. /\ conversations' \in [Keys -> [turns: Seq(Turn), pending: BOOLEAN]]
       /\ \A h \in Keys : GoodTurns(conversations'[h].turns, minted')
       /\ \A h \in Keys : h # k => conversations'[h] = conversations[h]
       /\ conversations'[k].turns = all
  BY <1>1, <1>4, <1>9, <1>10, OneChanges
<1>12. ASSUME NEW h \in fresh' PROVE NoQuestionIn(conversations'[h].turns)
  <2>1. NoQuestionIn(conversations[h].turns) /\ h \in Keys
    BY <1>1
  <2>2. CASE h # k
    BY <1>11, <2>1, <2>2
  <2>3. CASE h = k
    <3>1. \A i \in DOMAIN turns : turns[i].role # "question"
      BY <2>1, <2>3 DEF NoQuestionIn, turns
    <3>2. \A i \in DOMAIN all : all[i].role # "question"
      BY <1>2, <1>3, <1>9, <3>1
    <3>3. QED
      BY <1>11, <2>3, <3>2 DEF NoQuestionIn
  <2>4. QED
    BY <2>2, <2>3
<1>13. Kept
  <2>1. conversations[k].turns = turns
    BY DEF turns
  <2>2. ASSUME NEW i \in (Len(turns) + 1)..Len(all), all[i].role = "answer"
        PROVE  r.id = all[i].by
    <3>1. i \in DOMAIN all /\ i \notin DOMAIN turns
      BY <1>5, <1>9, <2>2
    <3>2. all[i] = answer
      BY <1>3, <1>9, <2>2, <3>1
    <3>3. QED
      BY <1>2, <3>2
  <2>3. Homes(k)
    BY <1>11, <2>1, <2>2 DEF Homes
  <2>4. Extends(conversations[k].turns, conversations'[k].turns)
    BY <1>9, <1>11, <2>1
  <2>5. QED
    BY <1>1, <1>11, <2>3, <2>4, OneGrows
<1>14. QED
  BY <1>4, <1>11, <1>12, <1>13

LEMMA AnsweredGood ==
    ASSUME IInv, NEW r \in requests, Answered(r)
    PROVE  IInv' /\ Kept
<1> DEFINE k == r.key
<1>1. /\ minted \in Nat /\ sent \in Nat /\ fresh \subseteq Keys /\ screen \in Keys
      /\ controls \subseteq [turn: 1..minted, by: 1..sent]
      /\ k \in Keys /\ r.sort \in {"plan", "option", "form"}
      /\ conversations \in [Keys -> [turns: Seq(Turn), pending: BOOLEAN]]
  BY DEF IInv, TypeOK, IsRequest
<1>2. /\ sent' = sent /\ screen' = screen /\ fresh' = fresh /\ controls' \subseteq controls
      /\ requests' = requests \ {r}
      /\ IF r.sort = "plan" THEN PlanAnswered(r) ELSE ControlAnswered(r)
  BY DEF Answered
<1>3. PICK kind \in Kinds, row \in BOOLEAN, pending \in BOOLEAN :
         /\ Becomes(k, Append(conversations[k].turns, AnswerTurn(r, kind))
                         \o IF row THEN <<Blank(minted + 2, "alternatives")>> ELSE <<>>, pending)
         /\ minted' = minted + (IF row THEN 2 ELSE 1)
  <2>1. CASE r.sort = "plan"
    <3>1. PICK kind \in Kinds, row \in BOOLEAN :
             /\ conversations' = [conversations EXCEPT
                  ![r.key].pending = FALSE,
                  ![r.key].turns = Append(@, AnswerTurn(r, kind))
                                   \o IF row THEN <<Blank(minted + 2, "alternatives")>> ELSE <<>>]
             /\ minted' = minted + (IF row THEN 2 ELSE 1)
      BY <1>2, <2>1 DEF PlanAnswered
    <3>2. Becomes(k, Append(conversations[k].turns, AnswerTurn(r, kind))
                       \o IF row THEN <<Blank(minted + 2, "alternatives")>> ELSE <<>>, FALSE)
      <4> DEFINE free == FALSE
                 unlocked == [conversations EXCEPT ![k].pending = free]
                 all == Append(conversations[k].turns, AnswerTurn(r, kind))
                          \o IF row THEN <<Blank(minted + 2, "alternatives")>> ELSE <<>>
      <4>1. conversations' = [unlocked EXCEPT ![k].turns = all]
        BY <1>1, <3>1
      <4>2. free \in BOOLEAN
        OBVIOUS
      <4> HIDE DEF free, all
      <4>3. /\ unlocked[k] = [turns |-> conversations[k].turns, pending |-> free]
            /\ unlocked \in [Keys -> [turns: Seq(Turn), pending: BOOLEAN]]
            /\ \A h \in Keys : h # k => unlocked[h] = conversations[h]
        BY <1>1, <4>2
      <4> HIDE DEF unlocked
      <4>4. [unlocked[k] EXCEPT !.turns = all] = [turns |-> all, pending |-> free]
        BY <4>3
      <4>5. conversations' = [unlocked EXCEPT ![k] = [turns |-> all, pending |-> free]]
        BY <4>1, <4>4
      <4>6. conversations' = [conversations EXCEPT ![k] = [turns |-> all, pending |-> free]]
        BY <1>1, <4>3, <4>5
      <4>7. QED
        BY <4>6 DEF Becomes, all, free
    <3>3. QED
      BY <3>1, <3>2
  <2>2. CASE r.sort # "plan"
    <3>1. PICK kind \in Kinds :
             /\ conversations' = [conversations EXCEPT ![r.key].turns = Append(@, AnswerTurn(r, kind))]
             /\ minted' = minted + 1
      BY <1>2, <2>2 DEF ControlAnswered, Kinds
    <3> DEFINE more == Append(conversations[k].turns, AnswerTurn(r, kind))
    <3>2. Becomes(k, more, conversations[k].pending)
      <4>1. conversations' = [conversations EXCEPT ![k].turns = more]
        BY <3>1
      <4> HIDE DEF more
      <4>2. QED
        <5>1. [conversations[k] EXCEPT !.turns = more] = [turns |-> more, pending |-> conversations[k].pending]
          BY <1>1
        <5>2. QED
          BY <4>1, <5>1 DEF Becomes
    <3>3. more \o (IF FALSE THEN <<Blank(minted + 2, "alternatives")>> ELSE <<>>) = more
      <4>1. conversations[k].turns \in Seq(Turn) /\ AnswerTurn(r, kind) \in Turn
        BY <1>1, AnswerTyped
      <4>2. more \in Seq(Turn)
        BY <4>1
      <4> HIDE DEF more
      <4>3. more \o <<>> = more
        BY <4>2
      <4>4. QED
        BY <4>3
    <3>4. conversations[k].pending \in BOOLEAN
      BY <1>1
    <3>5. minted' = minted + (IF FALSE THEN 2 ELSE 1)
      BY <3>1
    <3>6. QED
      BY <3>2, <3>3, <3>4, <3>5
  <2>3. QED
    BY <2>1, <2>2
<1>4. /\ conversations' \in [Keys -> [turns: Seq(Turn), pending: BOOLEAN]]
      /\ \A h \in Keys : GoodTurns(conversations'[h].turns, minted')
      /\ \A h \in fresh' : NoQuestionIn(conversations'[h].turns)
      /\ minted' \in Nat /\ minted <= minted'
      /\ Kept
  BY <1>2, <1>3, AnswersAppended
<1>5. controls' \subseteq [turn: 1..minted', by: 1..sent'] /\ sent <= sent'
  BY <1>1, <1>2, <1>4
<1>6. IInv'
  BY <1>1, <1>2, <1>4, <1>5, StepGood
<1>7. QED
  BY <1>4, <1>6

-----------------------------------------------------------------------------
(* The invariant, and what follows from it. *)

LEMMA InitGood == Init => IInv
<1> SUFFICES ASSUME Init PROVE IInv
  OBVIOUS
<1>1. /\ conversations = [k \in Keys |-> Empty] /\ screen \in Keys
      /\ controls = {} /\ requests = {} /\ minted = 0 /\ sent = 0 /\ fresh = {}
  BY DEF Init
<1>2. Empty \in [turns: Seq(Turn), pending: BOOLEAN] /\ Empty.turns = <<>>
  <2>1. <<>> \in Seq(Turn)
    OBVIOUS
  <2>2. QED
    BY <2>1 DEF Empty
<1>3. /\ conversations \in [Keys -> [turns: Seq(Turn), pending: BOOLEAN]]
      /\ \A k \in Keys : conversations[k].turns = <<>>
  BY <1>1, <1>2
<1>4. \A k \in Keys : GoodTurns(conversations[k].turns, minted)
  BY <1>1, <1>3, NoTurnsGood
<1>5. TypeOK
  BY <1>1, <1>3, <1>4 DEF TypeOK, TurnsOf, GoodTurns
<1>6. QED
  BY <1>1, <1>4, <1>5 DEF IInv

LEMMA StutterGood ==
    ASSUME IInv, UNCHANGED vars
    PROVE  IInv' /\ Kept
<1>1. /\ conversations' = conversations /\ screen' = screen /\ controls' = controls
      /\ requests' = requests /\ minted' = minted /\ sent' = sent /\ fresh' = fresh
  BY DEF vars
<1>2. IInv'
  BY <1>1 DEF IInv, TypeOK, TurnsOf, IsRequest
<1>3. QED
  BY <1>1, <1>2, NoneChanges

LEMMA NextGood ==
    ASSUME IInv, [Next]_vars
    PROVE  IInv' /\ Kept
<1>1. CASE \E k \in Keys : Ask(k) \/ NewConversation(k) \/ Show(k)
  BY <1>1, AskGood, NewConversationGood, ShowGood
<1>2. CASE \E k \in Keys : \E i \in DOMAIN TurnsOf(k) :
             Press(k, i) \/ \E op \in Operations : ChooseAlternative(k, i, op)
  BY <1>2, PressGood, ChooseGood
<1>3. CASE \E r \in requests : Answered(r) \/ Failed(r)
  BY <1>3, AnsweredGood, FailedGood
<1>4. CASE UNCHANGED vars
  BY <1>4, StutterGood
<1>5. QED
  BY <1>1, <1>2, <1>3, <1>4 DEF Next

\* The inductive invariant holds of every state of the browser's conversations.
THEOREM Invariant == Spec => []IInv
BY InitGood, NextGood, PTL DEF Spec

\* Every variable of the browser's conversations holds what its comment says, and no
\* two turns of one conversation share an id (createTurnId).
THEOREM TypeCorrect == Spec => []TypeOK
<1>1. IInv => TypeOK
  BY DEF IInv
<1>2. QED
  BY Invariant, <1>1, PTL

\* However answers and presses interleave, one row of alternatives is answered once
\* (chooseAlternative marks the row in the state it reads).
THEOREM ChipsOnce == Spec => []ChipsAnswerOnce
<1>1. IInv => ChipsAnswerOnce
  BY DEF IInv, ChipsAnswerOnce, GoodTurns, TurnsOf
<1>2. QED
  BY Invariant, <1>1, PTL

\* However many answers are on their way, each is added to the conversation its request
\* was sent from (planAndUpdate and submitForm update the key they were called with).
THEOREM AnswersHome == Spec => AnswersComeHome
<1>1. IInv /\ [Next]_vars =>
        [\A k \in Keys :
           Len(TurnsOf(k)') > Len(TurnsOf(k)) =>
              \A i \in (Len(TurnsOf(k)) + 1)..Len(TurnsOf(k)') :
                  TurnsOf(k)'[i].role = "answer" =>
                      \E r \in requests \ requests' : r.id = TurnsOf(k)'[i].by /\ r.key = k]_vars
  BY NextGood DEF Kept, Homes, TurnsOf
<1>2. QED
  BY Invariant, <1>1, PTL DEF Spec, AnswersComeHome

LEMMA ExtendsIsPrefix ==
    ASSUME NEW turns, NEW more, Extends(turns, more)
    PROVE  IsPrefix(Unchosen(turns), Unchosen(more))
<1> DEFINE a == Unchosen(turns)
           b == Unchosen(more)
           l == Len(turns)
           m == Len(more)
<1>1. /\ turns \in Seq(Turn) /\ more \in Seq(Turn) /\ l \in Nat /\ m \in Nat /\ l <= m
      /\ DOMAIN turns = 1..l /\ DOMAIN more = 1..m
      /\ \A i \in 1..l : [more[i] EXCEPT !.chosen = None] = [turns[i] EXCEPT !.chosen = None]
  BY DEF Extends
<1>2. ASSUME NEW t \in Turn PROVE [t EXCEPT !.chosen = None] \in Turn
  BY DEF Turn
<1>3. a \in [1..l -> Turn] /\ b \in [1..m -> Turn]
  <2>1. \A i \in 1..l : [turns[i] EXCEPT !.chosen = None] \in Turn
    BY <1>1, <1>2
  <2>2. \A i \in 1..m : [more[i] EXCEPT !.chosen = None] \in Turn
    BY <1>1, <1>2
  <2>3. QED
    BY <1>1, <2>1, <2>2 DEF Unchosen
<1>4. \A i \in 1..l : a[i] = b[i]
  BY <1>1 DEF Unchosen
<1> HIDE DEF a, b, l, m
<1>5. a \in Seq(Turn) /\ b \in Seq(Turn) /\ Len(a) = l /\ Len(b) = m
  <2>1. l \in Nat /\ m \in Nat
    BY <1>1
  <2>2. a \in Seq(Turn) /\ Len(a) = l
    BY <1>3, <2>1
  <2>3. b \in Seq(Turn) /\ Len(b) = m
    BY <1>3, <2>1
  <2>4. QED
    BY <2>2, <2>3
<1>6. SubSeq(a, 1, l) = SubSeq(b, 1, l)
  BY <1>1, <1>4, <1>5
<1>7. QED
  BY <1>1, <1>5, <1>6 DEF IsPrefix, a, b

\* Whatever else happens, a conversation only loses its turns to the person who ends it
\* (newConversation); a row of alternatives may have been answered meanwhile.
THEOREM NothingLost == Spec => NothingIsLost
<1>1. IInv /\ [Next]_vars =>
        [\A k \in Keys :
           \/ IsPrefix(Unchosen(TurnsOf(k)), Unchosen(TurnsOf(k)'))
           \/ k \in fresh' /\ conversations[k]' = Empty]_vars
  BY NextGood, ExtendsIsPrefix DEF Kept, TurnsOf
<1>2. QED
  BY Invariant, <1>1, PTL DEF Spec, NothingIsLost

LEMMA NoQuestionNoContext ==
    ASSUME NEW turns, NoQuestionIn(turns)
    PROVE  ToContextTurns(turns) = <<>>
<1>1. AnsweredAt(turns) = {}
  BY DEF AnsweredAt, NoQuestionIn
<1>2. ToContextTurns(turns) \in [1..0 -> Nat]
  BY <1>1 DEF ToContextTurns
<1> HIDE DEF ToContextTurns
<1>3. ToContextTurns(turns) \in Seq(Nat) /\ Len(ToContextTurns(turns)) = 0
  BY <1>2
<1>4. QED
  BY <1>3

\* The first question after a conversation was ended carries nothing of it, though answers
\* to the old one went on arriving (toContextTurns pairs questions only).
THEOREM EndedForgotten == Spec => EndedMeansForgotten
<1>1. ASSUME IInv, [Next]_vars, NEW r \in requests' \ requests, r.sort = "plan", r.key \in fresh
      PROVE  r.context = <<>>
  <2>1. PICK k \in Keys : r.key = k /\ r.context = ToContextTurns(TurnsOf(k))
    <3>1. CASE \E k \in Keys : Ask(k)
      BY <1>1, <3>1 DEF Ask, Send
    <3>2. CASE \E k \in Keys : \E i \in DOMAIN TurnsOf(k) : \E op \in Operations : ChooseAlternative(k, i, op)
      BY <1>1, <3>2 DEF ChooseAlternative, Send
    <3>3. CASE \E k \in Keys : \E i \in DOMAIN TurnsOf(k) : Press(k, i)
      BY <1>1, <3>3 DEF Press, Send
    <3>4. CASE \/ \E k \in Keys : NewConversation(k) \/ Show(k)
               \/ \E q \in requests : Answered(q) \/ Failed(q)
               \/ UNCHANGED vars
      BY <1>1, <3>4 DEF NewConversation, Show, Answered, Failed, vars
    <3>5. QED
      BY <1>1, <3>1, <3>2, <3>3, <3>4 DEF Next
  <2>2. NoQuestionIn(TurnsOf(k))
    BY <1>1, <2>1 DEF IInv, TurnsOf
  <2>3. QED
    BY <2>1, <2>2, NoQuestionNoContext
<1>2. IInv /\ [Next]_vars =>
        [\A r \in requests' \ requests : r.sort = "plan" /\ r.key \in fresh => r.context = <<>>]_vars
  BY <1>1
<1>3. QED
  BY Invariant, <1>2, PTL DEF Spec, EndedMeansForgotten
=============================================================================
