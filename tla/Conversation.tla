---------------------------- MODULE Conversation ----------------------------
(***************************************************************************)
(* The browser's conversations (features/conversation, ConversationStore):  *)
(* one for the chat and one for each workspace, held above the screens     *)
(* that draw them.  Asking, choosing one of a result's alternatives,       *)
(* choosing an option of a question back and submitting a form each send a *)
(* request; the person goes on while it is in flight, to another screen, a *)
(* new conversation, or another control, and the answers arrive in any     *)
(* order.  Words are left out: a question is the turn that first carried   *)
(* it.  The platform is a choice of answers and of failure.                *)
(***************************************************************************)
EXTENDS Integers, FiniteSets, SequencesExt

CONSTANTS
    Keys,          \* "chat", and one per workspace
    Operations,    \* what alternatives name
    MaxRequests,   \* bound: the requests a run sends
    None

ASSUME BoundAssumption == MaxRequests \in Nat
ASSUME NoneAssumption == None \notin Operations

VARIABLES
    conversations, \* ConversationProvider's state
    screen,        \* the conversation drawn; its controls are mounted
    controls,      \* mounted ResultChoices and ResultForms that are locked, and by which request
    requests,      \* what is in flight
    minted,        \* nextTurnId
    sent,          \* how many requests were sent
    fresh          \* history: the conversations ended, in which nothing was asked since

vars == <<conversations, screen, controls, requests, minted, sent, fresh>>

\* "plain" stands for the kinds that leave nothing to press: none, capabilities,
\* a proposal, a question back without options.
Kinds == {"result", "form", "ask", "plain"}
NoQuestion == 0

\* text is the question a turn carries (nobody's for an answer); asked, from and by are
\* history: the question the answer was asked with, the turn whose control asked it or
\* was chosen from, and the request it came of.
Turn == [id: Nat, role: {"question", "choice", "answer", "alternatives"}, text: Nat,
         kind: Kinds \union {None}, chosen: Operations \union {None},
         asked: Nat, from: Nat, by: Nat]

\* context: what it says of earlier questions, by their place.
IsRequest(r) ==
    /\ r.id \in 1..sent /\ r.key \in Keys /\ r.sort \in {"plan", "option", "form"}
    /\ r.asked \in Nat /\ r.from \in Nat
    /\ DOMAIN r.context \subseteq Nat /\ r.context \in [DOMAIN r.context -> [question: Nat, asked: Nat]]

Empty == [turns |-> <<>>, pending |-> FALSE]

Init ==
    /\ conversations = [k \in Keys |-> Empty]
    /\ screen \in Keys
    /\ controls = {} /\ requests = {}
    /\ minted = 0 /\ sent = 0
    /\ fresh = {}

Blank(id, role) == [id |-> id, role |-> role, text |-> NoQuestion, kind |-> None,
                    chosen |-> None, asked |-> NoQuestion, from |-> 0, by |-> 0]

TurnsOf(k) == conversations[k].turns

\* The words of the nearest question before a place: a choice, an answer and a row of
\* alternatives are passed over.
NearestQuestion(turns, index) ==
    LET before == {i \in 1..(index - 1) : turns[i].role = "question"}
    IN IF before = {} THEN NoQuestion ELSE turns[Max(before)].text

\* Fault: whatever stands before an answer is its question.
ContextOfAnyTurn(turns) ==
    [i \in {j \in DOMAIN turns : j + 1 \in DOMAIN turns /\ turns[j + 1].role = "answer"} |->
        [question |-> turns[i].text, asked |-> turns[i + 1].asked]]

AnsweredAt(turns) ==
    {i \in DOMAIN turns : turns[i].role = "question" /\ i + 1 \in DOMAIN turns /\ turns[i + 1].role = "answer"}

\* toContextTurns: a question and the answer right after it, by their place; any other turn
\* is dropped.
ToContextTurns(turns) ==
    [i \in AnsweredAt(turns) |-> [question |-> turns[i].text, asked |-> turns[i + 1].asked]]

\* Fault: an alternatives turn stays open.
MarkNothing(turns, id, op) == turns

MarkChosen(turns, id, op) ==
    [i \in DOMAIN turns |-> IF turns[i].id = id THEN [turns[i] EXCEPT !.chosen = op] ELSE turns[i]]

Send(k, sort, asked, from, context) ==
    /\ sent < MaxRequests
    /\ sent' = sent + 1
    /\ requests' = requests \union
         {[id |-> sent + 1, key |-> k, sort |-> sort, asked |-> asked, from |-> from, context |-> context]}

(***************************************************************************)
(* What the person does, on the screen that is drawn.                      *)
(***************************************************************************)

\* ask: the question form and the example questions are disabled while pending.
Ask(k) ==
    LET turns == TurnsOf(k)
        question == [Blank(minted + 1, "question") EXCEPT !.text = minted + 1]
    IN /\ screen = k /\ ~conversations[k].pending
       /\ Send(k, "plan", question.text, 0, ToContextTurns(turns))
       /\ conversations' = [conversations EXCEPT
            ![k] = [turns |-> Append(turns, question), pending |-> TRUE]]
       /\ minted' = minted + 1
       /\ fresh' = fresh \ {k}
       /\ UNCHANGED <<screen, controls>>

\* A chip of an alternatives turn nothing was chosen from: the same question again, shown
\* as a choice.  It is not disabled while pending.
ChooseAlternative(k, i, op) ==
    LET turns == TurnsOf(k)
        query == NearestQuestion(turns, i)
        choice == [Blank(minted + 1, "choice") EXCEPT !.text = query, !.chosen = op, !.from = turns[i].id]
    IN /\ screen = k
       /\ turns[i].role = "alternatives" /\ turns[i].chosen = None
       /\ Send(k, "plan", query, turns[i].id, ToContextTurns(turns))
       /\ conversations' = [conversations EXCEPT
            ![k] = [turns |-> Append(MarkChosen(turns, turns[i].id, op), choice),
                    pending |-> TRUE]]
       /\ minted' = minted + 1
       /\ fresh' = fresh \ {k}
       /\ UNCHANGED <<screen, controls>>

Locked(id) == \E c \in controls : c.turn = id

\* An option of a ResultChoice, or a ResultForm's submit: the control locks, the
\* conversation does not.
Press(k, i) ==
    LET turn == TurnsOf(k)[i]
        asked == IF turn.kind = "ask" THEN NearestQuestion(TurnsOf(k), i) ELSE turn.asked
    IN /\ screen = k
       /\ turn.kind \in {"ask", "form"} /\ ~Locked(turn.id)
       /\ Send(k, IF turn.kind = "ask" THEN "option" ELSE "form", asked, turn.id, <<>>)
       /\ controls' = controls \union {[turn |-> turn.id, by |-> sent + 1]}
       /\ UNCHANGED <<conversations, screen, minted, fresh>>

\* The controls of a conversation that is no longer drawn forget that they were locked.
Unmount(k) == {c \in controls : \A i \in DOMAIN TurnsOf(k) : TurnsOf(k)[i].id # c.turn}

NewConversation(k) ==
    /\ screen = k /\ TurnsOf(k) # <<>>
    /\ conversations' = [conversations EXCEPT ![k] = Empty]
    /\ controls' = Unmount(k)
    /\ fresh' = fresh \union {k}
    /\ UNCHANGED <<screen, requests, minted, sent>>

Show(k) ==
    /\ screen # k
    /\ screen' = k
    /\ controls' = Unmount(screen)
    /\ UNCHANGED <<conversations, requests, minted, sent, fresh>>

(***************************************************************************)
(* What comes back, in any order, to the conversation it was asked in,     *)
(* whatever that has become.                                               *)
(***************************************************************************)
AnswerTurn(r, kind) ==
    [Blank(minted + 1, "answer") EXCEPT !.kind = kind, !.asked = r.asked, !.from = r.from, !.by = r.id]

\* Fault: the answer goes to the conversation on screen.
AnsweredOnScreen(r) ==
    \E kind \in Kinds :
        /\ conversations' = [conversations EXCEPT
             ![screen].pending = FALSE, ![screen].turns = Append(@, AnswerTurn(r, kind))]
        /\ minted' = minted + 1

\* Fault: the answer is added to the turns its question was asked after.
AnsweredOver(r) ==
    \E kind \in Kinds, n \in 0..Len(TurnsOf(r.key)) :
        /\ conversations' = [conversations EXCEPT
             ![r.key].pending = FALSE, ![r.key].turns = Append(SubSeq(@, 1, n), AnswerTurn(r, kind))]
        /\ minted' = minted + 1

\* Fault: the answer and its row of alternatives share an id.
AnsweredSharingAnId(r) ==
    /\ conversations' = [conversations EXCEPT
         ![r.key].pending = FALSE,
         ![r.key].turns = Append(@, AnswerTurn(r, "result")) \o <<Blank(minted + 1, "alternatives")>>]
    /\ minted' = minted + 1

\* planAndUpdate, answeredTurns: a result may bring a row of alternatives.
PlanAnswered(r) ==
    \E kind \in Kinds, alternatives \in BOOLEAN :
        /\ alternatives => kind = "result"
        /\ conversations' = [conversations EXCEPT
             ![r.key].pending = FALSE,
             ![r.key].turns = Append(@, AnswerTurn(r, kind))
                              \o IF alternatives THEN <<Blank(minted + 2, "alternatives")>> ELSE <<>>]
        /\ minted' = minted + (IF alternatives THEN 2 ELSE 1)

\* submitForm: a form's call gives a result, an option any answer; neither touches pending.
ControlAnswered(r) ==
    \E kind \in IF r.sort = "form" THEN {"result"} ELSE Kinds :
        /\ conversations' = [conversations EXCEPT ![r.key].turns = Append(@, AnswerTurn(r, kind))]
        /\ minted' = minted + 1

LocksOf(r) == {c \in controls : c.by = r.id}

Answered(r) ==
    /\ requests' = requests \ {r}
    /\ IF r.sort = "plan" THEN PlanAnswered(r) ELSE ControlAnswered(r)
    /\ controls' = IF r.sort = "form" THEN controls \ LocksOf(r) ELSE controls
    /\ UNCHANGED <<screen, sent, fresh>>

Failed(r) ==
    /\ requests' = requests \ {r}
    /\ conversations' = IF r.sort = "plan"
         THEN [conversations EXCEPT ![r.key].pending = FALSE]
         ELSE conversations
    /\ controls' = controls \ LocksOf(r)
    /\ UNCHANGED <<screen, minted, sent, fresh>>

Next ==
    \/ \E k \in Keys : Ask(k) \/ NewConversation(k) \/ Show(k)
    \/ \E k \in Keys : \E i \in DOMAIN TurnsOf(k) :
         Press(k, i) \/ \E op \in Operations : ChooseAlternative(k, i, op)
    \/ \E r \in requests : Answered(r) \/ Failed(r)

Spec == Init /\ [][Next]_vars

-----------------------------------------------------------------------------
(***************************************************************************)
(* Properties.                                                             *)
(***************************************************************************)

\* Every variable holds what its comment says, and no two turns share an id.
TypeOK ==
    /\ conversations \in [Keys -> [turns: Seq(Turn), pending: BOOLEAN]]
    /\ \A k \in Keys : \A i, j \in DOMAIN TurnsOf(k) : i < j => TurnsOf(k)[i].id < TurnsOf(k)[j].id
    /\ screen \in Keys
    /\ controls \subseteq [turn: 1..minted, by: 1..sent]
    /\ \A r \in requests : IsRequest(r)
    /\ fresh \subseteq Keys
    /\ minted \in Nat /\ sent \in Nat

\* An answer is added to the conversation its request was sent from, whichever
\* screen is drawn when it arrives (AC-M-107).
AnswersComeHome ==
    [][\A k \in Keys :
         Len(TurnsOf(k)') > Len(TurnsOf(k)) =>
            \A i \in (Len(TurnsOf(k)) + 1)..Len(TurnsOf(k)') :
                TurnsOf(k)'[i].role = "answer" =>
                    \E r \in requests \ requests' : r.id = TurnsOf(k)'[i].by /\ r.key = k]_vars

Unchosen(turns) == [i \in DOMAIN turns |-> [turns[i] EXCEPT !.chosen = None]]

\* Only a person who says so ends a conversation: nothing else takes a turn away, though
\* several answers may be on their way to it (M6).
NothingIsLost ==
    [][\A k \in Keys :
         \/ IsPrefix(Unchosen(TurnsOf(k)), Unchosen(TurnsOf(k)'))
         \/ k \in fresh' /\ conversations[k]' = Empty]_vars

\* One row of alternatives is answered once: two chips never stack two operations under
\* one question (H5).
ChipsAnswerOnce ==
    \A k \in Keys : \A i, j \in DOMAIN TurnsOf(k) :
        LET a == TurnsOf(k)[i]  b == TurnsOf(k)[j]
        IN a.role = "choice" /\ b.role = "choice" /\ a.from = b.from => i = j

\* The first question of a conversation that was ended is sent with no turns at all, even
\* when an answer to the old one arrives in between (AC-M-108).
EndedMeansForgotten ==
    [][\A r \in requests' \ requests :
         r.sort = "plan" /\ r.key \in fresh => r.context = <<>>]_vars

\* What the model is told of an earlier question is what was decided for that question (M1).
ContextPairsDecisions ==
    \A r \in requests : \A n \in DOMAIN r.context : r.context[n].question = r.context[n].asked
=============================================================================
