-------------------------- MODULE PanelCardProofs --------------------------
(***************************************************************************)
(* Proofs that a card keeps its invariants, whatever the bounds on calls   *)
(* and edits.  Course is what they rest on: which calls can be in flight   *)
(* under what the lookup found, that once the effect has run a load that   *)
(* is not cancelled is of the panel drawn, that while the effect is left   *)
(* what is drawn and in flight is of an earlier panel, and how many calls  *)
(* there are for the edits made.                                           *)
(***************************************************************************)
EXTENDS PanelCard, FiniteSetTheorems, TLAPS

Card == [loading: BOOLEAN, refreshing: BOOLEAN, failed: BOOLEAN, result: Result \union {None},
         inFlight: BOOLEAN, submitting: BOOLEAN, submitted: BOOLEAN]

CallsFitLookup ==
    \A c \in calls : IF c.sort = "form" THEN lookup = "form" ELSE Enabled(lookup)

LoadsAreCurrent ==
    effect = "none" => \A c \in calls : c.sort = "load" /\ ~c.cancelled => c.version = version

\* What is drawn, and in flight, is of the panel drawn or an earlier one; while the effect is left, of
\* an earlier one, but for the refresh that got in.
EarlierWhileEffectIsLeft ==
    /\ card.result # None => card.result.version <= version
    /\ effect # "none" /\ card.result # None => card.result.version < version
    /\ \A c \in calls : c.version <= version
    /\ effect = "due" => \A c \in calls : c.sort # "form" => c.version < version

\* Until an edit or such a refresh the card knows of the calls in flight, and has none while its effect is left.
CallsAreKnown ==
    version = 0 /\ ~rushed =>
        /\ \A c \in calls : IF c.sort = "form" THEN card.submitting ELSE card.inFlight
        /\ effect # "none" => calls = {}

FormCallsAreKnown == \A c, d \in calls : c.sort = "form" => c = d /\ card.submitting

\* Each edit makes room for a call, the effect that has run for one, and the in-flight mark for one.
FewCalls ==
    /\ IsFiniteSet(calls)
    /\ Cardinality(calls) <= version + (IF effect = "none" THEN 1 ELSE 0)
                                     + (IF Enabled(lookup) /\ card.inFlight THEN 1 ELSE 0)
    /\ ~Enabled(lookup) /\ effect # "none" => version > 0

RoomLeft == made + (IF effect = "none" THEN 0 ELSE 1) <= MaxCalls

\* A card that is not drawn, or not looked up, or a form's, has nothing of usePanelInvoke's.
IdleUnlessEnabled ==
    /\ ~open => calls = {} /\ lookup = "pending" /\ effect = "none"
    /\ ~Enabled(lookup) => card.result = None

Course ==
    /\ CallsFitLookup /\ LoadsAreCurrent /\ EarlierWhileEffectIsLeft
    /\ CallsAreKnown /\ FormCallsAreKnown /\ FewCalls
    /\ RoomLeft /\ IdleUnlessEnabled

OneCallOfUnedited == version = 0 /\ ~rushed => \A c, d \in calls : c = d

Safety == FormsWaitForAPerson /\ LoadsAreOfThePanelDrawn /\ SpinnersMeanCalls /\ OneCallOfUnedited

IInv == TypeOK /\ Course /\ Safety

USE BoundsAssumption, NoneAssumption
-----------------------------------------------------------------------------
(* What the effect of usePanelInvoke does to the calls. *)

LEMMA CancelledCalls ==
    ASSUME TypeOK, IsFiniteSet(calls)
    PROVE  /\ Cancelled(calls) \subseteq Call
           /\ \A c \in Cancelled(calls) : c.sort = "load" => c.cancelled
           /\ \A c \in Cancelled(calls) : \E d \in calls : c.sort = d.sort /\ c.version = d.version
           /\ \A d \in calls : d.sort # "load" => d \in Cancelled(calls)
           /\ IsFiniteSet(Cancelled(calls)) /\ Cardinality(Cancelled(calls)) <= Cardinality(calls)
<1>1. calls \subseteq Call
  BY DEF TypeOK
<1>2. ASSUME NEW d \in calls
      PROVE  [d EXCEPT !.cancelled = TRUE] \in Call
             /\ [d EXCEPT !.cancelled = TRUE].cancelled
             /\ [d EXCEPT !.cancelled = TRUE].sort = d.sort
             /\ [d EXCEPT !.cancelled = TRUE].version = d.version
  BY <1>1 DEF Call
<1>3. ASSUME NEW c \in Cancelled(calls)
      PROVE  c \in Call /\ (c.sort = "load" => c.cancelled)
             /\ \E d \in calls : c.sort = d.sort /\ c.version = d.version
  <2>1. PICK d \in calls : c = IF d.sort = "load" THEN [d EXCEPT !.cancelled = TRUE] ELSE d
    BY DEF Cancelled
  <2>2. CASE d.sort = "load"
    BY <1>2, <2>1, <2>2
  <2>3. CASE d.sort # "load"
    BY <1>1, <2>1, <2>3
  <2>4. QED
    BY <2>2, <2>3
<1>4. ASSUME NEW d \in calls, d.sort # "load" PROVE d \in Cancelled(calls)
  BY <1>4 DEF Cancelled
<1>5. IsFiniteSet(Cancelled(calls)) /\ Cardinality(Cancelled(calls)) <= Cardinality(calls)
  <2> DEFINE f == [c \in calls |-> IF c.sort = "load" THEN [c EXCEPT !.cancelled = TRUE] ELSE c]
  <2>1. f \in Surjection(calls, Cancelled(calls))
    BY DEF Surjection, Cancelled
  <2> HIDE DEF f
  <2>2. QED
    BY <2>1, FS_Surjection
<1>6. QED
  BY <1>3, <1>4, <1>5

\* A call more.
LEMMA OneMore ==
    ASSUME NEW S, NEW x, IsFiniteSet(S)
    PROVE  /\ IsFiniteSet(S \union {x}) /\ Cardinality(S) \in Nat /\ Cardinality(S \union {x}) \in Nat
           /\ Cardinality(S \union {x}) <= Cardinality(S) + 1
<1>1. IsFiniteSet(S \union {x}) /\ Cardinality(S \union {x}) \in {Cardinality(S), Cardinality(S) + 1}
  BY FS_AddElement
<1>2. Cardinality(S) \in Nat
  BY FS_CardinalityType
<1>3. QED
  BY <1>1, <1>2

\* What of the invariant bounds the calls, in numbers.
LEMMA FewCallsFacts ==
    ASSUME IInv
    PROVE  /\ IsFiniteSet(calls) /\ Cardinality(calls) \in Nat /\ version \in Nat /\ made \in Nat
           /\ Cardinality(calls) <= version + 2
           /\ effect # "none" => Cardinality(calls) <= version + 1
           /\ Enabled(lookup) /\ ~card.inFlight => Cardinality(calls) <= version + 1
           /\ effect # "none" /\ ~(Enabled(lookup) /\ card.inFlight) => Cardinality(calls) <= version
           /\ ~(Enabled(lookup) /\ card.inFlight) => Cardinality(calls) <= version + 1
<1>1. IsFiniteSet(calls) /\ Cardinality(calls) \in Nat /\ version \in Nat /\ made \in Nat
  BY FS_CardinalityType DEF IInv, TypeOK, Course, FewCalls
<1>2. Cardinality(calls) <= version + (IF effect = "none" THEN 1 ELSE 0)
                                    + (IF Enabled(lookup) /\ card.inFlight THEN 1 ELSE 0)
  BY DEF IInv, Course, FewCalls
<1>3. QED
  BY <1>1, <1>2

LEMMA OpenStep == IInv /\ Open => IInv'
<1> SUFFICES ASSUME IInv, Open PROVE IInv'
  OBVIOUS
<1>1. UNCHANGED <<unsafe, version, lookup, effect, card, calls, made, rushed>> /\ open' = TRUE
  BY DEF Open
<1>2. TypeOK'
  BY <1>1 DEF IInv, TypeOK
<1>3. Course'
  BY <1>1 DEF IInv, Course, CallsFitLookup, LoadsAreCurrent, EarlierWhileEffectIsLeft, CallsAreKnown,
    FormCallsAreKnown, FewCalls, RoomLeft, IdleUnlessEnabled, Enabled
<1>4. Safety'
  BY <1>1 DEF IInv, Safety, FormsWaitForAPerson, LoadsAreOfThePanelDrawn, SpinnersMeanCalls, OneCallOfUnedited, Enabled
<1>5. QED
  BY <1>2, <1>3, <1>4 DEF IInv

LEMMA CloseStep == IInv /\ Close => IInv'
<1> SUFFICES ASSUME IInv, Close PROVE IInv'
  OBVIOUS
<1>1. Unmounted \in Card /\ Unmounted.result = None /\ ~Unmounted.refreshing /\ ~Unmounted.submitted
  BY DEF Unmounted, Card
<1>2. TypeOK'
  BY <1>1 DEF Close, IInv, TypeOK, Card
<1>3. /\ effect = "none" /\ effect' = "none" /\ version' = version /\ made' = made
      /\ calls' = {} /\ lookup' = "pending" /\ card' = Unmounted
  BY DEF Close
<1>4. FewCalls'
  BY <1>3, FS_EmptySet, FewCallsFacts DEF FewCalls, Enabled
<1>5. Course'
  BY <1>1, <1>3, <1>4 DEF IInv, Course, CallsFitLookup, LoadsAreCurrent, EarlierWhileEffectIsLeft, CallsAreKnown,
    FormCallsAreKnown, RoomLeft, IdleUnlessEnabled
<1>6. Safety'
  BY <1>1, <1>3 DEF Safety, FormsWaitForAPerson, LoadsAreOfThePanelDrawn, SpinnersMeanCalls, OneCallOfUnedited, Enabled
<1>7. QED
  BY <1>2, <1>5, <1>6 DEF IInv

LEMMA LookUpStep == IInv /\ LookUp => IInv'
<1> SUFFICES ASSUME IInv, LookUp PROVE IInv'
  OBVIOUS
<1>1. calls = {} /\ card.result = None
  BY DEF LookUp, IInv, Course, CallsFitLookup, IdleUnlessEnabled, Enabled
<1>2. /\ open /\ effect = "none" /\ UNCHANGED <<unsafe, open, version, card, calls, made, rushed>>
      /\ lookup = "pending" /\ lookup' \in {"missing", IF unsafe THEN "form" ELSE "safe"}
      /\ effect' = IF Enabled(lookup') THEN "due" ELSE "none"
      /\ made + 1 <= MaxCalls
  BY DEF LookUp, Room, IInv, TypeOK
<1>3. TypeOK'
  <2>1. ~card.submitted
    BY <1>2 DEF IInv, TypeOK
  <2>2. QED
    BY <1>2, <2>1 DEF IInv, TypeOK
<1>4. FewCalls'
  BY <1>1, <1>2, FS_EmptySet, FewCallsFacts DEF FewCalls
<1>5. Course'
  BY <1>1, <1>2, <1>4, FewCallsFacts DEF IInv, TypeOK, Course, CallsFitLookup, LoadsAreCurrent, EarlierWhileEffectIsLeft,
    CallsAreKnown, FormCallsAreKnown, RoomLeft, IdleUnlessEnabled
<1>6. Safety'
  BY <1>1, <1>2 DEF IInv, Safety, FormsWaitForAPerson, LoadsAreOfThePanelDrawn, SpinnersMeanCalls, OneCallOfUnedited
<1>7. QED
  BY <1>3, <1>5, <1>6 DEF IInv

LEMMA EditSavedStep == IInv /\ EditSaved => IInv'
<1> SUFFICES ASSUME IInv, EditSaved PROVE IInv'
  OBVIOUS
<1>1. /\ open /\ effect = "none" /\ effect' = "due" /\ version' = version + 1 /\ version' \in 0..MaxEdits
      /\ UNCHANGED <<unsafe, open, lookup, card, calls, made, rushed>>
      /\ made + 1 <= MaxCalls
  BY DEF EditSaved, Room, IInv, TypeOK
<1>2. calls \subseteq Call /\ version \in Nat /\ card.result \in Result \union {None}
  BY DEF IInv, TypeOK
<1>3. TypeOK'
  BY <1>1 DEF IInv, TypeOK
<1>4. EarlierWhileEffectIsLeft'
  <2>1. card.result # None => card.result.version < version + 1
    BY <1>2 DEF IInv, Course, EarlierWhileEffectIsLeft, Result
  <2>2. \A c \in calls : c.version < version + 1
    BY <1>2 DEF IInv, Course, EarlierWhileEffectIsLeft, Call
  <2>3. QED
    BY <1>1, <1>2, <2>1, <2>2 DEF EarlierWhileEffectIsLeft, Call, Result
<1>5. FewCalls'
  <2>1. ~(Enabled(lookup) /\ card.inFlight) => Cardinality(calls) <= version + 1
    BY FewCallsFacts
  <2>2. Cardinality(calls) <= version + 2
    BY FewCallsFacts
  <2>3. QED
    BY <1>1, <1>2, <2>1, <2>2, FewCallsFacts DEF FewCalls, Enabled
<1>6. Course'
  BY <1>1, <1>2, <1>4, <1>5, FewCallsFacts DEF IInv, Course, CallsFitLookup, LoadsAreCurrent, CallsAreKnown, FormCallsAreKnown,
    RoomLeft, IdleUnlessEnabled, Enabled
<1>7. Safety'
  BY <1>1, <1>2 DEF IInv, Safety, FormsWaitForAPerson, LoadsAreOfThePanelDrawn, SpinnersMeanCalls, OneCallOfUnedited, Enabled
<1>8. QED
  BY <1>3, <1>6, <1>7 DEF IInv

LEMMA RunEffectStep == IInv /\ RunEffect => IInv'
<1> SUFFICES ASSUME IInv, RunEffect PROVE IInv'
  OBVIOUS
<1>1. /\ effect # "none" /\ effect' = "none"
      /\ UNCHANGED <<unsafe, open, version, lookup, rushed>>
  BY DEF RunEffect
<1>2. calls \subseteq Call /\ version \in Nat /\ made + 1 \in 0..MaxCalls /\ card \in Card
  BY <1>1 DEF IInv, TypeOK, Course, RoomLeft, Card
<1>3. IsFiniteSet(calls) /\ Cardinality(calls) \in Nat /\ Cardinality(calls) <= version + 1
  BY <1>1, FewCallsFacts
<1>4. TypeOK
  BY DEF IInv
<1>5. \A c \in Cancelled(calls) : c \in Call /\ c.version <= version
  BY <1>2, <1>3, <1>4, CancelledCalls DEF IInv, Course, EarlierWhileEffectIsLeft
<1>6. open /\ open' /\ (~Enabled(lookup) => card.result = None /\ version > 0)
  BY <1>1, <1>2 DEF IInv, TypeOK, Course, IdleUnlessEnabled, FewCalls
<1>7. CASE Enabled(lookup)
  <2> DEFINE new == [id |-> made + 1, sort |-> "load", version |-> version, cancelled |-> FALSE]
  <2>1. /\ made' = made + 1 /\ calls' = Cancelled(calls) \union {new}
        /\ card' = [card EXCEPT !.inFlight = TRUE, !.loading = TRUE, !.failed = FALSE, !.result = None]
    BY <1>7 DEF RunEffect, Post
  <2>2. new \in Call /\ new.sort = "load" /\ new.version = version /\ ~new.cancelled
    BY <1>2 DEF Call, IInv, TypeOK
  <2> HIDE DEF new
  <2>3. card' \in Card /\ card'.result = None /\ card'.inFlight /\ card'.refreshing = card.refreshing
        /\ card'.submitting = card.submitting /\ card'.submitted = card.submitted
    BY <1>2, <2>1 DEF Card
  <2>4. lookup # "form" /\ Enabled(lookup')
    BY <1>1, <1>7 DEF Enabled
  <2>5. version = 0 /\ ~rushed => calls' = {new}
    <3>1. version = 0 /\ ~rushed => calls = {}
      BY <1>1 DEF IInv, Course, CallsAreKnown
    <3>2. QED
      BY <2>1, <3>1 DEF Cancelled
  <2>6. TypeOK'
    BY <1>1, <1>2, <1>4, <1>5, <2>1, <2>2, <2>3 DEF TypeOK, Card
  <2>7. \A c \in calls' : c.sort # "form"
    BY <1>3, <1>4, <2>1, <2>2, <2>4, CancelledCalls DEF IInv, Course, CallsFitLookup
  <2>8. LoadsAreCurrent' /\ EarlierWhileEffectIsLeft' /\ CallsFitLookup'
    BY <1>1, <1>2, <1>3, <1>4, <1>5, <1>7, <2>1, <2>2, <2>3, <2>4, <2>7, CancelledCalls
    DEF LoadsAreCurrent, EarlierWhileEffectIsLeft, CallsFitLookup
  <2>9. CallsAreKnown' /\ FormCallsAreKnown'
    BY <1>1, <2>2, <2>3, <2>5, <2>7 DEF CallsAreKnown, FormCallsAreKnown
  <2>10. FewCalls'
    <3>1. IsFiniteSet(Cancelled(calls)) /\ Cardinality(Cancelled(calls)) <= version + 1
      BY <1>2, <1>3, <1>4, CancelledCalls, FS_CardinalityType
    <3>2. IsFiniteSet(calls') /\ Cardinality(calls') \in Nat /\ Cardinality(calls') <= Cardinality(Cancelled(calls)) + 1
          /\ Cardinality(Cancelled(calls)) \in Nat
      BY <2>1, <3>1, OneMore
    <3>3. QED
      BY <1>1, <1>2, <2>3, <2>4, <3>1, <3>2 DEF FewCalls
  <2>11. Course'
    BY <1>1, <1>2, <1>6, <2>1, <2>3, <2>4, <2>8, <2>9, <2>10 DEF Course, RoomLeft, IdleUnlessEnabled
  <2>12. Safety'
    <3>1. FormsWaitForAPerson' /\ LoadsAreOfThePanelDrawn'
      BY <1>1, <1>4, <1>7, <2>3 DEF FormsWaitForAPerson, LoadsAreOfThePanelDrawn, Enabled, TypeOK
    <3>2. SpinnersMeanCalls'
      BY <1>3, <1>4, <2>1, <2>2, <2>3, CancelledCalls DEF SpinnersMeanCalls, IInv, Safety
    <3>3. OneCallOfUnedited'
      BY <1>1, <2>5 DEF OneCallOfUnedited
    <3>4. QED
      BY <3>1, <3>2, <3>3 DEF Safety
  <2>13. QED
    BY <2>6, <2>11, <2>12 DEF IInv
<1>8. CASE ~Enabled(lookup)
  <2>1. calls' = Cancelled(calls) /\ UNCHANGED <<card, made>> /\ ~Enabled(lookup')
    BY <1>1, <1>8 DEF RunEffect
  <2>2. \A c \in calls : c.sort = "form" /\ lookup = "form"
    BY <1>8 DEF IInv, Course, CallsFitLookup
  <2>3. \A c \in calls' : c.sort = "form" /\ lookup' = "form"
    BY <1>1, <1>3, <1>4, <2>1, <2>2, CancelledCalls
  <2>4. TypeOK'
    BY <1>1, <1>4, <1>5, <2>1 DEF TypeOK
  <2>5. calls' = calls
    BY <2>1, <2>2 DEF Cancelled
  <2>6. FewCalls'
    BY <1>1, <1>2, <1>3, <1>6, <1>8, <2>1, <2>5 DEF FewCalls
  <2>7. LoadsAreCurrent' /\ EarlierWhileEffectIsLeft' /\ CallsFitLookup' /\ CallsAreKnown' /\ FormCallsAreKnown'
    BY <1>1, <1>5, <1>6, <1>8, <2>1, <2>3, <2>5
    DEF LoadsAreCurrent, EarlierWhileEffectIsLeft, CallsFitLookup, CallsAreKnown, FormCallsAreKnown, IInv, Course
  <2>8. Course'
    BY <1>1, <1>2, <1>6, <1>8, <2>1, <2>6, <2>7 DEF Course, RoomLeft, IdleUnlessEnabled, IInv, TypeOK
  <2>9. Safety'
    BY <1>1, <1>6, <1>8, <2>1, <2>3, <2>5 DEF Safety, FormsWaitForAPerson, LoadsAreOfThePanelDrawn, SpinnersMeanCalls, OneCallOfUnedited, IInv
  <2>10. QED
    BY <2>4, <2>8, <2>9 DEF IInv
<1>9. QED
  BY <1>7, <1>8

\* What a press leaves: the panel, its lookup, and an effect that was left.
LEMMA PressFacts ==
    ASSUME IInv, Press
    PROVE  /\ open /\ UNCHANGED <<unsafe, open, version, lookup>>
           /\ effect \in {"none", "due"} /\ effect' \in {"none", "next"}
           /\ effect' = "none" <=> effect = "none"
BY DEF Press, IInv, TypeOK

LEMMA RefreshStep == IInv /\ Refresh => IInv'
<1> SUFFICES ASSUME IInv, Refresh PROVE IInv'
  OBVIOUS
<1> DEFINE new == [id |-> made + 1, sort |-> "refresh", version |-> version, cancelled |-> FALSE]
<1>1. /\ open /\ UNCHANGED <<unsafe, open, version, lookup>>
      /\ effect \in {"none", "due"} /\ effect' \in {"none", "next"}
      /\ effect' = "none" <=> effect = "none"
  BY PressFacts DEF Refresh
<1>2. /\ made' = made + 1 /\ calls' = calls \union {new}
      /\ Enabled(lookup) /\ ~card.inFlight
      /\ rushed' = (rushed \/ effect # "none")
      /\ card' = [card EXCEPT !.inFlight = TRUE, !.refreshing = TRUE, !.failed = FALSE]
  BY DEF Refresh, Post
<1>3. made + 1 + (IF effect = "none" THEN 0 ELSE 1) <= MaxCalls /\ made + 1 \in 0..MaxCalls
  BY DEF Refresh, Room, IInv, TypeOK
<1>4. calls \subseteq Call /\ version \in Nat /\ card \in Card /\ TypeOK
  BY DEF IInv, TypeOK, Card
<1>5. new \in Call /\ new.sort = "refresh" /\ new.version = version
  BY <1>3, <1>4 DEF Call, IInv, TypeOK
<1> HIDE DEF new
<1>6. card' \in Card /\ card'.result = card.result /\ card'.inFlight /\ card'.refreshing
      /\ card'.loading = card.loading /\ card'.submitting = card.submitting /\ card'.submitted = card.submitted
  BY <1>2, <1>4 DEF Card
<1>7. lookup # "form" /\ Enabled(lookup')
  BY <1>1, <1>2 DEF Enabled
<1>8. \A c \in calls' : c.sort # "form"
  BY <1>2, <1>5, <1>7 DEF IInv, Course, CallsFitLookup
<1>9. TypeOK'
  BY <1>1, <1>2, <1>3, <1>4, <1>5, <1>6 DEF TypeOK, Card
<1>10. LoadsAreCurrent' /\ EarlierWhileEffectIsLeft' /\ CallsFitLookup'
  BY <1>1, <1>2, <1>4, <1>5, <1>6, <1>7, <1>8 DEF IInv, Course, LoadsAreCurrent, EarlierWhileEffectIsLeft, CallsFitLookup
<1>11. CallsAreKnown' /\ FormCallsAreKnown'
  BY <1>1, <1>2, <1>5, <1>6, <1>8 DEF IInv, Course, CallsAreKnown, FormCallsAreKnown
<1>12. FewCalls'
  <2>1. effect = "none" => Cardinality(calls) <= version + 1
    BY <1>2, FewCallsFacts
  <2>2. effect # "none" => Cardinality(calls) <= version
    BY <1>2, FewCallsFacts
  <2>3. IsFiniteSet(calls')
        /\ (effect = "none" => Cardinality(calls') <= version + 2)
        /\ (effect # "none" => Cardinality(calls') <= version + 1)
    <3>1. IsFiniteSet(calls') /\ Cardinality(calls') \in Nat /\ Cardinality(calls) \in Nat
          /\ Cardinality(calls') <= Cardinality(calls) + 1
      BY <1>2, FewCallsFacts, OneMore
    <3>2. QED
      BY <1>4, <2>1, <2>2, <3>1
  <2>4. QED
    BY <1>1, <1>4, <1>6, <1>7, <2>3 DEF FewCalls
<1>13. version = 0 /\ ~rushed' => calls = {}
  BY <1>1, <1>2, <1>7 DEF IInv, Course, CallsAreKnown, CallsFitLookup
<1>14. Course'
  BY <1>1, <1>2, <1>3, <1>7, <1>10, <1>11, <1>12 DEF Course, RoomLeft, IdleUnlessEnabled
<1>15. Safety'
  <2>1. FormsWaitForAPerson'
    BY <1>1, <1>2, <1>4 DEF FormsWaitForAPerson, Enabled, TypeOK
  <2>2. LoadsAreOfThePanelDrawn'
    BY <1>1, <1>6 DEF IInv, Safety, LoadsAreOfThePanelDrawn
  <2>3. SpinnersMeanCalls'
    BY <1>1, <1>2, <1>5, <1>6, <1>7 DEF IInv, Safety, SpinnersMeanCalls
  <2>4. OneCallOfUnedited'
    BY <1>1, <1>2, <1>13 DEF OneCallOfUnedited
  <2>5. QED
    BY <2>1, <2>2, <2>3, <2>4 DEF Safety
<1>16. QED
  BY <1>9, <1>14, <1>15 DEF IInv

LEMMA ClearSubmittedStep == IInv /\ ClearSubmitted => IInv'
<1> SUFFICES ASSUME IInv, ClearSubmitted PROVE IInv'
  OBVIOUS
<1>1. /\ open /\ UNCHANGED <<unsafe, open, version, lookup>>
      /\ effect \in {"none", "due"} /\ effect' \in {"none", "next"}
      /\ effect' = "none" <=> effect = "none"
  BY PressFacts DEF ClearSubmitted
<1>2. lookup = "form" /\ UNCHANGED <<calls, made, rushed>>
  BY DEF ClearSubmitted
<1>3. card' \in Card /\ ~card'.submitted /\ card'.result = card.result /\ card'.inFlight = card.inFlight
      /\ card'.refreshing = card.refreshing /\ card'.loading = card.loading /\ card'.submitting = card.submitting
  BY DEF ClearSubmitted, IInv, TypeOK, Card
<1>4. TypeOK'
  BY <1>1, <1>2, <1>3 DEF IInv, TypeOK, Card
<1>5. Course'
  BY <1>1, <1>2, <1>3 DEF IInv, Course, CallsFitLookup, LoadsAreCurrent, EarlierWhileEffectIsLeft, CallsAreKnown,
    FormCallsAreKnown, FewCalls, RoomLeft, IdleUnlessEnabled, Enabled
<1>6. Safety'
  BY <1>1, <1>2, <1>3 DEF IInv, Safety, FormsWaitForAPerson, LoadsAreOfThePanelDrawn, SpinnersMeanCalls, OneCallOfUnedited, Enabled
<1>7. QED
  BY <1>4, <1>5, <1>6 DEF IInv

LEMMA SubmitStep == IInv /\ Submit => IInv'
<1> SUFFICES ASSUME IInv, Submit PROVE IInv'
  OBVIOUS
<1> DEFINE new == [id |-> made + 1, sort |-> "form", version |-> version, cancelled |-> FALSE]
<1>1. /\ open /\ UNCHANGED <<unsafe, open, version, lookup>>
      /\ effect \in {"none", "due"} /\ effect' \in {"none", "next"}
      /\ effect' = "none" <=> effect = "none"
  BY PressFacts DEF Submit
<1>2. /\ made' = made + 1 /\ calls' = calls \union {new}
      /\ lookup = "form" /\ ~card.submitting /\ rushed' = rushed
      /\ card' = [card EXCEPT !.submitting = TRUE, !.failed = FALSE]
  BY DEF Submit, Post
<1>3. made + 1 + (IF effect = "none" THEN 0 ELSE 1) <= MaxCalls /\ made + 1 \in 0..MaxCalls
  BY DEF Submit, Room, IInv, TypeOK
<1>4. calls \subseteq Call /\ version \in Nat /\ card \in Card /\ TypeOK
  BY DEF IInv, TypeOK, Card
<1>5. new \in Call /\ new.sort = "form" /\ new.version = version
  BY <1>3, <1>4 DEF Call, IInv, TypeOK
<1>6. calls = {} /\ ~Enabled(lookup) /\ ~Enabled(lookup')
  BY <1>1, <1>2 DEF IInv, Course, CallsFitLookup, FormCallsAreKnown, Enabled
<1> HIDE DEF new
<1>7. calls' = {new}
  BY <1>2, <1>6
<1>8. card' \in Card /\ card'.result = card.result /\ card'.inFlight = card.inFlight /\ card'.submitting
      /\ card'.refreshing = card.refreshing /\ card'.loading = card.loading /\ card'.submitted = card.submitted
  BY <1>2, <1>4 DEF Card
<1>9. TypeOK'
  BY <1>1, <1>2, <1>3, <1>4, <1>5, <1>8 DEF TypeOK, Card
<1>10. effect # "none" => version > 0
  BY <1>6 DEF IInv, Course, FewCalls
<1>11. FewCalls'
  <2>1. IsFiniteSet(calls') /\ Cardinality(calls') = 1
    BY <1>7, FS_Singleton
  <2>2. effect' # "none" => version' > 0
    BY <1>1, <1>10
  <2>3. QED
    BY <1>1, <1>4, <1>6, <2>1, <2>2 DEF FewCalls
<1>12. LoadsAreCurrent' /\ EarlierWhileEffectIsLeft' /\ CallsFitLookup' /\ CallsAreKnown' /\ FormCallsAreKnown'
  BY <1>1, <1>2, <1>4, <1>5, <1>7, <1>8, <1>10
  DEF IInv, Course, LoadsAreCurrent, EarlierWhileEffectIsLeft, CallsFitLookup, CallsAreKnown, FormCallsAreKnown
<1>13. Course'
  BY <1>1, <1>2, <1>3, <1>6, <1>8, <1>11, <1>12 DEF IInv, Course, RoomLeft, IdleUnlessEnabled
<1>14. Safety'
  BY <1>1, <1>2, <1>5, <1>6, <1>7, <1>8
  DEF IInv, Safety, FormsWaitForAPerson, LoadsAreOfThePanelDrawn, SpinnersMeanCalls, OneCallOfUnedited
<1>15. QED
  BY <1>9, <1>13, <1>14 DEF IInv

LEMMA SettleStep ==
    ASSUME IInv, NEW c \in calls, NEW ok \in BOOLEAN, Settle(c, ok)
    PROVE  IInv'
<1>1. /\ c \in Call /\ calls' = calls \ {c} /\ calls \subseteq Call
      /\ UNCHANGED <<unsafe, open, version, lookup, effect, made, rushed>>
      /\ effect \in {"none", "due"} /\ card \in Card /\ version \in Nat
  BY DEF Settle, IInv, TypeOK, Card
<1>2. open
  BY DEF IInv, Course, IdleUnlessEnabled, TypeOK
<1>3. c.sort # "form" => Answer(c) \in Result /\ Answer(c).version = c.version /\ Answer(c).sort = c.sort
  BY <1>1 DEF Answer, Result, Call
<1>4. c.sort # "form" => c.version <= version /\ (effect = "due" => c.version < version)
  BY DEF IInv, Course, EarlierWhileEffectIsLeft
<1>5. IsFiniteSet(calls') /\ Cardinality(calls') = Cardinality(calls) - 1
  BY <1>1, FewCallsFacts, FS_RemoveElement
<1>6. CASE c.sort = "load"
  <2>1. Enabled(lookup) /\ lookup # "form" /\ Enabled(lookup')
    BY <1>1, <1>6 DEF IInv, Course, CallsFitLookup, Enabled
  <2>2. card' = LoadSettled(c, ok)
    BY <1>6 DEF Settle
  <2>3. card' \in Card /\ ~card'.inFlight /\ card'.refreshing = card.refreshing
        /\ card'.submitting = card.submitting /\ card'.submitted = card.submitted
    BY <1>1, <1>3, <1>6, <2>2 DEF LoadSettled, Card
  <2>4. c.cancelled => card'.result = card.result /\ card'.loading = card.loading
    BY <1>1, <2>2 DEF LoadSettled, Card
  <2>5. ~c.cancelled => ~card'.loading /\ card'.result \in {card.result, Answer(c)}
    BY <1>1, <2>2 DEF LoadSettled, Card
  <2>6. TypeOK'
    BY <1>1, <2>3 DEF IInv, TypeOK, Card
  <2>7. EarlierWhileEffectIsLeft'
    BY <1>1, <1>3, <1>4, <1>6, <2>4, <2>5 DEF IInv, Course, EarlierWhileEffectIsLeft
  <2>8. FewCalls'
    BY <1>1, <1>5, <2>1, <2>3, FewCallsFacts DEF FewCalls
  <2>9. \A d \in calls : d.sort # "form"
    BY <2>1 DEF IInv, Course, CallsFitLookup
  <2>10. CallsAreKnown'
    BY <1>1, <2>9 DEF IInv, Course, CallsAreKnown, Safety, OneCallOfUnedited
  <2>11. Course'
    BY <1>1, <1>2, <2>1, <2>3, <2>7, <2>8, <2>9, <2>10
    DEF IInv, Course, CallsFitLookup, LoadsAreCurrent, FormCallsAreKnown, RoomLeft, IdleUnlessEnabled
  <2>12. LoadsAreOfThePanelDrawn'
    BY <1>1, <1>3, <1>6, <2>4, <2>5 DEF IInv, Safety, LoadsAreOfThePanelDrawn, Course, LoadsAreCurrent
  <2>13. SpinnersMeanCalls'
    BY <1>1, <1>6, <2>1, <2>3, <2>4, <2>5 DEF IInv, Safety, SpinnersMeanCalls
  <2>14. QED
    BY <1>1, <2>1, <2>6, <2>9, <2>10, <2>11, <2>12, <2>13 DEF IInv, Safety, FormsWaitForAPerson, OneCallOfUnedited
<1>7. CASE c.sort = "refresh"
  <2>1. Enabled(lookup) /\ lookup # "form" /\ Enabled(lookup')
    BY <1>1, <1>7 DEF IInv, Course, CallsFitLookup, Enabled
  <2>2. card' = RefreshSettled(c, ok)
    BY <1>7 DEF Settle
  <2>3. card' \in Card /\ ~card'.inFlight /\ ~card'.refreshing /\ card'.loading = card.loading
        /\ card'.submitting = card.submitting /\ card'.submitted = card.submitted
        /\ card'.result \in {card.result, Answer(c)}
    BY <1>1, <1>3, <1>7, <2>2 DEF RefreshSettled, Card
  <2>4. TypeOK'
    BY <1>1, <2>3 DEF IInv, TypeOK, Card
  <2>5. EarlierWhileEffectIsLeft'
    BY <1>1, <1>3, <1>4, <1>7, <2>3 DEF IInv, Course, EarlierWhileEffectIsLeft
  <2>6. FewCalls'
    BY <1>1, <1>5, <2>1, <2>3, FewCallsFacts DEF FewCalls
  <2>7. \A d \in calls : d.sort # "form"
    BY <2>1 DEF IInv, Course, CallsFitLookup
  <2>8. CallsAreKnown'
    BY <1>1, <2>7 DEF IInv, Course, CallsAreKnown, Safety, OneCallOfUnedited
  <2>9. Course'
    BY <1>1, <1>2, <2>1, <2>3, <2>5, <2>6, <2>7, <2>8
    DEF IInv, Course, CallsFitLookup, LoadsAreCurrent, FormCallsAreKnown, RoomLeft, IdleUnlessEnabled
  <2>10. LoadsAreOfThePanelDrawn'
    BY <1>1, <1>3, <1>7, <2>3 DEF IInv, Safety, LoadsAreOfThePanelDrawn
  <2>11. SpinnersMeanCalls'
    BY <1>1, <1>7, <2>1, <2>3 DEF IInv, Safety, SpinnersMeanCalls
  <2>12. QED
    BY <1>1, <2>4, <2>7, <2>8, <2>9, <2>10, <2>11 DEF IInv, Safety, FormsWaitForAPerson, OneCallOfUnedited
<1>8. CASE c.sort = "form"
  <2>1. lookup = "form" /\ ~Enabled(lookup) /\ ~Enabled(lookup') /\ calls = {c} /\ calls' = {}
    BY <1>1, <1>8 DEF IInv, Course, CallsFitLookup, FormCallsAreKnown, Enabled
  <2>2. card' = FormSettled(c, ok)
    BY <1>8 DEF Settle
  <2>3. card' \in Card /\ card'.inFlight = card.inFlight /\ card'.refreshing = card.refreshing
        /\ card'.loading = card.loading /\ card'.result = card.result
    BY <1>1, <2>2 DEF FormSettled, Card
  <2>4. TypeOK'
    BY <1>1, <2>1, <2>3 DEF IInv, TypeOK, Card
  <2>5. FewCalls'
    BY <1>1, <1>5, <2>1, <2>3, FS_EmptySet DEF IInv, Course, FewCalls
  <2>6. Course'
    BY <1>1, <1>2, <2>1, <2>3, <2>5 DEF IInv, Course, CallsFitLookup, LoadsAreCurrent, EarlierWhileEffectIsLeft, CallsAreKnown,
      FormCallsAreKnown, RoomLeft, IdleUnlessEnabled
  <2>7. Safety'
    BY <1>1, <1>8, <2>1, <2>3 DEF IInv, Safety, FormsWaitForAPerson, LoadsAreOfThePanelDrawn, SpinnersMeanCalls,
      OneCallOfUnedited
  <2>8. QED
    BY <2>4, <2>6, <2>7 DEF IInv
<1>9. QED
  BY <1>1, <1>6, <1>7, <1>8 DEF Call

-----------------------------------------------------------------------------
LEMMA InitInvariant == Init => IInv
<1>1. Unmounted \in Card /\ Unmounted.result = None /\ ~Unmounted.refreshing /\ ~Unmounted.submitted
  BY DEF Unmounted, Card
<1>2. ASSUME Init PROVE TypeOK
  <2>1. card \in Card /\ ~card.submitted
    BY <1>1, <1>2 DEF Init
  <2>2. calls \subseteq Call /\ made \in 0..MaxCalls /\ version \in 0..MaxEdits
    BY <1>2 DEF Init
  <2>3. effect = "none" /\ rushed = FALSE
    BY <1>2 DEF Init
  <2>4. unsafe \in BOOLEAN /\ open \in BOOLEAN /\ lookup = "pending"
    BY <1>2 DEF Init
  <2>5. QED
    BY <2>1, <2>2, <2>3, <2>4 DEF TypeOK, Card
<1>3. Init => Course
  BY <1>1, FS_EmptySet DEF Init, Course, CallsFitLookup, LoadsAreCurrent, EarlierWhileEffectIsLeft, CallsAreKnown,
    FormCallsAreKnown, FewCalls, RoomLeft, IdleUnlessEnabled, Enabled
<1>4. Init => Safety
  BY <1>1 DEF Init, Safety, FormsWaitForAPerson, LoadsAreOfThePanelDrawn, SpinnersMeanCalls, OneCallOfUnedited, Enabled
<1>5. QED
  BY <1>2, <1>3, <1>4 DEF IInv

LEMMA NextInvariant == IInv /\ [Next]_vars => IInv'
<1> SUFFICES ASSUME IInv, [Next]_vars PROVE IInv'
  OBVIOUS
<1>1. CASE Next
  BY <1>1, OpenStep, CloseStep, LookUpStep, EditSavedStep, RunEffectStep, RefreshStep, ClearSubmittedStep, SubmitStep,
    SettleStep
  DEF Next
<1>2. CASE UNCHANGED vars
  BY <1>2 DEF vars, IInv, TypeOK, Course, CallsFitLookup, LoadsAreCurrent, EarlierWhileEffectIsLeft, CallsAreKnown,
    FormCallsAreKnown, FewCalls, RoomLeft, IdleUnlessEnabled, Safety, FormsWaitForAPerson, LoadsAreOfThePanelDrawn,
    SpinnersMeanCalls, OneCallOfUnedited, Enabled
<1>3. QED
  BY <1>1, <1>2

\* The inductive invariant holds.
THEOREM Invariant == Spec => []IInv
BY InitInvariant, NextInvariant, PTL DEF Spec

\* The state of the two hooks and of the form keeps its types, for any number of calls and edits.
THEOREM TypeCorrect == Spec => []TypeOK
BY Invariant, PTL DEF IInv

\* A card that looks its operation up, and finds a form, never calls it by itself (AC-P-111).
THEOREM FormsWait == Spec => []FormsWaitForAPerson
BY Invariant, PTL DEF IInv, Safety

\* A cancelled load of useEffect never draws over the panel that was edited since.
THEOREM LoadsAreOfThePanel == Spec => []LoadsAreOfThePanelDrawn
BY Invariant, PTL DEF IInv, Safety

\* A spinner stops: it is shown only while a call it stands for is in flight, or about to be made.
THEOREM SpinnersAreHonest == Spec => []SpinnersMeanCalls
BY Invariant, PTL DEF IInv, Safety

\* The in-flight mark keeps an unedited card to one call, but for a refresh pressed before its effect
\* ran; and no sequence of edits and presses has more calls in flight than edits and two more.
THEOREM FewCallsInFlight == Spec => []CallsDoNotPileUp
<1>1. IInv => CallsDoNotPileUp
  BY FewCallsFacts DEF IInv, Safety, CallsDoNotPileUp, OneCallOfUnedited
<1>2. QED
  BY <1>1, Invariant, PTL

\* Nothing but leaving takes the answer of the panel drawn away, and nothing but an edit an earlier one's.
THEOREM ResultsOutlive == Spec => ResultsOutliveFailures
<1>1. ASSUME IInv, [Next]_vars
      PROVE  [card.result # None /\ card'.result = None => card.result.version < version \/ ~open']_vars
  <2> SUFFICES ASSUME Next, card.result # None, card'.result = None
               PROVE  card.result.version < version \/ ~open'
    BY <1>1
  <2>1. card \in Card /\ calls \subseteq Call
    BY <1>1 DEF IInv, TypeOK, Card
  <2>2. CASE RunEffect
    BY <1>1, <2>2 DEF RunEffect, IInv, Course, EarlierWhileEffectIsLeft
  <2>3. CASE Refresh \/ ClearSubmitted \/ Submit
    BY <2>1, <2>3 DEF Refresh, ClearSubmitted, Submit, Card
  <2>4. ASSUME NEW c \in calls, NEW ok \in BOOLEAN, Settle(c, ok) PROVE FALSE
    <3>1. c \in Call
      BY <2>1
    <3>2. c.sort # "form" => Answer(c) \in Result
      BY <3>1 DEF Answer, Result, Call
    <3>3. card'.result \in {card.result, Answer(c)} /\ (c.sort = "form" => card'.result = card.result)
      BY <2>1, <2>4 DEF Settle, LoadSettled, RefreshSettled, FormSettled, Card
    <3>4. QED
      BY <3>2, <3>3 DEF Result
  <2>5. QED
    BY <2>2, <2>3, <2>4 DEF Next, Open, Close, LookUp, EditSaved
<1>2. QED
  BY <1>1, Invariant, PTL DEF Spec, ResultsOutliveFailures
=============================================================================
