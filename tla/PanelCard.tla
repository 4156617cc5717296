----------------------------- MODULE PanelCard -----------------------------
(***************************************************************************)
(* One panel's card on a workspace screen: PanelResult over                *)
(* useCatalogEntry, usePanelInvoke and PanelQuickAddBody.  A card looks    *)
(* its operation up in the catalogue; one it does not find to be a form it *)
(* calls, when it is drawn, edited or refreshed, and one that is a form it *)
(* leaves to the person.  The person edits, refreshes, submits and leaves  *)
(* while calls are in flight, and between a commit and the passive effect  *)
(* it left to run.  Cards share nothing, so one is modelled; an edit is a  *)
(* new panel object, a version here, of the same operation.                *)
(***************************************************************************)
EXTENDS Integers, FiniteSets

CONSTANTS
    MaxCalls,    \* bound: the calls a run makes
    MaxEdits,    \* bound: the edits a run saves
    None

ASSUME BoundsAssumption == MaxCalls \in Nat /\ MaxEdits \in Nat
ASSUME NoneAssumption == None \notin [sort: {"load", "refresh"}, version: Nat]

VARIABLES
    unsafe,     \* the operation writes; it takes a body, which domain.Render draws as a form
    open,       \* the card is drawn
    version,    \* the panel, as edited so many times
    lookup,     \* useCatalogEntry: "pending" until ready, then what it found
    effect,     \* usePanelInvoke's useEffect: "none", left to run by a commit, or to run next
    card,       \* the state of usePanelInvoke, and of PanelResult's form
    calls,      \* the calls to /api/invoke in flight, of a card that is drawn
    made,       \* how many were made
    rushed      \* history: a refresh was pressed before the effect of a commit ran

vars == <<unsafe, open, version, lookup, effect, card, calls, made, rushed>>

Call == [id: Nat, sort: {"load", "refresh", "form"}, version: Nat, cancelled: BOOLEAN]
Result == [sort: {"load", "refresh"}, version: Nat]

Unmounted == [loading |-> TRUE, refreshing |-> FALSE, failed |-> FALSE, result |-> None,
              inFlight |-> FALSE, submitting |-> FALSE, submitted |-> FALSE]

Init ==
    /\ unsafe \in BOOLEAN
    /\ open = FALSE
    /\ version = 0
    /\ lookup = "pending"
    /\ effect = "none"
    /\ card = Unmounted
    /\ calls = {} /\ made = 0
    /\ rushed = FALSE

\* Fault: not yet known to be unsafe is taken for known to be safe.
EnabledUnlessForm(found) == found # "form"

\* What PanelResult hands usePanelInvoke as enabled: an entry that is missing is no form.
Enabled(found) == found \in {"safe", "missing"}

(***************************************************************************)
(* The calls.                                                              *)
(***************************************************************************)
Post(others, sort) ==
    /\ made' = made + 1
    /\ calls' = others \union {[id |-> made + 1, sort |-> sort, version |-> version, cancelled |-> FALSE]}

\* The bound leaves a call for the effect that is still to run.
Room == made + (IF effect = "none" THEN 0 ELSE 1) < MaxCalls

Cancelled(others) == {IF c.sort = "load" THEN [c EXCEPT !.cancelled = TRUE] ELSE c : c \in others}

\* The passive effect: the load before it is cancelled and, when enabled, a new one is sent,
\* whatever inFlightRef says.
RunEffect ==
    /\ effect # "none"
    /\ effect' = "none"
    /\ \/ /\ Enabled(lookup)
          /\ Post(Cancelled(calls), "load")
          /\ card' = [card EXCEPT !.inFlight = TRUE, !.loading = TRUE, !.failed = FALSE, !.result = None]
       \/ ~Enabled(lookup) /\ calls' = Cancelled(calls) /\ UNCHANGED <<card, made>>
    /\ UNCHANGED <<unsafe, open, version, lookup, rushed>>

\* The card is drawn, with enabled FALSE until it is looked up: the effect has nothing to do.
Open ==
    /\ ~open
    /\ open' = TRUE
    /\ UNCHANGED <<unsafe, version, lookup, effect, card, calls, made, rushed>>

\* Leaving the screen: what is in flight answers to nobody.
Close ==
    /\ open /\ effect = "none"
    /\ open' = FALSE
    /\ lookup' = "pending" /\ card' = Unmounted /\ calls' = {} /\ rushed' = FALSE
    /\ UNCHANGED <<unsafe, version, effect, made>>

\* GET /api/catalog settles: with the entry, without it - a permission withdrawn - or with
\* an error, which reads the same.  The answer comes of no press, so React commits the card it
\* makes first and runs the effect, when enabled has changed, some time later.
LookUp ==
    /\ open /\ lookup = "pending" /\ effect = "none" /\ Room
    /\ lookup' \in {"missing", IF unsafe THEN "form" ELSE "safe"}
    /\ effect' = IF Enabled(lookup') THEN "due" ELSE "none"
    /\ UNCHANGED <<unsafe, open, version, card, calls, made, rushed>>

\* EditPanelControl's PATCH is answered: the card draws the panel that came back, and its
\* effect is left to run the same way.
EditSaved ==
    /\ open /\ version < MaxEdits /\ effect = "none" /\ Room
    /\ version' = version + 1
    /\ effect' = "due"
    /\ UNCHANGED <<unsafe, open, lookup, card, calls, made, rushed>>

\* A press: what it set is drawn before anything else happens, and an effect that is due
\* runs before that.
Press ==
    /\ open /\ effect # "next"
    /\ effect' = IF effect = "none" THEN "none" ELSE "next"
    /\ UNCHANGED <<unsafe, open, version, lookup>>

\* Fault: a refresh does not look whether a call is in flight.
RefreshWhileBusy ==
    /\ Press
    /\ Enabled(lookup) /\ Room
    /\ Post(calls, "refresh")
    /\ card' = [card EXCEPT !.inFlight = TRUE, !.refreshing = TRUE, !.failed = FALSE]
    /\ rushed' = (rushed \/ effect # "none")

Refresh ==
    /\ Press
    /\ Enabled(lookup) /\ ~card.inFlight /\ Room
    /\ Post(calls, "refresh")
    /\ card' = [card EXCEPT !.inFlight = TRUE, !.refreshing = TRUE, !.failed = FALSE]
    /\ rushed' = (rushed \/ effect # "none")

\* The refresh control of a form clears the last submission.
ClearSubmitted ==
    /\ Press
    /\ lookup = "form" /\ card.submitted
    /\ card' = [card EXCEPT !.submitted = FALSE]
    /\ UNCHANGED <<calls, made, rushed>>

Submit ==
    /\ Press
    /\ lookup = "form" /\ ~card.submitted /\ ~card.submitting /\ Room
    /\ Post(calls, "form")
    /\ card' = [card EXCEPT !.submitting = TRUE, !.failed = FALSE]
    /\ UNCHANGED rushed

(***************************************************************************)
(* A call answers or fails.                                                *)
(***************************************************************************)
Answer(c) == [sort |-> c.sort, version |-> c.version]

\* Fault: a load that was cancelled still draws.
LoadSettledRegardless(c, ok) ==
    [card EXCEPT !.inFlight = FALSE, !.loading = FALSE,
                 !.result = IF ok THEN Answer(c) ELSE @, !.failed = @ \/ ~ok]

\* A cancelled load draws nothing, and marks the card idle all the same.
LoadSettled(c, ok) ==
    IF c.cancelled
    THEN [card EXCEPT !.inFlight = FALSE]
    ELSE [card EXCEPT !.inFlight = FALSE, !.loading = FALSE,
                      !.result = IF ok THEN Answer(c) ELSE @, !.failed = @ \/ ~ok]

\* Fault: a refresh that fails takes the result away.
RefreshSettledBlank(c, ok) ==
    [card EXCEPT !.inFlight = FALSE, !.refreshing = FALSE,
                 !.result = IF ok THEN Answer(c) ELSE None, !.failed = @ \/ ~ok]

\* Fault: only a refresh that is answered stops the spinner.
RefreshSettledSpinning(c, ok) ==
    [card EXCEPT !.inFlight = FALSE, !.refreshing = ~ok,
                 !.result = IF ok THEN Answer(c) ELSE @, !.failed = @ \/ ~ok]

\* A refresh is never cancelled.
RefreshSettled(c, ok) ==
    [card EXCEPT !.inFlight = FALSE, !.refreshing = FALSE,
                 !.result = IF ok THEN Answer(c) ELSE @, !.failed = @ \/ ~ok]

FormSettled(c, ok) == [card EXCEPT !.submitting = FALSE, !.submitted = ok, !.failed = ~ok]

Settle(c, ok) ==
    /\ effect # "next"
    /\ calls' = calls \ {c}
    /\ \/ c.sort = "load" /\ card' = LoadSettled(c, ok)
       \/ c.sort = "refresh" /\ card' = RefreshSettled(c, ok)
       \/ c.sort = "form" /\ card' = FormSettled(c, ok)
    /\ UNCHANGED <<unsafe, open, version, lookup, effect, made, rushed>>

Next ==
    \/ Open \/ Close \/ LookUp \/ EditSaved \/ RunEffect
    \/ Refresh \/ ClearSubmitted \/ Submit
    \/ \E c \in calls, ok \in BOOLEAN : Settle(c, ok)

Spec == Init /\ [][Next]_vars

-----------------------------------------------------------------------------
(***************************************************************************)
(* Properties.                                                             *)
(***************************************************************************)

\* Every variable holds what its comment says; a form's card draws no answer but a submission's.
TypeOK ==
    /\ unsafe \in BOOLEAN /\ open \in BOOLEAN /\ version \in 0..MaxEdits
    /\ lookup \in {"pending", "missing", IF unsafe THEN "form" ELSE "safe"}
    /\ card \in [loading: BOOLEAN, refreshing: BOOLEAN, failed: BOOLEAN, result: Result \union {None},
                 inFlight: BOOLEAN, submitting: BOOLEAN, submitted: BOOLEAN]
    /\ card.submitted => lookup = "form"
    /\ effect \in {"none", "due", "next"}
    /\ calls \subseteq Call
    /\ made \in 0..MaxCalls
    /\ rushed \in BOOLEAN

\* While its lookup is under way, and once that found a form, a card makes no call of its
\* own: opening, editing and refreshing it write nothing (AC-P-111).
FormsWaitForAPerson ==
    unsafe /\ lookup # "missing" => \A c \in calls : c.sort = "form"

\* A load of the panel as it was before an edit never draws over the edited one, however late:
\* once the effect of the edit has run, the load drawn is of the panel drawn.
LoadsAreOfThePanelDrawn ==
    effect = "none" /\ card.result # None /\ card.result.sort = "load" => card.result.version = version

\* A result is taken away by leaving or when it is of a panel edited since, never by a call that
\* fails and never the answer of the panel drawn: a stale table is still a table (doc of
\* usePanelInvoke).
ResultsOutliveFailures ==
    [][card.result # None /\ card'.result = None => card.result.version < version \/ ~open']_vars

\* A spinner means a call in flight, or one the effect that is left will make, whichever of
\* several settled first and how.
SpinnersMeanCalls ==
    /\ Enabled(lookup) /\ card.loading =>
           effect # "none" \/ \E c \in calls : c.sort = "load" /\ ~c.cancelled
    /\ card.refreshing => \E c \in calls : c.sort = "refresh"

\* However fast its controls are pressed, a card that was not edited has one call in flight, unless a
\* refresh got in before the effect of its first commit; calls then overlap, and so they do
\* after an edit, one more for each edit and one for the refresh that got in.
CallsDoNotPileUp ==
    /\ version = 0 /\ ~rushed => \A c, d \in calls : c = d
    /\ Cardinality(calls) <= version + 2

\* "A panel never invokes an unsafe operation" (P14).
NeverInvokesUnsafe == unsafe => \A c \in calls : c.sort = "form"
=============================================================================
