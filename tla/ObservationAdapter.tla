------------------------- MODULE ObservationAdapter -------------------------
(***************************************************************************)
(* AndroidWorldObservationAdapter.capture_observation                      *)
(* (envs/android_world_adapter.py): the screen is looked at again, up to   *)
(* max_resample_attempts times, until a look is consistent and, where it   *)
(* shows tabs or selections, agrees with the look before it.               *)
(*                                                                         *)
(* What the adapter finds out about a screen is constant: whether it is    *)
(* inconsistent, whether it needs a second look, and its signature, the    *)
(* part of it that two looks are compared by.  The app under test draws    *)
(* when it likes: every look may see another screen.                       *)
(*                                                                         *)
(* The definitions below a "wrong variant" comment are not part of the     *)
(* model: each is a bug the next definition could have had, kept to show   *)
(* that a property notices it.                                             *)
(***************************************************************************)
EXTENDS Naturals

CONSTANTS
  Screens,            \* what a look can see
  NoScreen,           \* previous_stable_observation is None
  Inconsistent,       \* screens assessed as "unstable"
  NeedsConfirmation,  \* screens with tabs or selections
  Sign,               \* _observation_signature of each screen
  MaxResample         \* max_resample_attempts

ASSUME AdapterConfig ==
  /\ NoScreen \notin Screens
  /\ Inconsistent \subseteq Screens
  /\ NeedsConfirmation \subseteq Screens
  /\ DOMAIN Sign = Screens
  /\ MaxResample \in Nat

VARIABLES
  attempts,   \* looks taken by this call
  previous,   \* previous_stable_observation
  result,     \* the observation returned, when it is
  (* history *)
  last,       \* what the last look saw
  before      \* what the look before it saw

vars == <<attempts, previous, result, last, before>>

Pending == [screen |-> NoScreen, stable |-> FALSE]

Init ==
  /\ attempts = 0
  /\ previous = NoScreen
  /\ result = Pending
  /\ last = NoScreen
  /\ before = NoScreen

Looking == result = Pending

\* _observations_match, of a look there is and another one.
Agree(s, t) == s # NoScreen /\ t # NoScreen /\ Sign[s] = Sign[t]

\* A consistent look that needs no second opinion, or has just got it.
Settled(s) ==
  /\ s \notin Inconsistent
  /\ Agree(previous, s) \/ s \notin NeedsConfirmation

\* Wrong variant: an inconsistent look does not reset the comparison.
KeptForgettingReset(s) == IF s \in Inconsistent THEN previous ELSE s

\* previous_stable_observation after a look that was not settled.
Kept(s) == IF s \in Inconsistent THEN NoScreen ELSE s

\* The last look disagrees with the stable one kept before it.
Disagrees(s, kept) ==
  kept # NoScreen /\ s \notin Inconsistent /\ ~Agree(kept, s)

Sees(s) == last' = s /\ before' = last

ReturnSettled(s) ==
  /\ Looking
  /\ Settled(s)
  /\ attempts' = attempts + 1
  /\ Sees(s)
  /\ result' = [screen |-> s, stable |-> TRUE]
  /\ UNCHANGED previous

\* Wrong variant: only consistent looks count as attempts.
LookAgainUncounted(s) ==
  /\ Looking
  /\ ~Settled(s)
  /\ attempts < MaxResample
  /\ attempts' = IF s \in Inconsistent THEN attempts ELSE attempts + 1
  /\ Sees(s)
  /\ previous' = Kept(s)
  /\ UNCHANGED result

LookAgain(s) ==
  /\ Looking
  /\ ~Settled(s)
  /\ attempts < MaxResample
  /\ attempts' = attempts + 1
  /\ Sees(s)
  /\ previous' = Kept(s)
  /\ UNCHANGED result

\* Wrong variant: the last look is taken for stable without being assessed.
GiveUpTrusting(s) ==
  /\ Looking
  /\ ~Settled(s)
  /\ attempts >= MaxResample
  /\ attempts' = attempts + 1
  /\ Sees(s)
  /\ previous' = Kept(s)
  /\ result' = [screen |-> s, stable |-> ~Disagrees(s, previous')]

\* Attempts used up: the last look is returned, downgraded if it disagrees.
GiveUp(s) ==
  /\ Looking
  /\ ~Settled(s)
  /\ attempts >= MaxResample
  /\ attempts' = attempts + 1
  /\ Sees(s)
  /\ previous' = Kept(s)
  /\ result' = [screen |-> s,
                stable |-> s \notin Inconsistent /\ ~Disagrees(s, previous')]

Next == \E s \in Screens : ReturnSettled(s) \/ LookAgain(s) \/ GiveUp(s)

Spec == Init /\ [][Next]_vars

FairSpec == Spec /\ WF_vars(Next)

-----------------------------------------------------------------------------
Returned == ~Looking

\* A screen that needs a second opinion is only returned early when the look
\* directly before it agrees with it; a match with an older look, with an
\* inconsistent one in between, does not count.
EarlyReturnIsConfirmed ==
  Returned /\ attempts <= MaxResample /\ result.screen \in NeedsConfirmation
     /\ result.stable =>
    Agree(before, result.screen)

\* "Unstable" is the adapter's last resort: it is reported after all attempts, of
\* the last look, and no inconsistent look is ever reported as stable.
UnstableIsLastResort ==
  Returned =>
    /\ result.screen = last
    /\ result.screen \in Inconsistent => ~result.stable
    /\ ~result.stable => attempts = MaxResample + 1

\* Every call returns, however the screen changes.
CaptureReturns == <>Returned

\* When the attempts end on two consecutive stable looks that differ, the
\* observation is not reported as stable ("Consecutive stable captures disagreed;
\* likely stale or mismatched UI tree.").
DisagreementIsReported ==
  Returned /\ result.screen \in NeedsConfirmation
     /\ before \in Screens \ Inconsistent /\ ~Agree(before, result.screen) =>
    ~result.stable
=============================================================================
