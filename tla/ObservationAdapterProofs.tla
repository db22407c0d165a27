---------------------- MODULE ObservationAdapterProofs ----------------------
(***************************************************************************)
(* What holds of capture_observation for every set of screens, whichever   *)
(* of them are inconsistent or need a second look, and for every number    *)
(* of attempts, proved from AdapterConfig.                                 *)
(***************************************************************************)
EXTENDS ObservationAdapter, TLAPS

Typed ==
  /\ attempts \in Nat
  /\ previous \in Screens \cup {NoScreen}
  /\ last \in Screens \cup {NoScreen}
  /\ result \in {Pending} \cup [screen : Screens, stable : BOOLEAN]

\* While the loop runs, attempts are left, and the look to compare with, if there
\* is one, is the last one: this makes a match a match with the look before.
ComparesWithLast ==
  Looking => attempts <= MaxResample /\ previous \in {last, NoScreen}

\* What a returned look says of itself is what it is: the last statement of the
\* loop, which would downgrade a look that disagrees, changes nothing.
SaysWhatItIs == Returned => result.stable = (result.screen \notin Inconsistent)

Held ==
  /\ Typed
  /\ ComparesWithLast
  /\ EarlyReturnIsConfirmed
  /\ UnstableIsLastResort
  /\ SaysWhatItIs

LEMMA HeldInit == Init => Held
  BY AdapterConfig DEF Init, Held, Typed, ComparesWithLast, EarlyReturnIsConfirmed,
     UnstableIsLastResort, SaysWhatItIs, Looking, Returned, Pending

\* A returned look is no longer the pending one.
LEMMA ReturnedIsNotPending ==
  ASSUME NEW s \in Screens, NEW b \in BOOLEAN
  PROVE  /\ [screen |-> s, stable |-> b] # Pending
         /\ [screen |-> s, stable |-> b] \in [screen : Screens, stable : BOOLEAN]
<1>1. s # NoScreen  BY AdapterConfig
<1>2. [screen |-> s, stable |-> b].screen # Pending.screen  BY <1>1 DEF Pending
<1>3. QED  BY <1>2

LEMMA HeldStep == Held /\ [Next]_vars => Held'
<1> SUFFICES ASSUME Held, [Next]_vars PROVE Held'  OBVIOUS
<1> USE AdapterConfig DEF Held, Typed
<1>1. CASE UNCHANGED vars
  BY <1>1 DEF vars, ComparesWithLast, EarlyReturnIsConfirmed, UnstableIsLastResort,
     SaysWhatItIs, Looking, Returned, Pending
<1>2. ASSUME NEW s \in Screens, ReturnSettled(s) PROVE Held'
  <2>1. /\ Looking /\ s \notin Inconsistent
        /\ Agree(previous, s) \/ s \notin NeedsConfirmation
        /\ attempts' = attempts + 1 /\ last' = s /\ before' = last
        /\ result' = [screen |-> s, stable |-> TRUE] /\ previous' = previous
    BY <1>2 DEF ReturnSettled, Settled, Sees
  <2>2. ~Looking' /\ result' \in [screen : Screens, stable : BOOLEAN]
    BY <2>1, ReturnedIsNotPending DEF Looking, Pending
  <2>3. Typed' /\ ComparesWithLast'
    BY <2>1, <2>2 DEF ComparesWithLast
  <2>4. Agree(previous, s) => Agree(before', s)
    BY <2>1 DEF ComparesWithLast, Agree
  <2>5. EarlyReturnIsConfirmed'
    BY <2>1, <2>4 DEF EarlyReturnIsConfirmed
  <2>6. UnstableIsLastResort' /\ SaysWhatItIs'
    BY <2>1 DEF UnstableIsLastResort, SaysWhatItIs
  <2>7. QED  BY <2>3, <2>5, <2>6
<1>3. ASSUME NEW s \in Screens, LookAgain(s) PROVE Held'
  <2>1. /\ Looking /\ attempts < MaxResample
        /\ attempts' = attempts + 1 /\ last' = s /\ before' = last
        /\ result' = result
        /\ previous' = IF s \in Inconsistent THEN NoScreen ELSE s
    BY <1>3 DEF LookAgain, Sees, Kept
  <2>2. Looking'  BY <2>1 DEF Looking, Pending
  <2>3. Typed' /\ ComparesWithLast'
    BY <2>1, <2>2 DEF ComparesWithLast, Pending
  <2>4. QED
    BY <2>2, <2>3 DEF EarlyReturnIsConfirmed, UnstableIsLastResort, SaysWhatItIs, Returned
<1>4. ASSUME NEW s \in Screens, GiveUp(s) PROVE Held'
  <2> DEFINE stable == s \notin Inconsistent
  <2>1. /\ Looking /\ attempts >= MaxResample
        /\ attempts' = attempts + 1 /\ last' = s /\ before' = last
        /\ previous' = IF s \in Inconsistent THEN NoScreen ELSE s
        /\ result' = [screen |-> s, stable |-> stable]
    BY <1>4 DEF GiveUp, Sees, Kept, Disagrees, Agree
  <2>2. ~Looking' /\ result' \in [screen : Screens, stable : BOOLEAN]
    BY <2>1, ReturnedIsNotPending DEF Looking, Pending
  <2>3. attempts' = MaxResample + 1
    BY <2>1 DEF ComparesWithLast
  <2>4. Typed' /\ ComparesWithLast'
    BY <2>1, <2>2 DEF ComparesWithLast
  <2>5. EarlyReturnIsConfirmed'
    BY <2>3 DEF EarlyReturnIsConfirmed
  <2>6. UnstableIsLastResort' /\ SaysWhatItIs'
    BY <2>1, <2>3 DEF UnstableIsLastResort, SaysWhatItIs
  <2>7. QED  BY <2>4, <2>5, <2>6
<1>5. QED  BY <1>1, <1>2, <1>3, <1>4 DEF Next

LEMMA AlwaysHeld == Spec => []Held
<1>1. QED  BY HeldInit, HeldStep, PTL DEF Spec

\* A look that needs a second opinion is returned early only when the look
\* directly before it agrees with it.
THEOREM EarlyReturnConfirmed == Spec => []EarlyReturnIsConfirmed
<1>1. Held => EarlyReturnIsConfirmed  BY DEF Held
<1>2. QED  BY <1>1, AlwaysHeld, PTL

\* "Unstable" is reported only after all attempts and of the last look, and no
\* inconsistent look is reported as stable.
THEOREM UnstableComesLast == Spec => []UnstableIsLastResort
<1>1. Held => UnstableIsLastResort  BY DEF Held
<1>2. QED  BY <1>1, AlwaysHeld, PTL

\* The branch that is to downgrade a disagreeing look is never reached, for any
\* number of attempts: what is reported depends on the look returned alone.
THEOREM DowngradeNeverReached == Spec => []SaysWhatItIs
<1>1. Held => SaysWhatItIs  BY DEF Held
<1>2. QED  BY <1>1, AlwaysHeld, PTL

\* Two consecutive stable looks that differ are returned as stable only when the
\* attempts are used up: before that, the disagreement the adapter's comment names
\* is never hidden.  This is all the violated DisagreementIsReported comes to.
THEOREM OnlyTheLastLookHides ==
  Spec => [](attempts <= MaxResample => DisagreementIsReported)
<1>1. Held => (attempts <= MaxResample => DisagreementIsReported)
  BY DEF Held, EarlyReturnIsConfirmed, DisagreementIsReported
<1>2. QED  BY <1>1, AlwaysHeld, PTL

\* Every step of the loop takes one look, the call ends with the next look once the
\* attempts are used up, and after it nothing happens: a call takes at most
\* max_resample_attempts + 1 looks.  This is what CaptureReturns needs beyond
\* fairness.
THEOREM LooksAreCounted ==
  /\ Spec => [](attempts <= MaxResample + 1)
  /\ Spec => [][/\ Looking /\ attempts' = attempts + 1
                /\ attempts' = MaxResample + 1 => Returned']_vars
<1>1. Held /\ [Next]_vars =>
        [/\ Looking /\ attempts' = attempts + 1
         /\ attempts' = MaxResample + 1 => Returned']_vars
  <2> SUFFICES ASSUME Held, NEW s \in Screens,
                      ReturnSettled(s) \/ LookAgain(s) \/ GiveUp(s)
               PROVE  /\ Looking /\ attempts' = attempts + 1
                      /\ attempts' = MaxResample + 1 => Returned'
    BY DEF Next
  <2>1. CASE LookAgain(s)
    BY <2>1, AdapterConfig DEF LookAgain, Held, Typed
  <2>2. CASE ReturnSettled(s)
    BY <2>2, ReturnedIsNotPending DEF ReturnSettled, Returned, Looking
  <2>3. CASE GiveUp(s)
    <3>1. result' # Pending
      <4> DEFINE stable == s \notin Inconsistent /\ ~Disagrees(s, previous')
      <4>1. stable \in BOOLEAN /\ result' = [screen |-> s, stable |-> stable]
        BY <2>3 DEF GiveUp
      <4> HIDE DEF stable
      <4>2. QED  BY <4>1, ReturnedIsNotPending
    <3>2. QED  BY <2>3, <3>1 DEF GiveUp, Returned, Looking
  <2>4. QED  BY <2>1, <2>2, <2>3
<1>2. Init => attempts <= MaxResample + 1  BY AdapterConfig DEF Init
<1>3. Held /\ attempts <= MaxResample + 1 /\ [Next]_vars =>
        (attempts <= MaxResample + 1)'
  <2> SUFFICES ASSUME Held, attempts <= MaxResample + 1, [Next]_vars
               PROVE  attempts' <= MaxResample + 1
    OBVIOUS
  <2>1. (Looking /\ attempts' = attempts + 1) \/ attempts' = attempts
    BY DEF Next, vars, ReturnSettled, LookAgain, GiveUp
  <2>2. QED
    BY <2>1, AdapterConfig DEF Held, Typed, ComparesWithLast
<1>4. QED  BY <1>1, <1>2, <1>3, AlwaysHeld, PTL DEF Spec
=============================================================================
