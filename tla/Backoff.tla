------------------------------ MODULE Backoff ------------------------------
(***************************************************************************)
(* The delay between two polls of the database                             *)
(* (src/starbelly/backoff.py): a sync doubles it when it found no item,    *)
(* and halves it when it found some.  Delays are in quarters of a second,  *)
(* but // rounds down to whole seconds.                                    *)
(***************************************************************************)
EXTENDS Integers

CONSTANTS
  MinDelay,  \* min_, where it begins (1)
  MaxDelay,  \* max_ (256)
  MaxPolls   \* bound: polls whose outcome differs

ASSUME BackoffAssumption == MinDelay \in Nat \ {0} /\ MaxDelay \in Nat /\ MaxPolls \in Nat

Second == 4
HalfInSeconds(delay) == ((delay \div 2) \div Second) * Second

(* Mutant of Increase: not from half of the maximum.                       *)
IncreaseBelow(delay) == IF delay < HalfInSeconds(MaxDelay) THEN 2 * delay ELSE delay

Increase(delay) == IF delay <= HalfInSeconds(MaxDelay) THEN 2 * delay ELSE delay

Decrease(delay) == IF delay >= 2 * MinDelay THEN HalfInSeconds(delay) ELSE delay

-----------------------------------------------------------------------------
(* The delays after up to MaxPolls polls, and after n polls in vain.       *)
Delays ==
  LET after[n \in 0..MaxPolls] ==
        IF n = 0 THEN {MinDelay}
        ELSE after[n - 1] \cup UNION {{Increase(d), Decrease(d)} : d \in after[n - 1]}
  IN after[MaxPolls]

InVain(delay, n) ==
  LET after[i \in 0..n] == IF i = 0 THEN delay ELSE Increase(after[i - 1])
  IN after[n]

(* Whatever polls found before, a sync that finds no more items waits for  *)
(* the maximum between polls in the end, and never longer.  Delays of less *)
(* than a second are excepted: decrease turns them into 0, for good.       *)
BacksOff ==
  \A d \in Delays : d <= MaxDelay /\ (d > 0 => InVain(d, MaxPolls) = MaxDelay)
=============================================================================
