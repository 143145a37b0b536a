---------------------------- MODULE PurgeClock ----------------------------
(***************************************************************************)
(* The promise "next cleanup at ...": server and console each compute the  *)
(* next 03:00 of Berlin as a UTC instant, across the two days a year when  *)
(* the offset changes. Hours are the unit; hour 0 is midnight UTC of some  *)
(* day, and the offset changes at hour Change, which is 01:00 UTC.         *)
(***************************************************************************)
EXTENDS Integers

CONSTANTS Change,   \* hour of the changeover
          Horizon   \* hours watched

ASSUME ClockAssumption == /\ Change \in Nat /\ Change % 24 = 1
                          /\ Horizon \in Nat

VARIABLES summer,   \* the change is the one to summer time
          utc,      \* the present hour
          promise,  \* the instants promised since the last run of the job
          ran       \* the job runs at this very hour

clockVars == <<summer, utc, promise, ran>>

\* Berlin is two hours ahead of UTC in summer and one in winter.
Offset(t) == IF summer = (t >= Change) THEN 2 ELSE 1

Local(t) == t + Offset(t)

\* The UTC instant of a Berlin wall clock time, by three corrections.
Correct(t, target) == t + target - Local(t)

berlinLocalToIso(target) ==
  Correct(Correct(Correct(target, target), target), target)

NextByTodaysOffset(now) ==
  LET today == Local(now) \div 24
      hour == Local(now) % 24
  IN 24 * (IF hour >= 3 THEN today + 1 ELSE today) + 3 - Offset(now)

\* Today's 03:00 if the wall clock is before it, else tomorrow's.
nextPurgeAt(now) ==
  LET today == Local(now) \div 24
      hour == Local(now) % 24
  IN berlinLocalToIso(24 * (IF hour >= 3 THEN today + 1 ELSE today) + 3)

\* The console repeats the computation with its own clock.
computeNextBerlinPurgeIso(now) == nextPurgeAt(now)

\* The scheduler fires when the wall clock of Berlin shows 03:00 [external].
Fires(t) == Local(t) % 24 = 3 /\ Local(t - 1) % 24 # 3

ClockInit == summer \in BOOLEAN /\ utc = 0 /\ promise = {} /\ ran = FALSE

\* An hour passes; whoever looks at the page is promised an instant.
Tick ==
  /\ utc < Horizon
  /\ utc' = utc + 1 /\ summer' = summer
  /\ ran' = Fires(utc')
  /\ promise' = (IF ran THEN {} ELSE promise)
                  \union {computeNextBerlinPurgeIso(utc)}

ClockNext == Tick

ClockSpec == ClockInit /\ [][ClockNext]_clockVars

\* The job runs at an hour exactly when every visitor since its last run was
\* promised that hour: no promise is missed, none is early, and none changes
\* over the day, the days of the clock change included.
PromiseKept == /\ ran => promise = {utc}
               /\ ~ran => \A p \in promise : p > utc
=============================================================================
