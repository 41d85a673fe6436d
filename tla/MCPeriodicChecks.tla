------------------------- MODULE MCPeriodicChecks --------------------------
(* Small instances of PeriodicChecks.                                      *)
EXTENDS PeriodicChecks

CONSTANT k1

Check(enabled, period, min, max) == [enabled |-> enabled, period |-> period, minJitter |-> min, maxJitter |-> max, loads |-> TRUE]

Schedule(period, min, max, rds, lowLatency) ==
  [period |-> period, minJitter |-> min, maxJitter |-> max,
   checks |-> [c \in Checks |-> IF c = "rds-compliance" THEN rds ELSE lowLatency]]

Plain == Check(TRUE, Unset, Unset, Unset)
Off == Check(FALSE, Unset, Unset, Unset)

(* Immediate creation, one check with a shorter period. *)
TwoPeriods == Schedule(2, 0, 0, Plain, Check(TRUE, 1, Unset, Unset))

(* One check is off; the other delays its runs, by the default window,      *)
(* longer than its period.                                                  *)
Delayed == Schedule(2, Unset, Unset, Off, Check(TRUE, 1, Unset, Unset))

(* Everything off; a window that admission would refuse; the configuration  *)
(* of the last check cannot be loaded.                                      *)
AllOff == Schedule(0, 0, 0, Plain, Plain)
BadWindow == Schedule(2, 0, 0, Check(TRUE, Unset, 2, 1), Plain)
LastBroken == Schedule(2, 0, 0, Plain, [Plain EXCEPT !.loads = FALSE])

Schedules == {TwoPeriods, Delayed, AllOff, BadWindow, LastBroken}
=============================================================================
