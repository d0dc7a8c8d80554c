---------------------------- MODULE CronTriggers ----------------------------
(***************************************************************************)
(* The schedule triggers of the data plane: the cron expressions of        *)
(* runtime/lifecycle/cron-matcher.ts and the interval timers that ask them *)
(* (syncCronSchedules of apps/runtime/runtime-server.ts).                  *)
(*                                                                         *)
(* Time is a number of ticks, Minute of them to a minute.  A date is a     *)
(* minute, a day of the month and a day of the week; hours and months are  *)
(* compared as minutes are.  The other trigger of a function, a request    *)
(* that matches a route, is module RouteMatcher.                           *)
(***************************************************************************)
EXTENDS Integers, Sequences, FiniteSetsExt, RouteMatcher

CONSTANTS Minute,        \* ticks in a minute
          LastMinute, LastDay, LastWeekday,
          Expressions,   \* expressions, fields minute, day and weekday
          MaxLate        \* ticks a timer may be late, in all

ASSUME CronConstants == Minute \in Nat \ {0} /\ MaxLate \in Nat

VARIABLES
  expr,       \* the expression of the snapshot in use
  ticking,    \* the ticks left of each interval timer set for it (a set: one timer)
  tick,       \* the tick of the minute
  date,
  late,
  fired,      \* history: runs begun in this minute
  steady      \* history: since the minute began no timer was set or late

cronVars == <<expr, ticking, tick, date, late, fired, steady>>

Dates == [minute : 0..LastMinute, day : 1..LastDay, weekday : 0..LastWeekday]

----------------------------------------------------------------------------
(* compileCron.  A field is a sequence of parts: an asterisk or a range, and a step, *)
(* <<>> where none is written.                                                      *)

Steps(start, end, step) == {v \in start..end : (v - start) % step = 0}

StepOf(part) == IF part.step = <<>> THEN 1 ELSE part.step[1]

PartValues(part, min, max) ==
  IF part.star THEN Steps(min, max, StepOf(part)) ELSE Steps(part.start, part.end, StepOf(part))

\* A part that is out of range, reversed or has a step below one is an error.
PartValid(part, min, max) ==
  StepOf(part) >= 1 /\ (part.star \/ (min <= part.start /\ part.end <= max /\ part.start <= part.end))

FieldValues(field, min, max) == UNION {PartValues(field[i], min, max) : i \in DOMAIN field}
FieldValid(field, min, max) == \A i \in DOMAIN field : PartValid(field[i], min, max)
\* The text of the field is not "*": "*/1" restricts, to every value.
Restricted(field) == ~(Len(field) = 1 /\ field[1].star /\ field[1].step = <<>>)

Compiles(e) ==
  /\ FieldValid(e.minute, 0, LastMinute)
  /\ FieldValid(e.day, 1, LastDay) /\ FieldValid(e.weekday, 0, LastWeekday)

\* Mutant of Matches: a day must satisfy both fields.
MatchesBoth(e, d) ==
  /\ d.minute \in FieldValues(e.minute, 0, LastMinute)
  /\ d.day \in FieldValues(e.day, 1, LastDay) /\ d.weekday \in FieldValues(e.weekday, 0, LastWeekday)

Matches(e, d) ==
  LET domMatch == d.day \in FieldValues(e.day, 1, LastDay)
      dowMatch == d.weekday \in FieldValues(e.weekday, 0, LastWeekday)
  IN  /\ d.minute \in FieldValues(e.minute, 0, LastMinute)
      /\ IF Restricted(e.day) /\ Restricted(e.weekday) THEN domMatch \/ dowMatch
         ELSE IF Restricted(e.day) THEN domMatch
         ELSE IF Restricted(e.weekday) THEN dowMatch
         ELSE TRUE

----------------------------------------------------------------------------
CronTypeOK ==
  /\ expr \in Expressions /\ tick \in 0..Minute - 1 /\ date \in Dates
  /\ ticking \subseteq -MaxLate..Minute /\ late \in 0..MaxLate
  /\ fired \in Nat /\ steady \in BOOLEAN

\* An expression that does not compile gets no timer.
TimerFor(e) == IF Compiles(e) THEN {Minute} ELSE {}

CronInit ==
  /\ expr \in Expressions /\ ticking = TimerFor(expr)
  /\ date \in Dates /\ tick \in 0..Minute - 1
  /\ late = 0 /\ fired = 0 /\ steady = FALSE

\* Mutant of Resync: the timers of the snapshot that is replaced go on.
ResyncKeeping(e) ==
  /\ expr' = e /\ ticking' = ticking \cup TimerFor(e) /\ steady' = FALSE
  /\ UNCHANGED <<tick, date, late, fired>>

\* A snapshot is accepted: its timers replace the others and start afresh.
Resync(e) ==
  /\ expr' = e /\ ticking' = TimerFor(e) /\ steady' = FALSE
  /\ UNCHANGED <<tick, date, late, fired>>

\* The callback asks the expression about the date of the moment it runs in.
TimerFires(left) ==
  /\ left \in ticking /\ left <= 0
  /\ ticking' = (ticking \ {left}) \cup {Minute}
  /\ fired' = IF Matches(expr, date) THEN fired + 1 ELSE fired
  /\ UNCHANGED <<expr, tick, date, late, steady>>

\* A timer whose time has come may be late, never early.
Lateness == {left \in ticking : left <= 0}

TimePasses ==
  /\ late + Cardinality(Lateness) <= MaxLate
  /\ late' = late + Cardinality(Lateness)
  /\ ticking' = {left - 1 : left \in ticking}
  /\ tick' = (tick + 1) % Minute
  /\ IF tick' = 0 THEN /\ fired' = 0 /\ steady' = TRUE
                       /\ date' \in {d \in Dates : d.minute = (date.minute + 1) % (LastMinute + 1)}
     ELSE /\ steady' = (steady /\ Lateness = {})
          /\ UNCHANGED <<fired, date>>
  /\ UNCHANGED expr

CronNext ==
  \/ \E e \in Expressions : Resync(e)
  \/ \E left \in ticking : TimerFires(left)
  \/ TimePasses

CronSpec == CronInit /\ [][CronNext]_cronVars

----------------------------------------------------------------------------
\* What a schedule asks for, stated without the code's case distinction: the minute,
\* and one of the days that are named where days are named at all.
NamesDay(field, value, min, max) == Restricted(field) /\ value \in FieldValues(field, min, max)
Due ==
  /\ Compiles(expr) /\ date.minute \in FieldValues(expr.minute, 0, LastMinute)
  /\ Restricted(expr.day) \/ Restricted(expr.weekday) =>
       \/ NamesDay(expr.day, date.day, 1, LastDay)
       \/ NamesDay(expr.weekday, date.weekday, 0, LastWeekday)

\* A schedule never fires twice in a minute, however often snapshots are accepted and
\* timers are late.
OncePerMinute == fired <= 1

\* A due minute through which the timer stood and was on time is not missed, and one
\* that is not due does not fire.
FiresWhenDue ==
  /\ steady /\ tick = Minute - 1 /\ Lateness = {} /\ Due => fired = 1
  /\ steady /\ ~Due => fired = 0

\* What triggers a function: the most specific route wins, and a cron trigger fires
\* when it is due and once a minute, though each snapshot replaces its timers.
TriggersSound ==
  /\ MatcherTypeOK /\ MostSpecificWins
  /\ CronTypeOK /\ OncePerMinute /\ FiresWhenDue
=============================================================================
