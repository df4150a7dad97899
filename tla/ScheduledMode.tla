---------------------------- MODULE ScheduledMode ----------------------------
(***************************************************************************)
(* Scheduled mode, core/common_schedule.py: which days are enabled, and    *)
(* what the service does at a moment of a night: wait for the fallback     *)
(* delay after the daytime window, boost until the latest end or the next  *)
(* window, or leave the charger to the daytime decision.                   *)
(*                                                                         *)
(* The clock counts slots; a day has DaySlots of them and day 0 is a       *)
(* Monday.  The window of a day is that of its month; a month ends at      *)
(* MonthEnd.                                                               *)
(***************************************************************************)
EXTENDS Integers, Sequences, SequencesExt, FiniteSets

CONSTANTS DaySlots, LastDay, MonthEnd,
          MonthWindows,   \* pairs of windows, of the first and the second month
          DaySettings,    \* enabled-days settings, sequences of tokens
          FallbackDays,   \* DEFAULT_SCHEDULED_ENABLED_DAYS
          SmDelays, LatestEnds

\* A window lies in a day, a day of the week counts from Monday.
ASSUME ScheduleAssumption ==
    /\ {DaySlots, LastDay} \subseteq Nat \ {0} /\ MonthEnd \in Int
    /\ \A pair \in MonthWindows : \A month \in {1, 2} :
          pair[month].start \in 0..DaySlots /\ pair[month].end \in 0..DaySlots
    /\ \A tokens \in DaySettings :
          /\ tokens \in Seq(ToSet(tokens))
          /\ \A token \in ToSet(tokens) :
                /\ token.kind \in {"day", "range"} => token.first \in 0..6
                /\ token.kind = "range" => token.last \in 0..6
    /\ FallbackDays \subseteq 0..6 /\ SmDelays \subseteq Nat /\ LatestEnds \subseteq Int

VARIABLES windows, setting, delay, latest, clock

smVars == <<windows, setting, delay, latest, clock>>

(***************************************************************************)
(* Enabled days.  A token is a day, a range of days that may wrap around   *)
(* the week, a word for a whole selection, or nothing the parser knows.    *)
(***************************************************************************)
SpecialSelections == {"all", "weekdays", "weekend"}

SpecialDays(word) ==
    CASE word = "all" -> 0..6
      [] word = "weekdays" -> FallbackDays
      [] word = "weekend" -> {5, 6}

(* Faulty variant: a range that wraps around the week is empty. *)
Mutant_RangeNotWrapped(first, last) == first..last

WeekdayRangeValues(first, last) ==
    {(first + offset) % 7 : offset \in 0..((last - first) % 7)}

WeekdaysOf(token) ==
    CASE token.kind = "day" -> {token.first}
      [] token.kind = "range" -> WeekdayRangeValues(token.first, token.last)
      [] OTHER -> {}

NormalizeEnabledDays(tokens) ==
    LET days == UNION {WeekdaysOf(token) : token \in ToSet(tokens)}
    IN  IF Len(tokens) = 1 /\ tokens[1].kind \in SpecialSelections
        THEN SpecialDays(tokens[1].kind)
        ELSE IF days = {} THEN FallbackDays ELSE days

(***************************************************************************)
(* scheduled_mode_snapshot for the current moment.                         *)
(***************************************************************************)
Today     == clock \div DaySlots
SlotOfDay == clock % DaySlots

WindowFor(day) == IF day < MonthEnd THEN windows[1] ELSE windows[2]
Normal(day)    == WindowFor(day).start < WindowFor(day).end

(* Faulty variant: the coming day becomes the target at midnight. *)
Mutant_TargetAtMidnight == Today

TargetDay ==
    IF Normal(Today) /\ SlotOfDay >= WindowFor(Today).end THEN Today + 1 ELSE Today

FallbackStart(day) == (day - 1) * DaySlots + WindowFor(day - 1).end + delay

NightBoostEnd(day) ==
    day * DaySlots + (IF latest < WindowFor(day).start THEN latest
                                                       ELSE WindowFor(day).start)

TargetEnabled == TargetDay % 7 \in NormalizeEnabledDays(setting)

DaytimeWindowActive ==
    /\ TargetDay = Today
    /\ SlotOfDay >= WindowFor(Today).start /\ SlotOfDay < WindowFor(Today).end

PostNightState ==
    CASE clock < FallbackStart(TargetDay) -> "waiting-fallback"
      [] clock >= FallbackStart(TargetDay) /\ clock < NightBoostEnd(TargetDay) ->
             "night-boost"
      [] OTHER -> "after-latest-end"

SnapshotState ==
    CASE DaytimeWindowActive -> "auto-window"
      [] ~DaytimeWindowActive /\ ~TargetEnabled -> "inactive-day"
      [] OTHER -> PostNightState

SmInit ==
    /\ windows \in MonthWindows /\ setting \in DaySettings
    /\ delay \in SmDelays /\ latest \in LatestEnds
    /\ clock = DaySlots

ClockMoves ==
    /\ clock < LastDay * DaySlots
    /\ clock' = clock + 1
    /\ UNCHANGED <<windows, setting, delay, latest>>

SmNext == ClockMoves

SmTypeOK ==
    /\ clock \in DaySlots..(LastDay * DaySlots)
    /\ SnapshotState \in {"auto-window", "inactive-day", "waiting-fallback",
                          "night-boost", "after-latest-end"}

(***************************************************************************)
(* Reference: the boost of an enabled day is the interval from the end of  *)
(* the window of the day before, after the delay, to the latest end or the *)
(* day's own window, whatever month either day belongs to.  Stated for     *)
(* days around which no window crosses midnight.                           *)
(***************************************************************************)
Selected(day) ==
    LET named(n) == \E t \in ToSet(setting) :
            \/ t.kind = "day" /\ t.first = n
            \/ /\ t.kind = "range"
               /\ IF t.first <= t.last THEN t.first <= n /\ n <= t.last
                                       ELSE t.first <= n \/ n <= t.last
        only(word) == Len(setting) = 1 /\ setting[1].kind = word
    IN  \/ only("all")
        \/ only("weekend") /\ day % 7 \in {5, 6}
        \/ named(day % 7)
        \/ /\ day % 7 \in FallbackDays
           /\ ~only("all") /\ ~only("weekend") /\ \A n \in 0..6 : ~named(n)

BoostIsTheNight ==
    (\A day \in (Today - 1)..(Today + 1) : Normal(day)) =>
        (SnapshotState = "night-boost" <=>
            \E day \in Today..(Today + 1) :
                /\ Selected(day)
                /\ (day - 1) * DaySlots + WindowFor(day - 1).end + delay <= clock
                /\ clock < day * DaySlots + WindowFor(day).start
                /\ clock < day * DaySlots + latest)
=============================================================================
