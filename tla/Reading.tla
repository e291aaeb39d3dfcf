------------------------------- MODULE Reading -------------------------------
(***************************************************************************)
(* One reader's day log and session log, and what is computed from them:   *)
(* streaks, totals and the yearly wrapped (server/src/stats.rs; wrapped in *)
(* social.rs; set_position in books.rs; reading_days, sessions_log and     *)
(* their aggregates in db.rs).                                             *)
(*                                                                         *)
(* The client names the day, because "streaks are a human-day concept";    *)
(* the server only checks that it is a date not far from its own.  A row's *)
(* key is the date as written, <<year, month, day>> here; the streaks are  *)
(* computed on days since the epoch, so the civil-date arithmetic between  *)
(* the two is part of the model.  A session is filed under the instant at  *)
(* which the client says it began, which nobody checks; its UTC day is     *)
(* kept here.                                                              *)
(***************************************************************************)
EXTENDS Integers, Sequences, SequencesExt, FiniteSets

CONSTANTS
    Starts,      \* days since the epoch on which the log may begin
    Span,        \* bound: days that pass after it
    DailyGoal,   \* DAILY_GOAL, 300 in the code
    MaxRead,     \* MAX_READ_PER_REPORT, 500 in the code
    Reads,       \* the counts of words clients report
    MaxWords,    \* bound: words of one day
    MaxSkew,     \* MAX_DAY_SKEW_DAYS, 2 in the code
    FirstYear,   \* the first year with a wrapped, 2020 in the code
    Minute,      \* time units in a minute, 60000 in the code
    MaxTime,     \* MAX_SESSION_MS, in time units
    MaxWpm,      \* MAX_AVG_WPM, 1500 in the code
    Bodies,      \* the session summaries clients send: time, words and pace
    Begun,       \* days on which clients say a session began, however far away
    MaxSessions  \* bound: sessions in the log

ASSUME ReadingAssumption ==
    /\ Starts \subseteq Nat /\ Span \in Nat /\ MaxSkew \in Nat
    /\ DailyGoal \in Nat \ {0} /\ MaxRead \in Nat \ {0}
    /\ Reads \subseteq Int
    /\ FirstYear \in Nat /\ Minute \in Nat \ {0} /\ MaxTime \in Nat \ {0} /\ MaxWpm \in Nat
    /\ Bodies \subseteq [time : Int, words : Int, wpm : Int] /\ MaxSessions \in Nat
    /\ Begun \subseteq Nat

VARIABLES
    first,   \* the day the log began, never changed
    today,   \* the server's UTC day
    words,   \* reading_days: words by date, of the dates that have a row
    held,    \* a report that passed its checks and waits for the database
    sessions \* sessions_log, in the order of arrival

readingVars == <<first, today, words, held, sessions>>

NoReport == [date |-> <<>>, read |-> 0, at |-> 0]

-----------------------------------------------------------------------------
(* Day math: Howard Hinnant's civil-date algorithms.                       *)

DaysFromCivil(date) ==
    LET m == date[2]
        y == IF m <= 2 THEN date[1] - 1 ELSE date[1]
        era == y \div 400
        yoe == y - era * 400
        mp == (m + 9) % 12
        doy == (153 * mp + 2) \div 5 + date[3] - 1
        doe == yoe * 365 + yoe \div 4 - yoe \div 100 + doy
    IN  era * 146097 + doe - 719468

\* The year of a day in an era of 400 years, both beginning in March.
YearOfEra(doe) == (doe - doe \div 1460 + doe \div 36524 - doe \div 146096) \div 365

\* The date of a day of a year that begins in March.
OfMarch(y, doy) ==
    LET mp == (5 * doy + 2) \div 153
        m == IF mp < 10 THEN mp + 3 ELSE mp - 9
    IN  <<IF m <= 2 THEN y + 1 ELSE y, m, doy - (153 * mp + 2) \div 5 + 1>>

CivilFromDays(day) ==
    LET z == day + 719468
        era == z \div 146097
        doe == z - era * 146097
        yoe == YearOfEra(doe)
    IN  OfMarch(yoe + era * 400, doe - (365 * yoe + yoe \div 4 - yoe \div 100))

\* parse_day accepts a written date.
IsDate(date) ==
    /\ date[2] \in 1..12 /\ date[3] \in 1..31
    /\ CivilFromDays(DaysFromCivil(date)) = date

-----------------------------------------------------------------------------
(* streaks.                                                                *)

\* The dates as the table orders them, by their text.
Earlier(a, b) ==
    \E k \in 1..3 : a[k] < b[k] /\ \A j \in 1..(k - 1) : a[j] = b[j]

\* The days of a log that met the goal, ascending.
Qualifying(log) ==
    LET dates == {d \in DOMAIN log : log[d] >= DailyGoal}
        rank(d) == Cardinality({e \in dates : Earlier(e, d)})
    IN  [k \in 1..Cardinality(dates) |-> DaysFromCivil(CHOOSE d \in dates : rank(d) = k - 1)]

\* Mutant: a run counts the steps between its days.
Run_Steps(before, gap) == IF gap = 1 THEN before + 1 ELSE 0

\* The length of a run after one more day, by its distance from the last.
Run(before, gap) == IF gap = 1 THEN before + 1 ELSE 1

Best(days) ==
    LET scan[k \in 0..Len(days)] ==
            IF k = 0 THEN [prev |-> -2, run |-> 0, best |-> 0]
            ELSE LET last == scan[k - 1]
                     run == Run(last.run, days[k] - last.prev)
                 IN  [prev |-> days[k], run |-> run,
                      best |-> IF run > last.best THEN run ELSE last.best]
    IN  scan[Len(days)].best

\* Mutant: a streak must include today.
Anchors_TodayOnly(now) == {now}

\* Where the current streak may end.
Anchors(now) == {now, now - 1}

Current(days, now) ==
    LET set == ToSet(days)
        ends == Anchors(now) \intersect set
        anchor == CHOOSE a \in ends : \A b \in ends : b <= a
    IN  IF ends = {} THEN 0
        ELSE CHOOSE n \in 1..Len(days) :
                /\ anchor - n \notin set
                /\ \A k \in 0..(n - 1) : anchor - k \in set

-----------------------------------------------------------------------------
(* Totals and the wrapped.                                                 *)

\* The sum of a column.
Total(column) == FoldFunction(+, 0, column)

Active(log) == Cardinality({d \in DOMAIN log : log[d] > 0})

\* The day with the most words, of several the last: ORDER BY words DESC, day DESC in
\* stats_totals, max_by_key over the ascending rows in wrapped.
BestDay(log) ==
    CHOOSE d \in DOMAIN log : \A e \in DOMAIN log :
        log[e] < log[d] \/ (log[e] = log[d] /\ ~Earlier(d, e))

\* Mutant: a year has 365 days.
NewYear_Short(y) == DaysFromCivil(<<FirstYear, 1, 1>>) + 365 * (y - FirstYear)

\* The first instant of a year, from parse_day.
NewYear(y) == DaysFromCivil(<<y, 1, 1>>)

\* The day log begins in a year with a wrapped, and reports reach into the next at most.
ASSUME YearAssumption ==
    /\ MaxSkew <= 365
    /\ \A day \in Starts : NewYear(FirstYear) <= day - MaxSkew

\* reading_days whose date begins with the year, sessions_between its two ends.
DaysOf(y) == Restrict(words, {d \in DOMAIN words : d[1] = y})
SessionsOf(y) ==
    {k \in DOMAIN sessions : NewYear(y) <= sessions[k].day /\ sessions[k].day < NewYear(y + 1)}

\* GET /api/stats and GET /api/wrapped, from the rows of a log and of the session log, but
\* for the books finished and the month and weekday most was read in.
Summary(log, rows) ==
    [words |-> Total(log), active |-> Active(log), best |-> Best(Qualifying(log)),
     day |-> IF log = <<>> THEN <<>> ELSE BestDay(log),
     sessions |-> Cardinality(rows), time |-> Total([k \in rows |-> sessions[k].time]),
     sessionWords |-> Total([k \in rows |-> sessions[k].words])]

Stats == Summary(words, DOMAIN sessions)
Wrapped(y) == Summary(DaysOf(y), SessionsOf(y))

-----------------------------------------------------------------------------
(* Reports, and days going by.                                             *)

ReadingInit ==
    /\ first \in Starts
    /\ today = first
    /\ words = <<>>
    /\ held = NoReport
    /\ sessions = <<>>

Near(day) == day - today \in -MaxSkew..MaxSkew

Clamped(read) == IF read < 0 THEN 0 ELSE IF read > MaxRead THEN MaxRead ELSE read

\* add_read_words.
Added(date, read) ==
    [d \in DOMAIN words \union {date} |->
        IF d # date THEN words[d] ELSE IF d \in DOMAIN words THEN words[d] + read ELSE read]

\* set_position with a day and a count: the checks, made as of now.  A day that
\* is missing is the server's.  A count of nothing writes no row.
Accept(date, read) ==
    /\ held = NoReport
    /\ IsDate(date)
    /\ Near(DaysFromCivil(date))
    /\ Clamped(read) > 0
    /\ (IF date \in DOMAIN words THEN words[date] ELSE 0) + Clamped(read) <= MaxWords
    /\ held' = [date |-> date, read |-> Clamped(read), at |-> today]
    /\ UNCHANGED <<first, today, words, sessions>>

\* ...and its database call, perhaps after midnight: the row is written, or the
\* book is gone or too short for the position and nothing is.
Record ==
    /\ held # NoReport
    /\ words' \in {words, Added(held.date, held.read)}
    /\ held' = NoReport
    /\ UNCHANGED <<first, today, sessions>>

\* x / y, rounded to the nearest, half up.
Rounded(x, y) == (2 * x + y) \div (2 * y)

\* Mutant: the words as they were sent.
ClampedWords_AsSent(sent, time, wpm) == sent

\* Within half of what the time and the pace make.
ClampedWords(sent, time, wpm) ==
    IF 2 * sent * Minute < time * wpm THEN Rounded(time * wpm, 2 * Minute)
    ELSE IF 2 * sent * Minute > 3 * time * wpm THEN Rounded(3 * time * wpm, 2 * Minute)
    ELSE sent

AtMost(x, most) == IF x > most THEN most ELSE x

\* create_session: any started_at that is not negative is taken.
CreateSession(body, day) ==
    LET time == AtMost(body.time, MaxTime)
        wpm == AtMost(body.wpm, MaxWpm)
    IN  /\ body.time > 0 /\ body.words >= 0 /\ body.wpm >= 0
        /\ Len(sessions) < MaxSessions
        /\ sessions' = Append(sessions, [day |-> day, time |-> time, wpm |-> wpm,
                                         words |-> ClampedWords(body.words, time, wpm)])
        /\ UNCHANGED <<first, today, words, held>>

\* Midnight, UTC.
Tick ==
    /\ today < first + Span
    /\ today' = today + 1
    /\ UNCHANGED <<first, words, held, sessions>>

\* What a client may write: days of this month and its neighbours, real or not.
Dates ==
    LET near == {CivilFromDays(today + k) : k \in -(MaxSkew + 1)..(MaxSkew + 1)}
    IN  near \union {<<d[1], d[2], d[3] + 1>> : d \in near}

ReadingNext ==
    \/ \E date \in Dates, read \in Reads : Accept(date, read)
    \/ Record
    \/ \E body \in Bodies, day \in Begun \union {today} : CreateSession(body, day)
    \/ Tick

ReadingSpec == ReadingInit /\ [][ReadingNext]_readingVars

-----------------------------------------------------------------------------
(* Properties.                                                             *)

IsLeap(y) == y % 4 = 0 /\ (y % 100 # 0 \/ y % 400 = 0)

MonthLength(y, m) ==
    CASE m = 2 -> IF IsLeap(y) THEN 29 ELSE 28
      [] m \in {4, 6, 9, 11} -> 30
      [] OTHER -> 31

DayAfter(date) ==
    LET y == date[1]  m == date[2]
    IN  IF date[3] < MonthLength(y, m) THEN <<y, m, date[3] + 1>>
        ELSE IF m < 12 THEN <<y, m + 1, 1>>
        ELSE <<y + 1, 1, 1>>

\* Rows are kept under real dates of the Gregorian calendar, each in reach of
\* the days the server has seen, and hold words.
ReadingTypeOK ==
    /\ first \in Starts /\ today \in first..(first + Span)
    /\ \A d \in DOMAIN words :
          /\ d[2] \in 1..12 /\ d[3] \in 1..MonthLength(d[1], d[2])
          /\ DaysFromCivil(d) \in (first - MaxSkew)..(today + MaxSkew)
          /\ words[d] \in 1..MaxWords
    /\ held # NoReport => held.read \in 1..MaxRead /\ held.at \in first..today
    /\ \A k \in DOMAIN sessions : sessions[k].time \in 1..MaxTime /\ sessions[k].wpm \in 0..MaxWpm

\* The years divide a life: what is in the wrapped of each year that can be asked for
\* adds up to the lifetime totals, a session being in the year its UTC date is in; and
\* the best day and the best streak are no better than what the years have.  What no
\* wrapped shows, and the lifetime totals do, are the words dated tomorrow, in the year
\* to come, and the sessions that began, by what the client said, before the first
\* year or after this one.
YearsAddUp ==
    LET year == CivilFromDays(today)[1]
        asked == {y \in {d[1] : d \in DOMAIN words}
                         \union {CivilFromDays(sessions[k].day)[1] : k \in DOMAIN sessions} :
                     FirstYear <= y /\ y <= year}
        life == Stats
        of == [y \in asked |-> Wrapped(y)]
        astray == {k \in DOMAIN sessions :
                      CivilFromDays(sessions[k].day)[1] \notin FirstYear..year}
        next == Summary(DaysOf(year + 1), {})
    IN  /\ life.words = Total([y \in asked |-> of[y].words]) + next.words
        /\ life.active = Total([y \in asked |-> of[y].active]) + next.active
        /\ life.sessions = Total([y \in asked |-> of[y].sessions]) + Cardinality(astray)
        /\ life.time = Total([y \in asked |-> of[y].time])
                         + Total([k \in astray |-> sessions[k].time])
        /\ \A y \in asked : \A k \in SessionsOf(y) : CivilFromDays(sessions[k].day)[1] = y
        /\ \A y \in asked : of[y].best <= life.best
        /\ life.best <= Total([y \in asked |-> of[y].best]) + next.best
        /\ words # <<>> => life.day \in {of[y].day : y \in asked} \union {next.day}

\* The lifetime pace is no wilder than the cap allows: the words on record are at most
\* half more than the capped pace makes in the time on record, and half a word of
\* rounding for each session, whatever clients send.
PaceIsCapped ==
    2 * Minute * Stats.sessionWords
        <= 3 * MaxWpm * Stats.time + Minute * Stats.sessions

\* What the scan over the sorted rows and the walk back from today find is what
\* a streak is: the longest run of days with the goal, and the longest that
\* ends today or, failing that, yesterday.
StreaksAreRuns ==
    LET met == {DaysFromCivil(d) : d \in {d \in DOMAIN words : words[d] >= DailyGoal}}
        runsTo(day) == {n \in 0..Cardinality(met) : ((day - n + 1)..day) \subseteq met}
        longest(S) == CHOOSE n \in S : \A k \in S : k <= n
    IN  /\ Best(Qualifying(words)) = longest((UNION {runsTo(day) : day \in met}) \union {0})
        /\ Current(Qualifying(words), today) =
             longest(runsTo(IF today \in met THEN today ELSE today - 1))

\* Midnight turns to the Gregorian calendar's next date, through month ends, leap days,
\* centuries and new years.  A day that met its goal carries the streak over it; a day
\* that did not ends it, whatever was read before.
MidnightIsFair ==
    [][today' # today =>
         LET now == CivilFromDays(today)
             current == Current(Qualifying(words), today)
         IN  /\ CivilFromDays(today') = DayAfter(now)
             /\ Current(Qualifying(words), today') \in
                  IF now \in DOMAIN words /\ words[now] >= DailyGoal
                  THEN {current, current + 1}
                  ELSE {0, 1}]_readingVars
=============================================================================
