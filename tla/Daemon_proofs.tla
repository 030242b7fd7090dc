------------------------------ MODULE Daemon_proofs ------------------------------
(***************************************************************************)
(* What holds of Daemon for every calendar and every number of lost        *)
(* sockets, signals and deaths: which day a session is of, and that the    *)
(* shares of its book are neither forgotten nor sold twice.                *)
(***************************************************************************)
EXTENDS Daemon, TLAPS, WellFoundedInduction

Clock ==
    /\ day \in Nat /\ day <= MaxDay
    /\ slot \in Nat /\ slot <= MarketClose
    /\ sock \in {"up", "down"}

\* A session runs that may still complete.
Completing == \/ pc \in Waiting \cup {"premarket", "record"}
              \/ pc \in {"sweep", "quote"} /\ why = "eod"

\* last_run_date is the last session completed, and none is of a day to come: the date
\* a wait for 08:30 is for, and that of a running session, are after it.
Dates ==
    /\ lastRun \in Nat /\ lastRun <= day /\ sdate \in Nat /\ wakeDay \in Nat
    /\ \A d \in done : d \in Nat /\ d <= lastRun
    /\ pc \in {"sweep", "quote"} => why \in {"eod", "crash", "abort", "signal"}
    /\ pc = "idle" /\ wakeDay # 0 =>
          /\ sdate = wakeDay /\ lastRun < sdate /\ day <= sdate /\ IsTradingDay(sdate)
          /\ day = sdate => slot < MarketClose \/ straddled
    /\ Completing => lastRun < sdate /\ sdate <= day

\* While a session waits, what it waits for is of its day, and due before the day ends;
\* only a reconnect lasts until the close, and then the session is late.
OnItsDay ==
    straddled \/
      /\ pc = "premarket" => day = sdate /\ slot < MarketClose /\ IsTradingDay(day)
      /\ pc \in {"evalwait", "orbwait"} =>
            /\ day = sdate /\ wakeDay = day
            /\ slot < MarketClose \/ sock = "down" \/ late
      /\ pc \in {"watchdog", "eodwait"} => day = sdate /\ wakeDay = day
      /\ pc = "record" \/ (pc \in {"sweep", "quote"} /\ why = "eod") => day = sdate

DaemonInv == Clock /\ Dates /\ OnItsDay

(***************************************************************************)
(* The calendar.                                                           *)
(***************************************************************************)

LEMMA ConstantsTyped ==
    /\ MaxDay \in Nat /\ MaxDay >= 1
    /\ \A d \in TradingDays : d \in Nat
    /\ \E d \in TradingDays : d > MaxDay
BY DaemonAssumption

LEMMA LeastNatural ==
    ASSUME NEW S \in SUBSET Nat, S # {}
    PROVE  \E x \in S : \A y \in S : x <= y
<1> DEFINE R == {ss \in Nat \X Nat : ss[1] < ss[2]}
<1>1. IsWellFoundedOn(R, Nat)
  BY NatLessThanWellFounded DEF OpToRel
<1>2. PICK x \in S : \A y \in S : <<y, x>> \notin R
  <2> HIDE DEF R
  <2>1. QED
    BY <1>1, WFMin
<1>3. ASSUME NEW y \in S PROVE x <= y
  <2>1. <<y, x>> \in Nat \X Nat /\ <<y, x>>[1] = y /\ <<y, x>>[2] = x
    OBVIOUS
  <2>2. ~ (<<y, x>>[1] < <<y, x>>[2])
    BY <1>2, <2>1
  <2>3. x \in Nat /\ y \in Nat
    OBVIOUS
  <2>4. QED
    BY <2>1, <2>2, <2>3
<1>4. QED
  BY <1>3

\* There is a trading day on or after any day up to the one after the last.
LEMMA NextIsAhead ==
    ASSUME NEW d \in Nat, d <= MaxDay + 1
    PROVE  NextTradingDay(d) \in TradingDays /\ NextTradingDay(d) \in Nat /\ NextTradingDay(d) >= d
<1> DEFINE ahead == {t \in TradingDays : t >= d}
<1>1. ahead \in SUBSET Nat
  BY ConstantsTyped
<1>2. ahead # {}
  <2>1. PICK t \in TradingDays : t > MaxDay
    BY ConstantsTyped
  <2>2. t \in Nat /\ MaxDay \in Nat
    BY ConstantsTyped
  <2>3. t >= d
    BY <2>1, <2>2
  <2>4. QED
    BY <2>3
<1>3. PICK t \in ahead : \A u \in ahead : t <= u
  <2> HIDE DEF ahead
  <2>1. QED
    BY <1>1, <1>2, LeastNatural
<1>4. NextTradingDay(d) \in TradingDays /\ NextTradingDay(d) >= d
  BY <1>3 DEF NextTradingDay
<1>5. QED
  BY <1>4, ConstantsTyped

\* The clock names today until the close of a trading day, and a later day from then.
LEMMA ClockNames ==
    ASSUME Clock, NEW d \in NextMarketDay
    PROVE  /\ d \in Nat /\ d >= day /\ IsTradingDay(d)
           /\ d = day => slot < MarketClose
           /\ IsTradingDay(day) /\ slot < MarketClose => d = day
<1> DEFINE before == IsTradingDay(day) /\ slot < OpenEvalStart
           open == IsTradingDay(day) /\ slot < MarketClose /\ ~before
           next == IF before THEN day
                   ELSE IF IsTradingDay(day) THEN NextTradingDay(day + 1)
                   ELSE NextTradingDay(day)
<1>1. /\ day \in Nat /\ day <= MaxDay /\ MaxDay \in Nat /\ slot \in Nat
      /\ MarketClose = 7 /\ OpenEvalStart = 2
  BY ConstantsTyped DEF Clock, MarketClose, OpenEvalStart
<1>2. /\ NextTradingDay(day + 1) \in Nat /\ NextTradingDay(day + 1) > day
      /\ IsTradingDay(NextTradingDay(day + 1))
  <2>1. day + 1 \in Nat /\ day + 1 <= MaxDay + 1
    BY <1>1
  <2>2. /\ NextTradingDay(day + 1) \in Nat /\ NextTradingDay(day + 1) >= day + 1
        /\ NextTradingDay(day + 1) \in TradingDays
    BY <2>1, NextIsAhead
  <2>3. QED
    BY <1>1, <2>2 DEF IsTradingDay
<1>3. /\ NextTradingDay(day) \in Nat /\ NextTradingDay(day) >= day
      /\ IsTradingDay(NextTradingDay(day))
  <2>1. day <= MaxDay + 1
    BY <1>1
  <2>2. QED
    BY <1>1, <2>1, NextIsAhead DEF IsTradingDay
<1>4. CASE d = ByCalendar
  BY <1>1, <1>2, <1>4 DEF ByCalendar
<1>5. CASE d = ByBroker
  <2>1. d = IF open THEN day ELSE next
    <3>1. GetClock.is_open = open /\ GetClock.next_open = next
      BY DEF GetClock
    <3>2. QED
      BY <1>5, <3>1 DEF ByBroker
  <2>2. CASE IsTradingDay(day) /\ slot < 7
    <3>1. d = day
      BY <1>1, <2>1, <2>2
    <3>2. QED
      BY <1>1, <2>2, <3>1
  <2>3. CASE IsTradingDay(day) /\ ~(slot < 7)
    <3>1. d = NextTradingDay(day + 1)
      BY <1>1, <2>1, <2>3
    <3>2. QED
      BY <1>1, <1>2, <2>3, <3>1
  <2>4. CASE ~IsTradingDay(day)
    <3>1. d = NextTradingDay(day)
      BY <2>1, <2>4
    <3>2. d # day
      BY <1>3, <2>4, <3>1
    <3>3. QED
      BY <1>1, <1>3, <2>4, <3>1, <3>2
  <2>5. QED
    BY <2>2, <2>3, <2>4
<1>6. QED
  BY <1>4, <1>5 DEF NextMarketDay

(***************************************************************************)
(* The steps.                                                              *)
(***************************************************************************)

dates == <<day, slot, pc, why, wakeDay, lastRun, sdate, done, straddled>>

LEMMA InitDaemon == Init => DaemonInv
BY ConstantsTyped DEF Init, DaemonInv, Clock, Dates, OnItsDay, Completing, Waiting, Night, MarketClose

\* Steps that leave the main thread where it is, at the same time.
LEMMA StandingKeeps ==
    ASSUME DaemonInv, UNCHANGED <<dates, late>>, sock' \in {sock, "down"}
    PROVE  DaemonInv'
BY DEF DaemonInv, Clock, Dates, OnItsDay, Completing, IsTradingDay, dates

\* Steps that end a session, or start none.
LEMMA LeavingKeeps ==
    ASSUME DaemonInv, UNCHANGED <<day, slot, wakeDay, lastRun, sdate, done, straddled>>,
           sock' \in {"up", "down"},
           \/ pc' \in {"loop", "reconn", "dead", "exited"}
           \/ pc' = "sweep" /\ why' \in {"crash", "abort", "signal"}
    PROVE  DaemonInv'
BY DEF DaemonInv, Clock, Dates, OnItsDay, Completing, Waiting

LEMMA TurnKeeps ==
    ASSUME DaemonInv, DaemonTurn
    PROVE  DaemonInv'
<1>1. UNCHANGED <<day, slot, lastRun, why, done, straddled, sock>>
  BY DEF DaemonTurn, time, history
<1>2. CASE pc' = "exited" /\ UNCHANGED <<sdate, wakeDay>>
  BY <1>1, <1>2, LeavingKeeps DEF DaemonInv, Clock
<1>3. ASSUME NEW d \in NextMarketDay, d # lastRun, sdate' = d, wakeDay' = d, pc' = "idle"
      PROVE  DaemonInv'
  <2>1. /\ d \in Nat /\ d >= day /\ IsTradingDay(d)
        /\ d = day => slot < MarketClose
    BY <1>3, ClockNames DEF DaemonInv
  <2>2. lastRun < d
    BY <1>3, <2>1 DEF DaemonInv, Dates, Clock
  <2>3. QED
    BY <1>1, <1>3, <2>1, <2>2
       DEF DaemonInv, Clock, Dates, OnItsDay, Completing, Waiting, IsTradingDay
<1>4. CASE pc' = "idle" /\ wakeDay' = 0 /\ UNCHANGED sdate
  BY <1>1, <1>4 DEF DaemonInv, Clock, Dates, OnItsDay, Completing, Waiting
<1>5. QED
  BY <1>2, <1>3, <1>4 DEF DaemonTurn, NotYetRun

\* 08:30 of the date has come, and the wait ends before the day does.
LEMMA BeginKeeps ==
    ASSUME DaemonInv, SessionBegins
    PROVE  DaemonInv' /\ sdate \notin done
<1>1. /\ pc = "idle" /\ wakeDay # 0 /\ Reached(wakeDay, PremarketStart)
      /\ pc' = "premarket" /\ sock' = "up"
      /\ UNCHANGED <<day, slot, why, wakeDay, lastRun, sdate, done, straddled>>
  BY DEF SessionBegins, time
<1>2. /\ sdate = wakeDay /\ lastRun < sdate /\ day <= sdate /\ IsTradingDay(sdate)
      /\ day = sdate => slot < MarketClose \/ straddled
      /\ day \in Nat /\ sdate \in Nat /\ lastRun \in Nat
  BY <1>1 DEF DaemonInv, Dates, Clock
<1>3. day = sdate
  BY <1>1, <1>2 DEF Reached
<1>4. sdate \notin done
  BY <1>2 DEF DaemonInv, Dates
<1>5. DaemonInv'
  BY <1>1, <1>2, <1>3
     DEF DaemonInv, Clock, Dates, OnItsDay, Completing, Waiting, IsTradingDay
<1>6. QED
  BY <1>4, <1>5

\* The phases of a session, up to the sweep.
LEMMA PhasesKeep ==
    ASSUME DaemonInv, PremarketEnds \/ OpenEval \/ PostOrb \/ WatchdogEnds \/ EodArrives
    PROVE  DaemonInv'
<1>1. CASE PremarketEnds
  <2>1. PICK d \in NextMarketDay : wakeDay' = d
    BY <1>1 DEF PremarketEnds
  <2>2. d \in Nat /\ (IsTradingDay(day) /\ slot < MarketClose => d = day)
    BY ClockNames DEF DaemonInv
  <2>3. /\ pc = "premarket" /\ pc' = "evalwait"
        /\ UNCHANGED <<day, slot, why, lastRun, sdate, done, straddled, sock>>
    BY <1>1 DEF PremarketEnds, time, history
  <2>4. QED
    BY <2>1, <2>2, <2>3 DEF DaemonInv, Clock, Dates, OnItsDay, Completing, Waiting
<1>2. CASE OpenEval
  <2>1. /\ pc = "evalwait" /\ pc' = "orbwait" /\ wakeDay' = day
        /\ UNCHANGED <<day, slot, why, lastRun, sdate, done, straddled, sock>>
    BY <1>2 DEF OpenEval, Wakes, PhaseUnchanged, time
  <2>2. UNCHANGED <<sock, late>> /\ sock = "up"
    BY <1>2 DEF OpenEval, Wakes, PhaseUnchanged
  <2>3. QED
    BY <2>1, <2>2 DEF DaemonInv, Clock, Dates, OnItsDay, Completing, Waiting
<1>3. CASE PostOrb
  <2>1. /\ pc = "orbwait" /\ pc' \in {"eodwait", "watchdog"} /\ wakeDay' = day
        /\ UNCHANGED <<day, slot, why, lastRun, sdate, done, straddled, sock>>
    BY <1>3 DEF PostOrb, Wakes, PhaseUnchanged, time
  <2>2. QED
    BY <2>1 DEF DaemonInv, Clock, Dates, OnItsDay, Completing, Waiting
<1>4. CASE WatchdogEnds
  <2>1. /\ pc = "watchdog" /\ pc' = "eodwait"
        /\ UNCHANGED <<day, slot, why, wakeDay, lastRun, sdate, done, straddled, sock>>
    BY <1>4 DEF WatchdogEnds, PhaseUnchanged, time
  <2>2. QED
    BY <2>1 DEF DaemonInv, Clock, Dates, OnItsDay, Completing, Waiting
<1>5. CASE EodArrives
  <2>1. /\ pc = "eodwait" /\ pc' = "sweep" /\ why' = "eod"
        /\ UNCHANGED <<day, slot, wakeDay, lastRun, sdate, done, straddled, sock>>
    BY <1>5 DEF EodArrives, Wakes, Flatten, time
  <2>2. QED
    BY <2>1 DEF DaemonInv, Clock, Dates, OnItsDay, Completing, Waiting
<1>6. QED
  BY <1>1, <1>2, <1>3, <1>4, <1>5

LEMMA SweepKeeps ==
    ASSUME DaemonInv, FlattenExit \/ FlattenSkips \/ FlattenEnds \/ SessionCompletes
    PROVE  DaemonInv'
<1>1. CASE FlattenExit \/ FlattenSkips
  <2>1. /\ pc = "sweep" /\ pc' = "quote"
        /\ UNCHANGED <<day, slot, why, wakeDay, lastRun, sdate, done, straddled, sock>>
    BY <1>1 DEF FlattenExit, FlattenSkips, time, history
  <2>2. QED
    BY <2>1 DEF DaemonInv, Clock, Dates, OnItsDay, Completing, Waiting
<1>2. CASE FlattenEnds
  <2>1. /\ pc = "quote" /\ pc' = After
        /\ UNCHANGED <<day, slot, why, wakeDay, lastRun, sdate, done, straddled, sock>>
    BY <1>2 DEF FlattenEnds, time
  <2>2. \/ why = "eod" /\ pc' = "record"
        \/ why \in {"crash", "abort", "signal"} /\ pc' \in {"reconn", "dead", "exited"}
    BY <2>1 DEF DaemonInv, Dates, After
  <2>3. CASE why = "eod" /\ pc' = "record"
    BY <2>1, <2>3 DEF DaemonInv, Clock, Dates, OnItsDay, Completing, Waiting
  <2>4. CASE pc' \in {"reconn", "dead", "exited"}
    BY <2>1, <2>4, LeavingKeeps DEF DaemonInv, Clock
  <2>5. QED
    BY <2>2, <2>3, <2>4
<1>3. CASE SessionCompletes
  <2>1. /\ pc = "record" /\ pc' = "loop" /\ lastRun' = sdate /\ done' = done \cup {sdate}
        /\ UNCHANGED <<day, slot, why, wakeDay, sdate, straddled, sock>>
    BY <1>3 DEF SessionCompletes, time
  <2>2. lastRun < sdate /\ sdate <= day
    BY <2>1 DEF DaemonInv, Dates, Completing
  <2>3. \A d \in done' : d \in Nat /\ d <= sdate
    BY <2>1, <2>2 DEF DaemonInv, Dates
  <2>4. QED
    BY <2>1, <2>2, <2>3 DEF DaemonInv, Clock, Dates, OnItsDay, Completing, Waiting
<1>4. QED
  BY <1>1, <1>2, <1>3

LEMMA RestartKeeps ==
    ASSUME DaemonInv, Restart
    PROVE  DaemonInv'
<1>1. /\ pc' = "loop" /\ lastRun' = 0 /\ sock' = "up" /\ done' = {}
      /\ UNCHANGED <<day, slot, why, wakeDay, sdate, straddled>>
  BY DEF Restart, time
<1>2. QED
  BY <1>1 DEF DaemonInv, Clock, Dates, OnItsDay, Completing, Waiting

\* _resilient_sleep has reconnected; from the last five minutes on the session is late.
LEMMA ResumeKeeps ==
    ASSUME DaemonInv, Resume
    PROVE  DaemonInv'
<1>1. /\ sock' = "up" /\ (slot >= 5 => late') /\ (late => late')
      /\ UNCHANGED <<day, slot, pc, why, wakeDay, lastRun, sdate, done, straddled>>
  BY DEF Resume, time, control, LastFive
<1>2. slot \in Nat /\ slot <= 7 /\ MarketClose = 7
  BY DEF DaemonInv, Clock, MarketClose
<1>3. slot < 7 \/ late'
  BY <1>1, <1>2
<1>4. Clock'
  BY <1>1 DEF DaemonInv, Clock
<1>5. Dates'
  BY <1>1 DEF DaemonInv, Dates, Completing, IsTradingDay
<1>6. OnItsDay'
  BY <1>1, <1>2, <1>3 DEF DaemonInv, OnItsDay, IsTradingDay
<1>7. QED
  BY <1>4, <1>5, <1>6 DEF DaemonInv

\* Time passes only where no step of the main thread is due, so a waiting session's
\* day does not end under it; a start or a pre-market phase may overrun, and is marked.
LEMMA TickKeeps ==
    ASSUME DaemonInv, Tick
    PROVE  DaemonInv'
<1>1. /\ ~Due
      /\ day < MaxDay \/ slot < MarketClose
      /\ \/ slot < MarketClose /\ slot' = slot + 1 /\ UNCHANGED day
         \/ ~(slot < MarketClose) /\ slot' = 0 /\ day' = day + 1
      /\ straddled' = (straddled \/ ((pc = "premarket" \/ Starting) /\ slot' = MarketClose))
      /\ UNCHANGED <<pc, why, wakeDay, lastRun, sdate, done, sock, late>>
  BY DEF Tick, control, Night
<1>2. /\ day \in Nat /\ slot \in Nat /\ day <= MaxDay /\ slot <= 7 /\ MarketClose = 7
      /\ sdate \in Nat /\ wakeDay \in Nat /\ lastRun \in Nat /\ MaxDay \in Nat /\ lastRun <= day
      /\ sock \in {"up", "down"}
  BY ConstantsTyped DEF DaemonInv, Clock, Dates, MarketClose
<1>3. Clock' /\ lastRun' <= day'
  BY <1>1, <1>2 DEF Clock
<1>4. pc \notin {"loop", "sweep", "quote", "record"}
  BY <1>1 DEF Due
<1>5. CASE pc = "idle" /\ wakeDay # 0
  <2>1. ~Reached(wakeDay, PremarketStart) \/ slot < 7
    BY <1>1, <1>2, <1>5 DEF Due, Starting, Retrying
  <2>2. sdate = wakeDay /\ lastRun < sdate /\ day <= sdate /\ IsTradingDay(sdate)
    BY <1>5 DEF DaemonInv, Dates
  <2>3. day < sdate \/ (day = sdate /\ slot < 7)
    BY <1>2, <2>1, <2>2 DEF Reached, PremarketStart
  <2>4. day' <= sdate
    BY <1>1, <1>2, <2>3
  <2>5. ASSUME day' = sdate PROVE slot' < 7 \/ straddled'
    <3>1. CASE day < sdate
      BY <1>1, <1>2, <2>5, <3>1
    <3>2. CASE day = sdate /\ slot' < 7
      BY <3>2
    <3>3. CASE day = sdate /\ slot' = 7
      <4>1. slot = 6
        BY <1>1, <1>2, <3>3
      <4>2. Starting
        BY <1>2, <1>5, <2>2, <3>3, <4>1 DEF Starting, Reached, PremarketStart
      <4>3. QED
        BY <1>1, <1>2, <3>3, <4>2
    <3>4. QED
      BY <1>1, <1>2, <2>2, <2>3, <3>1, <3>2, <3>3
  <2>6. Dates'
    BY <1>1, <1>2, <1>3, <1>5, <2>2, <2>4, <2>5
       DEF DaemonInv, Dates, Completing, Waiting, IsTradingDay, MarketClose
  <2>7. OnItsDay'
    BY <1>1, <1>5 DEF OnItsDay, Waiting
  <2>8. QED
    BY <1>3, <2>6, <2>7 DEF DaemonInv
<1>6. CASE pc \in Waiting \cup {"premarket"}
  <2>1. lastRun < sdate /\ sdate <= day'
    BY <1>1, <1>2, <1>6 DEF DaemonInv, Dates, Completing
  <2>2. Dates'
    BY <1>1, <1>2, <1>3, <1>6, <2>1 DEF DaemonInv, Dates, Completing, Waiting
  <2>3. CASE straddled
    BY <1>1, <1>3, <2>2, <2>3 DEF DaemonInv, OnItsDay
  <2>4. CASE ~straddled /\ pc = "premarket"
    <3>1. day = sdate /\ slot < 7 /\ IsTradingDay(day)
      BY <1>2, <2>4 DEF DaemonInv, OnItsDay
    <3>2. slot' = slot + 1 /\ day' = day
      BY <1>1, <1>2, <3>1
    <3>3. straddled' \/ slot' < 7
      <4>1. CASE slot' = 7
        BY <1>1, <1>2, <2>4, <4>1
      <4>2. CASE slot' # 7
        BY <1>2, <3>1, <3>2, <4>2
      <4>3. QED
        BY <4>1, <4>2
    <3>4. IsTradingDay(day)'
      BY <3>1, <3>2 DEF IsTradingDay
    <3>5. MarketClose' = 7 /\ pc' = "premarket" /\ sdate' = sdate
      BY <1>1, <1>2, <2>4 DEF MarketClose
    <3>6. OnItsDay'
      BY <3>1, <3>2, <3>3, <3>4, <3>5 DEF OnItsDay
    <3>7. QED
      BY <1>3, <2>2, <3>6 DEF DaemonInv
  <2>5. CASE ~straddled /\ pc \in Waiting
    <3>1. day = sdate /\ wakeDay = day
      BY <2>5 DEF DaemonInv, OnItsDay, Waiting
    <3>2. CASE sock = "up"
      <4>1. slot < 6 \/ (pc = "watchdog" /\ slot < 7)
        <5>1. CASE pc = "evalwait"
          BY <1>1, <1>2, <3>1, <3>2, <5>1 DEF Due, Reached, OpenEvalStart
        <5>2. CASE pc = "orbwait"
          BY <1>1, <1>2, <3>1, <3>2, <5>2 DEF Due, Reached, OrbEnd
        <5>3. CASE pc = "eodwait"
          <6>1. ~IsHalfDay
            BY DEF IsHalfDay, GetClock
          <6>2. SweepSlot = 6
            BY <1>2, <6>1 DEF SweepSlot, EffectiveClose
          <6>3. QED
            BY <1>1, <1>2, <3>1, <3>2, <5>3, <6>2 DEF Due, Reached
        <5>4. CASE pc = "watchdog"
          BY <1>1, <1>2, <3>2, <5>4 DEF Due, LastFive
        <5>5. QED
          BY <2>5, <5>1, <5>2, <5>3, <5>4 DEF Waiting
      <4>2. slot' = slot + 1 /\ day' = day
        BY <1>1, <1>2, <4>1
      <4>3. pc \in {"evalwait", "orbwait"} => slot' < 7
        BY <1>2, <4>1, <4>2
      <4>4. QED
        BY <1>1, <1>2, <1>3, <2>2, <2>5, <3>1, <4>2, <4>3 DEF DaemonInv, OnItsDay, Waiting
    <3>3. CASE sock = "down"
      <4>1. slot < 7
        BY <1>1, <1>2, <2>5, <3>3 DEF Due, Retrying
      <4>2. day' = day /\ sock' = "down"
        BY <1>1, <1>2, <3>3, <4>1
      <4>3. QED
        BY <1>1, <1>2, <1>3, <2>2, <2>5, <3>1, <4>2 DEF DaemonInv, OnItsDay, Waiting
    <3>4. QED
      BY <1>2, <3>2, <3>3
  <2>6. QED
    BY <1>6, <2>3, <2>4, <2>5
<1>7. CASE pc \notin Waiting \cup {"premarket"} /\ ~(pc = "idle" /\ wakeDay # 0)
  BY <1>1, <1>2, <1>3, <1>4, <1>7 DEF DaemonInv, Dates, OnItsDay, Completing, Waiting
<1>8. QED
  BY <1>5, <1>6, <1>7

LEMMA StepKeeps ==
    ASSUME DaemonInv, [Next]_vars
    PROVE  DaemonInv'
<1>1. CASE UNCHANGED vars
  BY <1>1, StandingKeeps DEF vars, time, control, history, dates, DaemonInv, Clock
<1>2. CASE DaemonTurn
  BY <1>2, TurnKeeps
<1>3. CASE SessionBegins
  BY <1>3, BeginKeeps
<1>4. CASE PremarketEnds \/ OpenEval \/ PostOrb \/ WatchdogEnds \/ EodArrives
  BY <1>4, PhasesKeep
<1>5. CASE FlattenExit \/ FlattenSkips \/ FlattenEnds \/ SessionCompletes
  BY <1>5, SweepKeeps
<1>6. CASE Restart
  BY <1>6, RestartKeeps
<1>7. CASE Tick
  BY <1>7, TickKeeps
<1>8. CASE IdleEnds \/ SessionRefused \/ Reconnected \/ StillDown \/ Crash
  BY <1>8, LeavingKeeps
     DEF IdleEnds, SessionRefused, Reconnected, StillDown, Crash, time, history,
         DaemonInv, Clock
<1>9. CASE Outage \/ PremarketAborts \/ SignalRunner
  BY <1>9, LeavingKeeps DEF Outage, PremarketAborts, SignalRunner, Flatten, time, DaemonInv, Clock
<1>10. CASE Market \/ Drop \/ SignalDaemon \/ Over
  BY <1>10, StandingKeeps
     DEF Market, Enter, ExitOnBar, PortfolioUpdate, ExitFills, ExitDies, Drop,
         SignalDaemon, Over, vars, time, control, history, dates, DaemonInv, Clock
<1>11. CASE Resume
  BY <1>11, ResumeKeeps
<1>12. QED
  BY <1>1, <1>2, <1>3, <1>4, <1>5, <1>6, <1>7, <1>8, <1>9, <1>10, <1>11 DEF Next, MainThread

(***************************************************************************)
(* The theorems.                                                           *)
(***************************************************************************)

\* Whatever the calendar and however often the socket is lost, the process dies or is
\* signalled: a running session is later than every one completed, and on its own day.
THEOREM DaemonInvariance == Spec => []DaemonInv
<1>1. Init => DaemonInv
  BY InitDaemon
<1>2. DaemonInv /\ [Next]_vars => DaemonInv'
  BY StepKeeps
<1>3. QED
  BY <1>1, <1>2, PTL DEF Spec

\* No sleep of a session ends on another day than the session's, but for one whose
\* pre-market phase ran past the close.
THEOREM StaysOnItsDay == Spec => []TradesOnItsDay
<1>1. DaemonInv => TradesOnItsDay
  BY DEF DaemonInv, OnItsDay, TradesOnItsDay, Waiting
<1>2. QED
  BY <1>1, DaemonInvariance, PTL

\* A session that the process has completed is not begun again.
THEOREM CompletedRunsOnce == Spec => RunsOnce
<1> DEFINE Once == pc = "idle" /\ pc' = "premarket" => sdate \notin done
<1>1. DaemonInv /\ [Next]_vars => [Once]_vars
  <2> SUFFICES ASSUME DaemonInv, Next, pc = "idle", pc' = "premarket"
               PROVE  sdate \notin done
    OBVIOUS
  <2>1. SessionBegins
    BY DEF Next, MainThread, Market, DaemonTurn, IdleEnds, SessionRefused, PremarketEnds,
           PremarketAborts, OpenEval, PostOrb, WatchdogEnds, EodArrives, FlattenExit,
           FlattenSkips, FlattenEnds, SessionCompletes, Resume, Outage, Reconnected, StillDown,
           Restart, Enter, ExitOnBar, PortfolioUpdate, ExitFills, ExitDies, Drop, SignalRunner,
           SignalDaemon, Crash, Tick, Over, Flatten, Wakes, control, vars
  <2>2. QED
    BY <2>1, BeginKeeps
<1>2. QED
  BY <1>1, DaemonInvariance, PTL DEF Spec, RunsOnce

(***************************************************************************)
(* The book: the types, that the sweep is in time, and that shares are     *)
(* neither forgotten nor sold twice.                                       *)
(***************************************************************************)

\* TypeOK, variable by variable.
ControlTypes ==
    /\ day \in 1..MaxDay /\ slot \in 0..7
    /\ pc \in {"loop", "idle", "exited", "dead", "reconn", "premarket", "evalwait", "orbwait",
               "watchdog", "eodwait", "sweep", "quote", "record"}
    /\ why \in {"none", "eod", "crash", "abort", "signal"}
    /\ wakeDay \in TradingDays \cup {0} /\ lastRun \in TradingDays \cup {0}
    /\ sdate \in TradingDays \cup {0} /\ done \subseteq TradingDays
    /\ recover \in BOOLEAN /\ stop \in BOOLEAN
    /\ handler \in {"daemon", "runner"}
    /\ sock \in {"up", "down"}
BookTypes ==
    /\ mem \in BOOLEAN /\ attempted \in BOOLEAN /\ handled \in BOOLEAN
    /\ row \in {"none", "open", "closed"}
    /\ held \in Int /\ seen \in Int /\ exits \in Int
HistoryTypes ==
    /\ late \in BOOLEAN /\ straddled \in BOOLEAN /\ excused \in BOOLEAN /\ twice \in BOOLEAN
    /\ drops \in 0..MaxDrops /\ signals \in 0..MaxSignals /\ crashes \in 0..MaxCrashes
Types == ControlTypes /\ BookTypes /\ HistoryTypes

\* What the opening evaluation and the opening range wait for is a trading day that
\* has not passed, however long the pre-market phase took.
WaitsAhead == pc \in {"evalwait", "orbwait"} => wakeDay >= day /\ IsTradingDay(wakeDay)

\* A session that was not late is at the sweep before 16:00.
InTime ==
    \/ straddled \/ late
    \/ /\ pc \in {"watchdog", "eodwait"} => slot < MarketClose \/ sock = "down"
       /\ pc = "sweep" /\ why = "eod" => slot < MarketClose

\* The manager has a position only within a session, and then its row is open; a
\* process that has begun a session has no other open row.
Homes ==
    /\ pc \in InSession => handler = "runner"
    /\ mem => pc \in Waiting \cup {"sweep", "quote"} /\ row = "open"
    /\ handler = "runner" /\ pc # "dead" /\ ~mem => row # "open"
    /\ recover => Recover

\* Until a flatten or a death met an unsettled exit: one share at most is held, exits
\* are for what is held, and a sweep starts from a settled book.  The exit that
\* step 1 has sent is for all that is held, or it has died after the close.
Settled ==
    /\ held \in {0, 1} /\ exits \in Int /\ 0 <= exits /\ exits <= held
    /\ mem /\ pc # "quote" => held = 1 /\ exits = 0
    /\ ~mem /\ row = "open" => exits = 0 /\ seen = held
    /\ pc = "sweep" => exits = 0 /\ seen = held
    /\ pc = "quote" /\ ~handled => exits = 0 /\ seen = held
    /\ pc = "quote" /\ handled => exits = held \/ (excused /\ ~Trading)
    /\ pc = "record" /\ Trading /\ sock = "up" => exits = held

BookInv == Homes /\ (~twice => Settled)

AllInv == DaemonInv /\ Types /\ WaitsAhead /\ InTime /\ BookInv

(***************************************************************************)
(* Types.                                                                  *)
(***************************************************************************)

LEMMA TypesAreTypeOK == Types <=> TypeOK
<1>1. Night = 0 /\ MarketClose = 7
  BY DEF Night, MarketClose
<1>2. pc \in InSession \cup Asleep <=>
          pc \in {"loop", "idle", "exited", "dead", "reconn", "premarket", "evalwait", "orbwait",
                  "watchdog", "eodwait", "sweep", "quote", "record"}
  BY DEF InSession, Asleep, Waiting
<1>3. {wakeDay, lastRun, sdate} \subseteq TradingDays \cup {0} <=>
          /\ wakeDay \in TradingDays \cup {0} /\ lastRun \in TradingDays \cup {0}
          /\ sdate \in TradingDays \cup {0}
  OBVIOUS
<1>4. {held, seen, exits} \subseteq Int <=> held \in Int /\ seen \in Int /\ exits \in Int
  OBVIOUS
<1>5. {recover, stop, mem, attempted, handled, late, straddled, excused, twice} \subseteq BOOLEAN <=>
          /\ recover \in BOOLEAN /\ stop \in BOOLEAN /\ mem \in BOOLEAN /\ attempted \in BOOLEAN
          /\ handled \in BOOLEAN /\ late \in BOOLEAN /\ straddled \in BOOLEAN
          /\ excused \in BOOLEAN /\ twice \in BOOLEAN
  BY Zenon
<1>6. QED
  BY <1>1, <1>2, <1>3, <1>4, <1>5
     DEF Types, ControlTypes, BookTypes, HistoryTypes, TypeOK

LEMMA InitTypes == Init => Types
<1> SUFFICES ASSUME Init
             PROVE  Types
  OBVIOUS
<1>1. MaxDay \in Nat \ {0} /\ MaxDrops \in Nat /\ MaxSignals \in Nat /\ MaxCrashes \in Nat
      /\ Recover \in BOOLEAN
  BY DaemonAssumption
<1>2. ControlTypes
  <2>1. recover \in BOOLEAN /\ stop \in BOOLEAN
    BY <1>1, Zenon DEF Init
  <2>2. QED
    BY <1>1, <2>1 DEF Init, ControlTypes, Night, MarketClose
<1>3. BookTypes
  <2>1. mem \in BOOLEAN /\ attempted \in BOOLEAN /\ handled \in BOOLEAN
    BY Zenon DEF Init
  <2>2. QED
    BY <2>1 DEF Init, BookTypes
<1>4. HistoryTypes
  <2>1. late \in BOOLEAN /\ straddled \in BOOLEAN /\ excused \in BOOLEAN /\ twice \in BOOLEAN
    BY Zenon DEF Init
  <2>2. QED
    BY <1>1, <2>1 DEF Init, HistoryTypes
<1>5. QED
  BY <1>2, <1>3, <1>4 DEF Types

LEMMA InitAll == Init => AllInv
<1> SUFFICES ASSUME Init
             PROVE  AllInv
  OBVIOUS
<1>1. DaemonInv /\ Types
  BY InitDaemon, InitTypes
<1>2. WaitsAhead /\ InTime
  BY DEF Init, WaitsAhead, InTime
<1>3. Homes
  BY DEF Init, Homes, InSession, Waiting
<1>4. Settled
  BY DEF Init, Settled
<1>5. QED
  BY <1>1, <1>2, <1>3, <1>4 DEF AllInv, BookInv

LEMMA ControlTyped ==
    ASSUME ControlTypes, WaitsAhead, DaemonInv, [Next]_vars
    PROVE  ControlTypes'
<1> USE DEF ControlTypes
<1>0. /\ MaxDay \in Nat /\ Recover \in BOOLEAN /\ TradingDays \subseteq Nat
  BY DaemonAssumption
<1>1. CASE UNCHANGED vars
  BY <1>1 DEF vars, time, control, history
<1>2. CASE DaemonTurn
  <2>1. UNCHANGED <<day, slot, why, lastRun, done, recover, stop, handler, sock>>
    BY <1>2 DEF DaemonTurn, time, history
  <2>2. CASE pc' = "exited" /\ UNCHANGED <<sdate, wakeDay>>
    BY <2>1, <2>2
  <2>3. CASE pc' = "idle" /\ wakeDay' = 0 /\ UNCHANGED sdate
    BY <2>1, <2>3
  <2>4. ASSUME NEW d \in NextMarketDay, sdate' = d, wakeDay' = d, pc' = "idle"
        PROVE  ControlTypes'
    <3>1. d \in TradingDays
      BY ClockNames DEF DaemonInv, IsTradingDay
    <3>2. QED
      BY <2>1, <2>4, <3>1
  <2>5. QED
    BY <1>2, <2>2, <2>3, <2>4 DEF DaemonTurn
<1>3. CASE SessionBegins
  BY <1>3 DEF SessionBegins, time
<1>4. CASE PremarketEnds
  <2>1. PICK d \in NextMarketDay : wakeDay' = d
    BY <1>4 DEF PremarketEnds
  <2>2. d \in TradingDays
    BY ClockNames DEF DaemonInv, IsTradingDay
  <2>3. QED
    BY <1>4, <2>1, <2>2 DEF PremarketEnds, time, history
<1>5. CASE OpenEval \/ PostOrb
  <2>1. day \in TradingDays
    BY <1>0, <1>5 DEF OpenEval, PostOrb, Wakes, Reached, WaitsAhead, IsTradingDay
  <2>2. QED
    BY <1>5, <2>1 DEF OpenEval, PostOrb, Wakes, PhaseUnchanged, time
<1>6. CASE WatchdogEnds \/ EodArrives \/ PremarketAborts \/ Outage \/ SignalRunner
  BY <1>6 DEF WatchdogEnds, EodArrives, PremarketAborts, Outage, SignalRunner, Flatten,
              PhaseUnchanged, time
<1>7. CASE FlattenExit \/ FlattenSkips
  BY <1>7 DEF FlattenExit, FlattenSkips, time, history
<1>8. CASE FlattenEnds
  <2>1. pc' \in {"record", "reconn", "dead", "exited"}
    BY <1>8 DEF FlattenEnds, After, DaemonInv, Dates
  <2>2. QED
    BY <1>8, <2>1 DEF FlattenEnds, time
<1>9. CASE SessionCompletes
  <2>1. sdate \in TradingDays
    BY <1>9 DEF SessionCompletes, DaemonInv, Dates, Completing
  <2>2. QED
    BY <1>9, <2>1 DEF SessionCompletes, time
<1>10. CASE Restart
  BY <1>0, <1>10 DEF Restart, time
<1>11. CASE Tick
  <2>1. day' \in 1..MaxDay /\ slot' \in 0..7
    BY <1>0, <1>11 DEF Tick, Night, MarketClose
  <2>2. QED
    BY <1>11, <2>1 DEF Tick, control
<1>12. CASE IdleEnds \/ SessionRefused \/ Reconnected \/ StillDown \/ Resume \/ Crash
  BY <1>12 DEF IdleEnds, SessionRefused, Reconnected, StillDown, Resume, Crash, time, control, history
<1>13. CASE Market
  BY <1>13 DEF Market, Enter, ExitOnBar, PortfolioUpdate, ExitFills, ExitDies, time, control, history
<1>14. CASE Drop \/ SignalDaemon \/ Over
  BY <1>14 DEF Drop, SignalDaemon, Over, vars, time, control, history
<1>15. QED
  BY <1>1, <1>2, <1>3, <1>4, <1>5, <1>6, <1>7, <1>8, <1>9, <1>10, <1>11, <1>12, <1>13, <1>14
     DEF Next, MainThread

\* The actions that touch the book; the others move the main thread or the socket.
LEMMA BookChangesIn ==
    ASSUME [Next]_vars
    PROVE  \/ SessionBegins \/ SessionRefused \/ FlattenExit \/ FlattenSkips \/ FlattenEnds
           \/ Resume \/ Reconnected \/ Restart \/ Crash \/ Market
           \/ UNCHANGED book
<1>1. CASE DaemonTurn \/ IdleEnds \/ PremarketEnds \/ PremarketAborts \/ OpenEval
           \/ PostOrb \/ WatchdogEnds \/ EodArrives \/ SessionCompletes \/ Outage \/ StillDown
  BY <1>1 DEF DaemonTurn, IdleEnds, PremarketEnds, PremarketAborts, OpenEval, PostOrb,
              WatchdogEnds, EodArrives, SessionCompletes, Outage, StillDown, Flatten, PhaseUnchanged
<1>2. CASE Drop \/ SignalRunner \/ SignalDaemon \/ Tick \/ Over \/ UNCHANGED vars
  BY <1>2 DEF Drop, SignalRunner, SignalDaemon, Tick, Over, Flatten, vars
<1>3. QED
  BY <1>1, <1>2 DEF Next, MainThread

LEMMA BookTyped ==
    ASSUME BookTypes, [Next]_vars
    PROVE  BookTypes'
<1> USE DEF BookTypes, book
<1>1. CASE SessionBegins
  <2>1. seen' \in Int /\ StartupSells(seen') \in Int
    BY <1>1 DEF SessionBegins, StartupSells
  <2>2. exits' \in Int
    BY <1>1, <2>1 DEF SessionBegins
  <2>3. QED
    BY <1>1, <2>1, <2>2 DEF SessionBegins
<1>2. CASE SessionRefused
  BY <1>2 DEF SessionRefused, ReconciledRow
<1>3. CASE FlattenExit \/ FlattenSkips
  <2>1. handled' \in BOOLEAN
    BY <1>3, Zenon DEF FlattenExit, FlattenSkips
  <2>2. exits' \in Int
    BY <1>3 DEF FlattenExit, FlattenSkips
  <2>3. QED
    BY <1>3, <2>1, <2>2 DEF FlattenExit, FlattenSkips
<1>4. CASE FlattenEnds
  <2>1. Residual \in Int
    BY DEF Residual, View
  <2>2. row' \in {"none", "open", "closed"} /\ exits' \in Int
    BY <1>4, <2>1 DEF FlattenEnds
  <2>3. QED
    BY <1>4, <2>2 DEF FlattenEnds
<1>5. CASE Resume \/ Reconnected \/ Restart \/ Crash
  BY <1>5 DEF Resume, Reconnected, Restart, Crash
<1>6. CASE Market
  <2>1. CASE Enter \/ ExitOnBar
    <3>1. mem' \in BOOLEAN /\ attempted' \in BOOLEAN
      BY <2>1, Zenon DEF Enter, ExitOnBar
    <3>2. QED
      BY <2>1, <3>1 DEF Enter, ExitOnBar
  <2>2. CASE PortfolioUpdate \/ ExitFills \/ ExitDies
    BY <2>2 DEF PortfolioUpdate, ExitFills, ExitDies
  <2>3. QED
    BY <1>6, <2>1, <2>2 DEF Market
<1>7. CASE UNCHANGED book
  BY <1>7
<1>8. QED
  BY <1>1, <1>2, <1>3, <1>4, <1>5, <1>6, <1>7, BookChangesIn

LEMMA HistoryTyped ==
    ASSUME HistoryTypes, [Next]_vars
    PROVE  HistoryTypes'
<1> USE DEF HistoryTypes, history, counters
<1>0. MaxDrops \in Nat /\ MaxSignals \in Nat /\ MaxCrashes \in Nat
  BY DaemonAssumption
<1>1. CASE Drop \/ SignalDaemon
  BY <1>0, <1>1 DEF Drop, SignalDaemon
<1>2. CASE SignalRunner
  <2>1. twice' \in BOOLEAN
    BY <1>2 DEF SignalRunner, Flatten
  <2>2. QED
    BY <1>0, <1>2, <2>1 DEF SignalRunner, Flatten
<1>3. CASE PremarketAborts
  <2>1. twice' \in BOOLEAN
    BY <1>3 DEF PremarketAborts, Flatten
  <2>2. QED
    BY <1>0, <1>3, <2>1 DEF PremarketAborts, Flatten
<1>4. CASE EodArrives \/ Outage
  BY <1>4 DEF EodArrives, Outage, Flatten
<1>5. CASE Crash
  <2>1. twice' \in BOOLEAN
    BY <1>5 DEF Crash
  <2>2. QED
    BY <1>0, <1>5, <2>1 DEF Crash
<1>6. CASE Tick
  BY <1>6 DEF Tick
<1>7. CASE SessionBegins \/ SessionRefused
  BY <1>7 DEF SessionBegins, SessionRefused
<1>8. CASE FlattenExit \/ FlattenSkips
  BY <1>8 DEF FlattenExit, FlattenSkips
<1>9. CASE FlattenEnds \/ SessionCompletes \/ Restart \/ Reconnected
  BY <1>9 DEF FlattenEnds, SessionCompletes, Restart, Reconnected
<1>10. CASE Resume \/ PostOrb
  BY <1>10 DEF Resume, PostOrb, PhaseUnchanged
<1>11. CASE DaemonTurn \/ IdleEnds \/ PremarketEnds \/ OpenEval \/ WatchdogEnds \/ StillDown
  BY <1>11 DEF DaemonTurn, IdleEnds, PremarketEnds, OpenEval, WatchdogEnds, StillDown, PhaseUnchanged
<1>12. CASE Enter \/ ExitOnBar \/ PortfolioUpdate
  BY <1>12 DEF Enter, ExitOnBar, PortfolioUpdate
<1>13. CASE ExitFills \/ ExitDies
  BY <1>13 DEF ExitFills, ExitDies
<1>14. CASE Over \/ UNCHANGED vars
  BY <1>14 DEF Over, vars
<1>15. QED
  BY <1>1, <1>2, <1>3, <1>4, <1>5, <1>6, <1>7, <1>8, <1>9, <1>10, <1>11, <1>12, <1>13, <1>14
     DEF Next, MainThread, Market

LEMMA TypesKept ==
    ASSUME Types, WaitsAhead, DaemonInv, [Next]_vars
    PROVE  Types'
BY ControlTyped, BookTyped, HistoryTyped DEF Types

(***************************************************************************)
(* Waits, and the time of the sweep.                                       *)
(***************************************************************************)

\* The steps that change the phase or the time, or clear `late`.
LEMMA PhaseChangesIn ==
    ASSUME [Next]_vars
    PROVE  \/ DaemonTurn \/ IdleEnds \/ SessionBegins \/ SessionRefused \/ PremarketEnds
           \/ PremarketAborts \/ OpenEval \/ PostOrb \/ WatchdogEnds \/ EodArrives
           \/ FlattenExit \/ FlattenSkips \/ FlattenEnds \/ SessionCompletes \/ Outage
           \/ Reconnected \/ StillDown \/ Restart \/ SignalRunner \/ Crash \/ Tick
           \/ /\ UNCHANGED <<day, slot, pc, why, wakeDay, straddled>>
              /\ late' = late /\ sock' \in {sock, "down"}
           \/ Resume
<1>1. CASE Drop \/ SignalDaemon \/ Over \/ UNCHANGED vars
  BY <1>1 DEF Drop, SignalDaemon, Over, vars, time, control, history
<1>2. CASE Market
  BY <1>2 DEF Market, Enter, ExitOnBar, PortfolioUpdate, ExitFills, ExitDies, time, control, history
<1>3. QED
  BY <1>1, <1>2 DEF Next, MainThread

LEMMA WaitsKept ==
    ASSUME ControlTypes, WaitsAhead, DaemonInv, [Next]_vars
    PROVE  WaitsAhead'
<1>0. day \in Nat /\ slot \in 0..7 /\ wakeDay \in Nat
  BY DaemonAssumption DEF ControlTypes
<1>1. CASE PremarketEnds
  <2>1. PICK d \in NextMarketDay : wakeDay' = d
    BY <1>1 DEF PremarketEnds
  <2>2. d >= day /\ IsTradingDay(d)
    BY ClockNames DEF DaemonInv
  <2>3. day' = day
    BY <1>1 DEF PremarketEnds, time
  <2>4. QED
    BY <2>1, <2>2, <2>3 DEF WaitsAhead, IsTradingDay
<1>2. CASE OpenEval
  BY <1>0, <1>2 DEF OpenEval, Wakes, Reached, WaitsAhead, PhaseUnchanged, time, IsTradingDay
<1>3. CASE Tick /\ pc \in {"evalwait", "orbwait"}
  <2>1. ~Due /\ (sock = "up" \/ slot < 7)
    BY <1>0, <1>3 DEF Tick, Due, Retrying, Waiting, ControlTypes, MarketClose
  <2>2. wakeDay >= day /\ IsTradingDay(wakeDay) /\ wakeDay' = wakeDay
    BY <1>3 DEF WaitsAhead, Tick, control
  <2>3. wakeDay > day \/ slot < 7
    BY <1>0, <1>3, <2>1, <2>2 DEF Due, Reached, OpenEvalStart, OrbEnd
  <2>4. wakeDay >= day'
    BY <1>0, <1>3, <2>2, <2>3 DEF Tick, MarketClose
  <2>5. QED
    BY <2>2, <2>4 DEF WaitsAhead, IsTradingDay
<1>4. CASE UNCHANGED <<day, pc, wakeDay>>
  BY <1>4 DEF WaitsAhead, IsTradingDay
<1>5. CASE pc' \notin {"evalwait", "orbwait"}
  BY <1>5 DEF WaitsAhead
<1>6. pc' \notin {"evalwait", "orbwait"} \/ UNCHANGED <<day, pc, wakeDay>> \/ PremarketEnds
      \/ OpenEval \/ (Tick /\ pc \in {"evalwait", "orbwait"})
  <2>1. CASE DaemonTurn \/ IdleEnds \/ SessionBegins \/ SessionRefused \/ PremarketAborts
             \/ PostOrb \/ WatchdogEnds \/ EodArrives \/ FlattenExit \/ FlattenSkips
    BY <2>1 DEF DaemonTurn, IdleEnds, SessionBegins, SessionRefused, PremarketAborts, PostOrb,
                WatchdogEnds, EodArrives, FlattenExit, FlattenSkips, Flatten
  <2>2. CASE FlattenEnds
    <3>1. why \in {"eod", "crash", "abort", "signal"}
      BY <2>2 DEF FlattenEnds, DaemonInv, Dates
    <3>2. QED
      BY <2>2, <3>1 DEF FlattenEnds, After
  <2>3. CASE SessionCompletes \/ Outage \/ Reconnected \/ StillDown \/ Restart
             \/ SignalRunner \/ Crash
    BY <2>3 DEF SessionCompletes, Outage, Reconnected, StillDown, Restart, SignalRunner, Crash,
                Flatten
  <2>4. CASE Resume
    BY <2>4 DEF Resume, time, control
  <2>5. CASE Tick
    BY <2>5 DEF Tick, control
  <2>6. QED
    BY <2>1, <2>2, <2>3, <2>4, <2>5, PhaseChangesIn
<1>7. QED
  BY <1>1, <1>2, <1>3, <1>4, <1>5, <1>6

\* The watchdog is short where the session was not late, and the last wait ends at the
\* sweep's time; the lead of half a minute is a slot before the close.
LEMMA InTimeKept ==
    ASSUME Types, WaitsAhead, InTime, DaemonInv, [Next]_vars
    PROVE  InTime'
<1>0. day \in Nat /\ slot \in 0..7 /\ wakeDay \in Nat /\ MarketClose = 7
      /\ straddled \in BOOLEAN /\ late \in BOOLEAN
  BY DaemonAssumption DEF Types, ControlTypes, HistoryTypes, MarketClose
<1>1. CASE PostOrb
  <2>1. straddled \/ late \/ slot < 7
    BY <1>0, <1>1 DEF PostOrb, Wakes, DaemonInv, OnItsDay
  <2>2. UNCHANGED <<slot, straddled>> /\ pc' \in {"eodwait", "watchdog"} /\ (late => late')
    BY <1>0, <1>1 DEF PostOrb, PhaseUnchanged, time
  <2>3. QED
    BY <1>0, <2>1, <2>2 DEF InTime, MarketClose
<1>2. CASE WatchdogEnds
  BY <1>2 DEF WatchdogEnds, PhaseUnchanged, InTime, time
<1>3. CASE EodArrives
  BY <1>3 DEF EodArrives, Wakes, Flatten, InTime, time
<1>4. CASE Tick
  <2>1. UNCHANGED <<pc, why, late, sock>> /\ ~Due /\ (straddled => straddled')
    BY <1>4 DEF Tick, control
  <2>2. CASE straddled \/ late
    BY <2>1, <2>2 DEF InTime
  <2>3. CASE sock = "up" /\ ~straddled /\ ~late /\ pc \in {"watchdog", "eodwait"}
    <3>1. sock = "up"
      BY <2>3
    <3>2. wakeDay = day
      BY <2>3 DEF DaemonInv, OnItsDay
    <3>3. slot < 6
      <4>1. CASE pc = "watchdog"
        BY <1>0, <2>1, <2>3, <3>1, <4>1 DEF Due, LastFive
      <4>2. CASE pc = "eodwait"
        <5>1. ~IsHalfDay
          BY DEF IsHalfDay, GetClock
        <5>2. SweepSlot = 6
          BY <1>0, <5>1 DEF SweepSlot, EffectiveClose
        <5>3. QED
          BY <1>0, <2>1, <3>1, <3>2, <4>2, <5>2 DEF Due, Reached
      <4>3. QED
        BY <2>3, <4>1, <4>2
    <3>4. slot' = slot + 1
      BY <1>0, <1>4, <3>3 DEF Tick
    <3>5. QED
      BY <1>0, <2>1, <2>3, <3>3, <3>4 DEF InTime, MarketClose
  <2>4. CASE pc \notin {"watchdog", "eodwait"}
    <3>1. pc # "sweep"
      BY <2>1 DEF Due
    <3>2. QED
      BY <2>1, <2>4, <3>1 DEF InTime
  <2>5. CASE sock = "down"
    <3>1. pc # "sweep"
      BY <2>1 DEF Due
    <3>2. QED
      BY <2>1, <2>5, <3>1 DEF InTime
  <2>6. QED
    BY <1>0, <2>2, <2>3, <2>4, <2>5 DEF Types, ControlTypes
<1>5. CASE Resume
  <2>1. /\ UNCHANGED <<slot, pc, why, straddled>> /\ (late => late')
        /\ (slot >= 5 => late') /\ pc # "sweep"
    BY <1>5 DEF Resume, time, control, LastFive, Waiting
  <2>2. slot < 7 \/ late'
    BY <1>0, <2>1
  <2>3. QED
    BY <1>0, <2>1, <2>2 DEF InTime, MarketClose
<1>6. CASE /\ UNCHANGED <<day, slot, pc, why, wakeDay, straddled>>
           /\ late' = late /\ sock' \in {sock, "down"}
  BY <1>0, <1>6 DEF InTime, MarketClose
<1>7. CASE pc' \notin {"watchdog", "eodwait"} /\ ~(pc' = "sweep" /\ why' = "eod")
  BY <1>7 DEF InTime
<1>8. CASE DaemonTurn \/ IdleEnds \/ SessionBegins \/ SessionRefused \/ PremarketEnds
           \/ PremarketAborts \/ OpenEval
  BY <1>7, <1>8 DEF DaemonTurn, IdleEnds, SessionBegins, SessionRefused, PremarketEnds,
                    PremarketAborts, OpenEval, Flatten
<1>9. CASE FlattenExit \/ FlattenSkips \/ SessionCompletes \/ Outage \/ Reconnected \/ StillDown
           \/ Restart \/ SignalRunner \/ Crash
  BY <1>7, <1>9 DEF FlattenExit, FlattenSkips, SessionCompletes, Outage, Reconnected, StillDown,
                    Restart, SignalRunner, Crash, Flatten
<1>10. CASE FlattenEnds
  <2>1. why \in {"eod", "crash", "abort", "signal"}
    BY <1>10 DEF FlattenEnds, DaemonInv, Dates
  <2>2. QED
    BY <1>7, <1>10, <2>1 DEF FlattenEnds, After
<1>11. QED
  BY <1>1, <1>2, <1>3, <1>4, <1>5, <1>6, <1>8, <1>9, <1>10, PhaseChangesIn

(***************************************************************************)
(* The book.                                                               *)
(***************************************************************************)

LEMMA HomesKept ==
    ASSUME Types, Homes, DaemonInv, [Next]_vars
    PROVE  Homes'
<1> USE DEF Homes, InSession, Waiting
<1>0. mem \in BOOLEAN /\ recover \in BOOLEAN /\ Recover \in BOOLEAN
  BY DaemonAssumption DEF Types, ControlTypes, BookTypes
<1>1. CASE DaemonTurn \/ IdleEnds
  BY <1>1 DEF DaemonTurn, IdleEnds, book
<1>2. CASE SessionBegins
  BY <1>2 DEF SessionBegins
<1>3. CASE SessionRefused
  BY <1>3 DEF SessionRefused, ReconciledRow
<1>4. CASE PremarketEnds \/ OpenEval \/ PostOrb \/ WatchdogEnds
  BY <1>4 DEF PremarketEnds, OpenEval, PostOrb, WatchdogEnds, Wakes, PhaseUnchanged, book
<1>5. CASE PremarketAborts \/ EodArrives \/ Outage
  BY <1>5 DEF PremarketAborts, EodArrives, Outage, Wakes, Flatten, book
<1>6. CASE SignalRunner
  BY <1>6 DEF SignalRunner, Flatten, book
<1>7. CASE FlattenExit \/ FlattenSkips
  BY <1>7 DEF FlattenExit, FlattenSkips
<1>8. CASE FlattenEnds
  <2>1. pc' \in {"record", "reconn", "dead", "exited"}
    BY <1>8 DEF FlattenEnds, After, DaemonInv, Dates
  <2>2. ~mem' /\ row' # "open"
    BY <1>8 DEF FlattenEnds
  <2>3. UNCHANGED <<handler, recover>> /\ pc = "quote"
    BY <1>8 DEF FlattenEnds
  <2>4. QED
    BY <2>1, <2>2, <2>3
<1>9. CASE SessionCompletes
  <2>1. recover' = FALSE
    BY <1>9 DEF SessionCompletes
  <2>2. pc' = "loop" /\ pc = "record" /\ UNCHANGED <<mem, row, handler>>
    BY <1>9 DEF SessionCompletes, book
  <2>3. QED
    BY <2>1, <2>2
<1>10. CASE Reconnected \/ StillDown
  BY <1>10 DEF Reconnected, StillDown, book
<1>11. CASE Restart
  BY <1>11 DEF Restart
<1>12. CASE Crash
  BY <1>12 DEF Crash
<1>13. CASE Resume \/ Tick \/ Drop \/ Over \/ UNCHANGED vars
  BY <1>13 DEF Resume, Tick, Drop, Over, vars, control, book
<1>14. CASE SignalDaemon
  BY <1>14 DEF SignalDaemon, book
<1>15. CASE Enter \/ ExitOnBar
  BY <1>15 DEF Enter, ExitOnBar, control
<1>16. CASE PortfolioUpdate \/ ExitFills \/ ExitDies
  BY <1>16 DEF PortfolioUpdate, ExitFills, ExitDies, control
<1>17. QED
  BY <1>1, <1>2, <1>3, <1>4, <1>5, <1>6, <1>7, <1>8, <1>9, <1>10, <1>11, <1>12, <1>13, <1>14,
     <1>15, <1>16 DEF Next, MainThread, Market

\* A flatten keeps the book; if `twice` is not set by it, the book is settled.
LEMMA FlattenSettles ==
    ASSUME Types, Homes, ~twice => Settled, NEW reason, Flatten(reason), ~twice'
    PROVE  Settled'
<1>1. ~twice /\ exits = 0 /\ seen = held /\ pc # "quote"
  BY DEF Flatten, Unsettled
<1>2. UNCHANGED <<mem, row, held, seen, exits, handled>> /\ pc' = "sweep"
  BY DEF Flatten, book
<1>3. QED
  BY <1>1, <1>2 DEF Settled

\* The steps of the sweep.
LEMMA SweepSettles ==
    ASSUME Types, Homes, ~twice => Settled, DaemonInv, ~twice',
           FlattenExit \/ FlattenSkips \/ FlattenEnds
    PROVE  Settled'
<1>0. ~twice /\ UNCHANGED <<held, seen, sock, day, slot>> /\ seen \in Int
  BY DEF FlattenExit, FlattenSkips, FlattenEnds, time, history, Types, BookTypes
<1>1. Settled /\ Trading' = Trading
  BY <1>0 DEF Trading, BeforeOpen, IsTradingDay, CloseOf
<1>2. CASE FlattenExit
  <2>1. /\ pc' = "quote" /\ mem /\ mem' /\ held = 1 /\ exits = 0 /\ seen = held
        /\ \/ exits' = exits + 1 /\ handled'
           \/ ~handled' /\ UNCHANGED exits
    BY <1>1, <1>2 DEF FlattenExit, Settled
  <2>2. QED
    BY <1>0, <1>1, <2>1 DEF Settled
<1>3. CASE FlattenSkips
  <2>1. /\ pc' = "quote" /\ ~mem /\ ~mem' /\ UNCHANGED <<exits, row>> /\ ~handled'
        /\ exits = 0 /\ seen = held
    BY <1>1, <1>3 DEF FlattenSkips, Settled
  <2>2. QED
    BY <1>0, <1>1, <2>1 DEF Settled
<1>4. CASE FlattenEnds
  <2>1. pc' \in {"record", "reconn", "dead", "exited"} /\ pc = "quote"
    BY <1>4 DEF FlattenEnds, After, DaemonInv, Dates
  <2>2. ~mem' /\ row' # "open"
    BY <1>4 DEF FlattenEnds, Homes, InSession
  <2>3. /\ 0 <= exits' /\ exits' <= held /\ exits' \in Int
        /\ Trading /\ sock = "up" => exits' = held
    <3>1. CASE handled
      BY <1>0, <1>1, <1>4, <2>1, <3>1 DEF FlattenEnds, Residual, Settled
    <3>2. CASE ~handled
      BY <1>0, <1>1, <1>4, <2>1, <3>2 DEF FlattenEnds, Residual, View, Settled
    <3>3. QED
      BY <3>1, <3>2
  <2>4. QED
    BY <1>0, <1>1, <2>1, <2>2, <2>3 DEF Settled
<1>5. QED
  BY <1>2, <1>3, <1>4

\* Entries, exits, fills and the portfolio.
LEMMA MarketSettles ==
    ASSUME Types, Homes, Settled, Market
    PROVE  Settled'
<1>0. /\ UNCHANGED <<day, slot, pc, sock>>
      /\ held \in Int /\ seen \in Int /\ exits \in Int
  BY DEF Market, Enter, ExitOnBar, PortfolioUpdate, ExitFills, ExitDies, time, control, Types, BookTypes
<1>1. Trading' = Trading
  BY <1>0 DEF Trading, BeforeOpen, IsTradingDay, CloseOf
<1>2. CASE Enter
  <2>1. pc \notin {"sweep", "quote", "record"} /\ mem' /\ held' = 1 /\ exits = 0 /\ exits' = exits
    BY <1>2 DEF Enter
  <2>2. QED
    BY <1>0, <2>1 DEF Settled
<1>3. CASE ExitOnBar
  <2>1. /\ pc \notin {"sweep", "quote", "record"} /\ ~mem' /\ held' = 0 /\ exits = 0
        /\ exits' = exits /\ row' = "none"
    BY <1>3 DEF ExitOnBar, Waiting
  <2>2. QED
    BY <1>0, <2>1 DEF Settled
<1>4. CASE PortfolioUpdate
  BY <1>0, <1>1, <1>4 DEF PortfolioUpdate, Settled, history
<1>5. CASE ExitFills
  <2>1. /\ exits # 0 /\ Trading /\ held' = held - exits /\ exits' = 0
        /\ UNCHANGED <<mem, row, seen, handled>>
    BY <1>5 DEF ExitFills
  <2>2. held = 1 /\ exits = 1 /\ held' = 0
    BY <1>0, <2>1 DEF Settled
  <2>3. QED
    BY <1>0, <1>1, <2>1, <2>2 DEF Settled
<1>6. CASE ExitDies
  <2>1. /\ exits # 0 /\ ~Trading /\ exits' = 0
        /\ UNCHANGED <<mem, row, held, seen, handled>>
    BY <1>6 DEF ExitDies
  <2>2. held # 0
    BY <1>0, <2>1 DEF Settled
  <2>3. excused'
    BY <1>6, <2>2, Zenon DEF ExitDies
  <2>4. QED
    BY <1>0, <1>1, <2>1, <2>2, <2>3 DEF Settled
<1>7. QED
  BY <1>2, <1>3, <1>4, <1>5, <1>6 DEF Market

LEMMA BookKept ==
    ASSUME Types, Homes, ~twice => Settled, DaemonInv, [Next]_vars
    PROVE  ~twice' => Settled'
<1> SUFFICES ASSUME ~twice'
             PROVE  Settled'
  OBVIOUS
<1>0. held \in Int /\ seen \in Int /\ exits \in Int
  BY DEF Types, BookTypes
<1>1. CASE PremarketAborts \/ EodArrives \/ Outage \/ SignalRunner
  BY <1>1, FlattenSettles DEF PremarketAborts, EodArrives, Outage, SignalRunner
<1>2. CASE FlattenExit \/ FlattenSkips \/ FlattenEnds
  BY <1>2, SweepSettles
<1>3. CASE Market
  <2>1. twice' = twice
    BY <1>3 DEF Market, Enter, ExitOnBar, PortfolioUpdate, ExitFills, ExitDies, history
  <2>2. QED
    BY <1>3, <2>1, MarketSettles
<1>4. CASE DaemonTurn \/ IdleEnds \/ PremarketEnds \/ OpenEval \/ PostOrb \/ WatchdogEnds
           \/ SessionCompletes \/ StillDown
  <2>1. UNCHANGED <<book, twice>> /\ pc' \notin {"sweep", "quote", "record"} /\ pc # "quote"
    BY <1>4 DEF DaemonTurn, IdleEnds, PremarketEnds, OpenEval, PostOrb, WatchdogEnds,
                SessionCompletes, StillDown, Wakes, PhaseUnchanged, history
  <2>2. QED
    BY <1>0, <2>1 DEF Settled, book
<1>5. CASE SessionBegins
  <2>1. /\ ~twice /\ pc = "idle" /\ pc' = "premarket" /\ ~mem /\ ~mem' /\ row' = "none"
        /\ held' = held /\ exits' = exits + StartupSells(seen')
        /\ seen' \in {seen, held}
    BY <1>5 DEF SessionBegins, Homes, Waiting
  <2>2. StartupSells(seen') = 0 \/ (StartupSells(seen') = seen' /\ row = "open")
    BY DEF StartupSells, ReconciledRow
  <2>3. exits' \in Int /\ 0 <= exits' /\ exits' <= held
    BY <1>0, <2>1, <2>2 DEF Settled
  <2>4. QED
    BY <2>1, <2>3 DEF Settled
<1>6. CASE SessionRefused
  <2>1. /\ UNCHANGED <<mem, held, seen, exits, twice>> /\ pc' = "reconn" /\ pc = "idle"
        /\ row' = "open" => row = "open"
    BY <1>6 DEF SessionRefused, ReconciledRow, history
  <2>2. QED
    BY <1>0, <2>1 DEF Settled
<1>7. CASE Reconnected \/ Resume \/ Restart
  <2>1. /\ UNCHANGED <<mem, row, held, exits, handled, twice>> /\ seen' = held
        /\ pc \notin {"sweep", "quote", "record"} /\ pc' \notin {"sweep", "quote", "record"}
    BY <1>7 DEF Reconnected, Resume, Restart, control, history, Waiting
  <2>2. QED
    BY <1>0, <2>1 DEF Settled
<1>8. CASE Crash
  <2>1. ~twice /\ exits = 0 /\ seen = held
    BY <1>8 DEF Crash, Unsettled
  <2>2. UNCHANGED <<row, held, seen, exits>> /\ pc' = "dead" /\ ~mem'
    BY <1>8 DEF Crash
  <2>3. QED
    BY <2>1, <2>2 DEF Settled
<1>9. CASE Tick
  <2>1. ~Due /\ UNCHANGED <<pc, book, twice>>
    BY <1>9 DEF Tick, control
  <2>2. pc \notin {"sweep", "quote", "record"}
    BY <2>1 DEF Due
  <2>3. QED
    BY <1>0, <2>1, <2>2 DEF Settled, book
<1>10. CASE Drop \/ SignalDaemon \/ Over \/ UNCHANGED vars
  <2>1. UNCHANGED <<day, slot, pc, book, excused, twice>> /\ (sock' = "up" => sock = "up")
    BY <1>10 DEF Drop, SignalDaemon, Over, vars, time, control, history
  <2>2. Trading' = Trading
    BY <2>1 DEF Trading, BeforeOpen, IsTradingDay, CloseOf
  <2>3. QED
    BY <1>0, <2>1, <2>2 DEF Settled, book
<1>11. QED
  BY <1>1, <1>2, <1>3, <1>4, <1>5, <1>6, <1>7, <1>8, <1>9, <1>10 DEF Next, MainThread

(***************************************************************************)
(* Shares nobody knows of, without --recover.                              *)
(***************************************************************************)

\* Every step that lets go of a share leaves a row, the manager or an exit for it, or
\* is excused.
LEMMA OrphansNone ==
    ASSUME Recover = FALSE, Types, Homes, ~twice => Settled, NoSilentOrphan, DaemonInv, [Next]_vars
    PROVE  NoSilentOrphan'
<1> SUFFICES ASSUME ~twice', held' > 0, ~excused'
             PROVE  row' = "open" \/ mem' \/ exits' > 0
  BY DEF NoSilentOrphan
<1>0. held \in Int /\ seen \in Int /\ exits \in Int
  BY DEF Types, BookTypes
<1>1. CASE SessionBegins
  <2>1. /\ ~twice /\ ~excused /\ ~mem /\ held' = held /\ exits' = exits + StartupSells(seen')
        /\ seen' = IF sock = "up" THEN seen ELSE held
    BY <1>1 DEF SessionBegins, Homes, Waiting
  <2>2. 0 <= exits /\ (row = "open" => seen' = held) /\ seen' \in Int
    BY <1>0, <2>1 DEF Settled
  <2>3. row = "open" => StartupSells(seen') = held
    BY <2>2 DEF StartupSells, ReconciledRow, Homes
  <2>4. CASE row = "open"
    BY <1>0, <2>1, <2>2, <2>3, <2>4
  <2>5. CASE row # "open"
    <3>1. StartupSells(seen') = 0
      BY <2>5 DEF StartupSells, ReconciledRow
    <3>2. QED
      BY <1>0, <2>1, <2>5, <3>1 DEF NoSilentOrphan
  <2>6. QED
    BY <2>4, <2>5
<1>2. CASE SessionRefused
  BY <1>0, <1>2 DEF SessionRefused, ReconciledRow, Homes, NoSilentOrphan, history
<1>3. CASE FlattenExit
  <2>1. mem /\ mem' = mem
    BY <1>3 DEF FlattenExit
  <2>2. QED
    BY <2>1
<1>4. CASE FlattenSkips
  BY <1>0, <1>4 DEF FlattenSkips, NoSilentOrphan, history
<1>5. CASE FlattenEnds
  <2>1. ~excused /\ View = held
    <3>1. excused' = (excused \/ View # held \/ sock = "down")
      BY <1>5 DEF FlattenEnds
    <3>2. QED
      BY <3>1, Zenon
  <2>5. ~twice /\ held' = held /\ pc = "quote" /\ exits' = exits + Residual
    BY <1>5 DEF FlattenEnds
  <2>2. CASE handled
    BY <1>0, <2>1, <2>5, <2>2 DEF Settled, Residual
  <2>3. CASE ~handled
    BY <1>0, <2>1, <2>5, <2>3 DEF Settled, Residual
  <2>4. QED
    BY <2>2, <2>3
<1>6. CASE Crash
  <2>1. ~twice /\ ~excused /\ row' = row /\ held' = held /\ exits' = exits
    BY <1>6 DEF Crash
  <2>2. QED
    BY <1>0, <2>1 DEF NoSilentOrphan, Homes
<1>7. CASE Enter \/ ExitOnBar
  BY <1>7 DEF Enter, ExitOnBar
<1>8. CASE PortfolioUpdate
  BY <1>0, <1>8 DEF PortfolioUpdate, NoSilentOrphan, history
<1>9. CASE ExitFills
  <2>1. ~twice /\ exits # 0 /\ held' = held - exits
    BY <1>9 DEF ExitFills
  <2>2. QED
    BY <1>0, <2>1 DEF Settled
<1>10. CASE ExitDies
  <2>1. held # 0 => excused'
    BY <1>10, Zenon DEF ExitDies
  <2>2. held' = held
    BY <1>10 DEF ExitDies
  <2>3. QED
    BY <1>0, <2>1, <2>2
<1>11. CASE Resume \/ Reconnected \/ Restart
  <2>1. UNCHANGED <<mem, row, held, exits, excused, twice>>
    BY <1>11 DEF Resume, Reconnected, Restart, history
  <2>2. QED
    BY <1>0, <2>1 DEF NoSilentOrphan
<1>12. CASE PremarketAborts \/ EodArrives \/ Outage \/ SignalRunner
  <2>1. UNCHANGED <<mem, row, held, exits, excused>> /\ (twice => twice')
    BY <1>12 DEF PremarketAborts, EodArrives, Outage, SignalRunner, Flatten, book
  <2>2. QED
    BY <1>0, <2>1 DEF NoSilentOrphan
<1>13. CASE DaemonTurn \/ IdleEnds \/ PremarketEnds \/ OpenEval \/ PostOrb \/ WatchdogEnds
            \/ SessionCompletes \/ StillDown \/ Drop \/ SignalDaemon \/ Tick \/ Over
            \/ UNCHANGED vars
  <2>1. UNCHANGED <<mem, row, held, exits, excused, twice>>
    BY <1>13 DEF DaemonTurn, IdleEnds, PremarketEnds, OpenEval, PostOrb, WatchdogEnds,
                SessionCompletes, StillDown, Drop, SignalDaemon, Tick, Over, PhaseUnchanged, vars,
                book, history
  <2>2. QED
    BY <1>0, <2>1 DEF NoSilentOrphan
<1>14. QED
  BY <1>1, <1>2, <1>3, <1>4, <1>5, <1>6, <1>7, <1>8, <1>9, <1>10, <1>11, <1>12, <1>13
     DEF Next, MainThread, Market

(***************************************************************************)
(* The theorems.                                                           *)
(***************************************************************************)

\* The inductive invariant of the phases, the types and the book.
THEOREM BookInvariance == Spec => []AllInv
<1>1. AllInv /\ [Next]_vars => AllInv'
  <2> SUFFICES ASSUME AllInv, [Next]_vars
               PROVE  AllInv'
    OBVIOUS
  <2> USE DEF AllInv, BookInv
  <2>1. DaemonInv'
    BY StepKeeps
  <2>2. Types'
    BY TypesKept
  <2>3. WaitsAhead'
    BY WaitsKept DEF Types
  <2>4. InTime'
    BY InTimeKept
  <2>5. Homes'
    BY HomesKept
  <2>6. ~twice' => Settled'
    BY BookKept
  <2>7. QED
    BY <2>1, <2>2, <2>3, <2>4, <2>5, <2>6
<1>2. QED
  BY <1>1, InitAll, PTL DEF Spec

\* Every variable keeps its type: a date waited for is a trading day, and the day a
\* phase takes from the clock is one too, even after an overrun.
THEOREM DaemonTypes == Spec => []TypeOK
<1>1. AllInv => TypeOK
  BY TypesAreTypeOK DEF AllInv
<1>2. QED
  BY <1>1, BookInvariance, PTL

\* Where no exchange closes early, the sweep of a session that was not late is sent
\* while the exchange trades.
THEOREM SweepInTime == ASSUME HalfDays = {} PROVE Spec => []SweepBeforeClose
<1>1. AllInv => SweepBeforeClose
  BY DEF AllInv, InTime, SweepBeforeClose, CloseOf
<1>2. QED
  BY <1>1, BookInvariance, PTL

\* The book never goes short, whatever crashes, outages and restarts do, until a
\* flatten or a death meets an exit that is not settled.
THEOREM NothingOversold == Spec => []NeverShort
<1>1. AllInv => NeverShort
  BY DEF AllInv, BookInv, Settled, NeverShort
<1>2. QED
  BY <1>1, BookInvariance, PTL

\* The exits of a sweep in trading hours are for exactly what is held.
THEOREM SweepSellsAll == Spec => []SweepCovers
<1>1. AllInv => SweepCovers
  BY DEF AllInv, BookInv, Settled, SweepCovers
<1>2. QED
  BY <1>1, BookInvariance, PTL

\* Without --recover no shares are held that nothing accounts for, unless an exit could
\* not be sent, died after the close, or was doubled.
THEOREM NoneForgotten == ASSUME Recover = FALSE PROVE Spec => []NoSilentOrphan
<1>1. Init => NoSilentOrphan
  BY DEF Init, NoSilentOrphan
<1>2. NoSilentOrphan /\ AllInv /\ [Next]_vars => NoSilentOrphan'
  BY OrphansNone DEF AllInv, BookInv
<1>3. QED
  BY <1>1, <1>2, BookInvariance, PTL DEF Spec
=============================================================================
