---------------------------- MODULE BarFeed_proofs ----------------------------
(***************************************************************************)
(* What holds of BarFeed for every length of a minute, a session and an    *)
(* opening range, and any number of days, lost sockets and reruns: one     *)
(* attempt a session, no stream after it, none stranded within it, and, in *)
(* the second part, the order of the minute bars the listeners get,        *)
(* whatever the event loop delivers while a flush waits for its fetch.     *)
(***************************************************************************)
EXTENDS BarFeed, SequenceTheorems, TLAPS

Stages == {"pre", "arming", "grace", "wait", "done", "failed"}
Streams == {"none", "live", "dead"}

Control ==
    /\ stage \in Stages
    /\ watched \in BOOLEAN /\ subscribed \in BOOLEAN
    /\ stream \in Streams
    /\ eng \in {"waiting", "armed", "in_position", "skipped"}
    /\ attempts \in Nat

\* An armed engine has made no attempt yet.  OneAttempt alone is not inductive.
AttemptSpent ==
    /\ attempts <= 1
    /\ eng \in {"waiting", "armed"} => attempts = 0
    /\ stage = "pre" => eng = "waiting"

\* The router counts a watched symbol as subscribed only with a stream at the client;
\* yesterday's symbol until the subscriptions of today, or all day without any.
Subscription ==
    /\ subscribed /\ watched => stream # "none"
    /\ subscribed /\ ~watched => stage \in {"arming", "wait"}

FeedInv == Control /\ AttemptSpent /\ Subscription /\ NothingStreamsAfter

\* Whatever bars an engine sees, it makes at most one attempt, from "armed".
LEMMA EngineSpends ==
    ASSUME NEW e \in {"waiting", "armed", "in_position", "skipped"}, NEW bs,
           attempts \in Nat, attempts <= 1,
           e \in {"waiting", "armed"} => attempts = 0,
           EngineSees(e, bs)
    PROVE  /\ eng' \in {"waiting", "armed", "in_position", "skipped"}
           /\ attempts' \in Nat /\ attempts' <= 1
           /\ eng' \in {"waiting", "armed"} => attempts' = 0
           /\ e = "waiting" => eng' = "waiting"
BY DEF EngineSees

\* A subscription that succeeds leaves a stream.
LEMMA SubscribedStreams ==
    ASSUME NEW ok \in BOOLEAN, NEW s \in Streams, Subscribed(ok, s)
    PROVE  /\ subscribed' = ok
           /\ stream' \in Streams
           /\ ok => stream' # "none"
BY DEF Subscribed, Streams

LEMMA InitFeed == Init => FeedInv
<1> SUFFICES ASSUME Init
             PROVE  FeedInv
  OBVIOUS
<1>1. /\ stage = "pre" /\ watched = FALSE /\ subscribed = FALSE /\ stream = "none"
      /\ eng = "waiting" /\ attempts = 0
  BY DEF Init
<1>2. Control
  BY <1>1 DEF Control, Stages, Streams
<1>3. AttemptSpent
  BY <1>1 DEF AttemptSpent
<1>4. Subscription /\ NothingStreamsAfter
  BY <1>1 DEF Subscription, NothingStreamsAfter
<1>5. QED
  BY <1>2, <1>3, <1>4 DEF FeedInv

LEMMA NextFeed == FeedInv /\ [Next]_vars => FeedInv'
<1> SUFFICES ASSUME FeedInv, [Next]_vars
             PROVE  FeedInv'
  OBVIOUS
<1> USE DEF FeedInv, Control, Stages
<1>1. ASSUME NEW b \in BOOLEAN, Tick(b)
      PROVE  FeedInv'
  <2>1. \E bs : EngineSees(eng, bs)
    BY <1>1 DEF Tick
  <2>2. PICK bs : EngineSees(eng, bs)
    BY <2>1
  <2>3. UNCHANGED <<stage, watched, subscribed, stream>>
    BY <1>1 DEF Tick, runnerVars
  <2>4. QED
    BY <2>2, <2>3, EngineSpends DEF AttemptSpent, Subscription, NothingStreamsAfter
<1>2. CASE NoTick \/ FetchStarts
  BY <1>2 DEF NoTick, FetchStarts, runnerVars, feedVars, engineVars, AttemptSpent,
              Subscription, NothingStreamsAfter
<1>3. CASE Drop
  BY <1>3 DEF Drop, runnerVars, engineVars, AttemptSpent, Subscription,
              NothingStreamsAfter, Streams
<1>4. CASE Reconnect
  <2>1. PICK bs \in Flushes : EngineSees(eng, bs)
    BY <1>4 DEF Reconnect, Flushed
  <2>2. UNCHANGED <<stage, watched>> /\ stage \notin {"done", "failed"}
    BY <1>4 DEF Reconnect, runnerVars, Waiting
  <2>3. /\ subscribed' \in BOOLEAN /\ stream' \in Streams
        /\ subscribed' /\ watched => stream' # "none"
        /\ ~watched => UNCHANGED subscribed /\ stream' = "none"
    <3>1. CASE watched
      <4>1. PICK ok \in BOOLEAN : Subscribed(ok, "none")
        BY <1>4, <3>1 DEF Reconnect, Resubscribed
      <4>2. QED
        BY <3>1, <4>1, SubscribedStreams DEF Streams
    <3>2. CASE ~watched
      BY <1>4, <3>2 DEF Reconnect, Subscription, Streams
    <3>3. QED
      BY <3>1, <3>2
  <2>4. QED
    BY <2>1, <2>2, <2>3, EngineSpends DEF AttemptSpent, Subscription, NothingStreamsAfter
<1>5. CASE ReconnectFails \/ Complete
  <2>1. PICK bs \in Flushes : EngineSees(eng, bs) /\ Unsubscribed
    BY <1>5 DEF ReconnectFails, Complete, Closes, Flushed
  <2>2. stage' \in {"done", "failed"}
    BY <1>5 DEF ReconnectFails, Complete
  <2>3. watched' = watched
    BY <1>5 DEF ReconnectFails, Complete
  <2>4. subscribed' = FALSE /\ stream' = "none"
    BY <2>1 DEF Unsubscribed
  <2>5. QED
    BY <2>1, <2>2, <2>3, <2>4, EngineSpends
       DEF AttemptSpent, Subscription, NothingStreamsAfter, Streams
<1>6. CASE NoCandidates
  BY <1>6 DEF NoCandidates, feedVars, engineVars, AttemptSpent, Subscription,
              NothingStreamsAfter
<1>7. CASE OrbComplete
  <2>1. /\ stage = "pre" /\ stage' \in {"arming", "wait"} /\ watched' \in BOOLEAN
        /\ eng' \in {"armed", "skipped", "waiting"} /\ attempts' = attempts
        /\ UNCHANGED <<subscribed, stream>>
    BY <1>7 DEF OrbComplete, feedVars
  <2>2. attempts = 0
    BY <2>1 DEF AttemptSpent
  <2>3. QED
    BY <2>1, <2>2 DEF AttemptSpent, Subscription, NothingStreamsAfter
<1>8. CASE SubscribeSame
  BY <1>8 DEF SubscribeSame, GraceBegins, feedVars, engineVars, AttemptSpent, Subscription,
              NothingStreamsAfter
<1>9. CASE SubscribeAnew
  <2>1. stage = "arming" /\ stage' = "grace" /\ UNCHANGED watched
    BY <1>9 DEF SubscribeAnew, GraceBegins
  <2>2. \/ UNCHANGED <<eng, attempts>>
        \/ \E bs : EngineSees(eng, bs)
    BY <1>9 DEF SubscribeAnew, Flushed, engineVars
  <2>3. \/ watched /\ (Subscribed(TRUE, "none") \/ Subscribed(TRUE, stream))
        \/ Unsubscribed
        \/ ~subscribed /\ UNCHANGED <<subscribed, stream>>
    BY <1>9 DEF SubscribeAnew
  <2>4. /\ subscribed' \in BOOLEAN /\ stream' \in Streams
        /\ subscribed' => watched /\ stream' # "none"
    <3>1. CASE watched /\ (Subscribed(TRUE, "none") \/ Subscribed(TRUE, stream))
      <4>1. "none" \in Streams /\ stream \in Streams /\ TRUE \in BOOLEAN
        BY DEF Streams
      <4>2. subscribed' = TRUE /\ stream' \in Streams /\ stream' # "none"
        BY <3>1, <4>1, SubscribedStreams
      <4>3. QED
        BY <3>1, <4>2
    <3>2. CASE Unsubscribed
      BY <3>2 DEF Unsubscribed, Streams
    <3>3. CASE ~subscribed /\ UNCHANGED <<subscribed, stream>>
      BY <3>3
    <3>4. QED
      BY <2>3, <3>1, <3>2, <3>3
  <2>5. QED
    BY <2>1, <2>2, <2>4, EngineSpends DEF AttemptSpent, Subscription, NothingStreamsAfter
<1>10. CASE WatchdogResubscribes
  <2>1. stage = "grace" /\ stage' = "wait" /\ UNCHANGED watched
    BY <1>10 DEF WatchdogResubscribes, WatchdogLooks
  <2>2. PICK bs \in Flushes : EngineSees(eng, bs)
    BY <1>10 DEF WatchdogResubscribes, Flushed
  <2>3. (watched /\ Subscribed(TRUE, "none")) \/ Unsubscribed
    BY <1>10 DEF WatchdogResubscribes
  <2>4. /\ subscribed' \in BOOLEAN /\ stream' \in Streams
        /\ subscribed' => watched /\ stream' # "none"
    BY <2>3, SubscribedStreams DEF Unsubscribed, Streams
  <2>5. QED
    BY <2>1, <2>2, <2>4, EngineSpends DEF AttemptSpent, Subscription, NothingStreamsAfter
<1>11. CASE WatchdogContent
  BY <1>11 DEF WatchdogContent, WatchdogLooks, feedVars, engineVars, AttemptSpent,
               Subscription, NothingStreamsAfter
<1>12. CASE RunAgain \/ NextDay
  <2>1. stage \in {"done", "failed"} /\ SessionBegins
    BY <1>12 DEF RunAgain, NextDay
  <2>2. QED
    BY <2>1 DEF SessionBegins, feedVars, AttemptSpent, Subscription, NothingStreamsAfter
<1>13. CASE Done \/ UNCHANGED vars
  BY <1>13 DEF Done, vars, runnerVars, feedVars, engineVars, AttemptSpent, Subscription,
               NothingStreamsAfter
<1>14. QED
  BY <1>1, <1>2, <1>3, <1>4, <1>5, <1>6, <1>7, <1>8, <1>9, <1>10, <1>11, <1>12, <1>13
     DEF Next

THEOREM FeedInvariance == Spec => []FeedInv
BY InitFeed, NextFeed, PTL DEF Spec

\* However the 5-second and the 1-minute path, replays and flushes show a breakout,
\* a session calls open_position for it once.
THEOREM AttemptsOnce == Spec => []OneAttempt
<1>1. FeedInv => OneAttempt
  BY DEF FeedInv, AttemptSpent, OneAttempt
<1>2. QED
  BY <1>1, FeedInvariance, PTL

\* No stream outlives its session, however many of its subscriptions half failed.
THEOREM StreamsEnd == Spec => []NothingStreamsAfter
<1>1. FeedInv => NothingStreamsAfter
  BY DEF FeedInv
<1>2. QED
  BY <1>1, FeedInvariance, PTL

\* A watched symbol the router believes subscribed has a stream, whatever reconnects
\* dropped.
THEOREM StreamsNotStranded == Spec => []WatchedHasStream
<1>1. FeedInv => WatchedHasStream
  BY DEF FeedInv, Subscription, WatchedHasStream
<1>2. QED
  BY <1>1, FeedInvariance, PTL

(***************************************************************************)
(* The bars themselves.                                                    *)
(***************************************************************************)

\* Minutes never fall; none is after minute b.
Sorted(s) == \A i, j \in 1..Len(s) : i < j => s[i] <= s[j]
Upto(s, b) == \A i \in 1..Len(s) : s[i] <= b

AllMinutes == 0..MinuteOf(Close)
SomeBars == [min: AllMinutes, brk: BOOLEAN]
MinsOf(bs) == [i \in DOMAIN bs |-> bs[i].min]

\* What the listeners were given before a fetch is before its gap, what they are given
\* while it is out is not before its bar.
Spanned ==
    /\ fetch.bar.min # 0 /\ fetch.since < fetch.bar.min /\ fetch.bar.min <= agg.min
    /\ stream # "none"
    /\ \A i \in 1..Len(fed) : fed[i] <= fetch.since \/ fetch.bar.min <= fed[i]

\* The bar being built, and the router's last bar while a stream is there and no fetch
\* is out, are no older than any delivered; without a stream no bar is half built.
BarParts ==
    /\ agg \in SomeBars
    /\ last \in AllMinutes
    /\ fetch \in [bar: SomeBars, since: AllMinutes, until: Nat]
    /\ received \in Nat
    /\ fed \in Seq(Minutes)
    /\ Upto(fed, MinuteOf(now))
    /\ agg.min # 0 => Upto(fed, agg.min) /\ agg.min <= MinuteOf(now)
    /\ last # 0 /\ fetch = NoFetch /\ stream # "none" => Upto(fed, last)
    /\ fetch # NoFetch => Spanned
    /\ stream = "none" => agg = NoBar
BarInv == TypeOK /\ BarParts

LEMMA MinutesGrow ==
    /\ \A t \in Nat : MinuteOf(t) \in Nat \ {0}
    /\ \A t \in Nat, u \in Nat : t <= u => MinuteOf(t) <= MinuteOf(u)
<1>1. TicksPerMinute \in Nat \ {0}
  BY FeedAssumption
<1>2. \A t \in Nat : MinuteOf(t) \in Nat \ {0}
  BY <1>1 DEF MinuteOf
<1>3. ASSUME NEW t \in Nat, NEW u \in Nat, t <= u
      PROVE  MinuteOf(t) <= MinuteOf(u)
  BY <1>1, <1>3 DEF MinuteOf
<1>4. QED
  BY <1>2, <1>3

LEMMA MinutesAre ==
    /\ MinuteOf(Close) \in Nat /\ Close \in Nat
    /\ \A x : x \in Minutes <=> x \in AllMinutes /\ x # 0
    /\ \A x \in AllMinutes : x \in Nat
<1>1. MinuteOf(Close) \in Nat /\ Close \in Nat
  BY FeedAssumption, MinutesGrow
<1>2. QED
  BY <1>1 DEF Minutes, AllMinutes

LEMMA UptoMore ==
    ASSUME NEW s \in Seq(Minutes), NEW b \in Nat, NEW c \in Nat, b <= c, Upto(s, b)
    PROVE  Upto(s, c)
<1>1. ASSUME NEW i \in 1..Len(s)
      PROVE  s[i] <= c
  <2>1. s[i] \in Nat /\ s[i] <= b
    BY ElementOfSeq, MinutesAre DEF Upto
  <2>2. QED
    BY <2>1
<1>2. QED
  BY <1>1 DEF Upto

\* What a gap is filled with: newer than the last bar, up to the bar's own minute.
LEMMA MissedAre ==
    ASSUME NEW f \in [bar: SomeBars, since: AllMinutes, until: Nat], NEW r \in Missed(f)
    PROVE  /\ r \in Seq(SomeBars)
           /\ \A i \in 1..Len(r) : /\ r[i].min \in Minutes
                                   /\ f.since < r[i].min /\ r[i].min <= f.bar.min
           /\ \A i, j \in 1..Len(r) : i < j => r[i].min <= r[j].min
<1> DEFINE lo == f.since
           hi == f.bar.min
<1>0. lo \in AllMinutes /\ hi \in AllMinutes /\ lo \in Nat /\ hi \in Nat
  BY MinutesAre DEF SomeBars
<1> HIDE DEF lo, hi
<1>1. CASE r = <<>>
  BY <1>1
<1>2. CASE r # <<>>
  <2>1. PICK q \in Rising(lo, hi), B \in SUBSET ((lo + 1)..hi) : r = Refetched(q, B)
    BY <1>2 DEF Missed, lo, hi
  <2>2. PICK n \in 0..(hi - lo) :
          /\ q \in [1..n -> (lo + 1)..hi]
          /\ \A i, j \in 1..n : i < j => q[i] < q[j]
    BY DEF Rising
  <2>3. n \in Nat
    BY <2>2
  <2>4. (lo + 1)..hi \subseteq AllMinutes
    BY <1>0, MinutesAre DEF AllMinutes
  <2>5. r \in [1..n -> SomeBars]
    BY <2>1, <2>2, <2>4 DEF SomeBars, Refetched
  <2>6. r \in Seq(SomeBars) /\ Len(r) = n
    BY <2>3, <2>5
  <2>7. \A i \in 1..n : r[i].min = q[i]
    BY <2>1, <2>2 DEF Refetched
  <2>8. \A i \in 1..n : q[i] \in AllMinutes /\ q[i] \in Nat /\ lo < q[i] /\ q[i] <= hi
    BY <1>0, <2>2, <2>4, MinutesAre
  <2>9. \A i \in 1..n : q[i] \in Minutes
    BY <1>0, <2>8, MinutesAre
  <2>10. \A i, j \in 1..n : i < j => q[i] <= q[j]
    BY <2>2, <2>8
  <2>11. QED
    BY <2>6, <2>7, <2>8, <2>9, <2>10 DEF lo, hi
<1>3. QED
  BY <1>1, <1>2

\* A bar arrives behind the bars missed before it.
LEMMA ArrivalsAre ==
    ASSUME NEW f \in [bar: SomeBars, since: AllMinutes, until: Nat],
           f.bar.min # 0, f.since < f.bar.min, NEW bs \in Arrivals(f)
    PROVE  /\ MinsOf(bs) \in Seq(Minutes) /\ Sorted(MinsOf(bs))
           /\ Upto(MinsOf(bs), f.bar.min)
           /\ \A j \in 1..Len(MinsOf(bs)) : f.since < MinsOf(bs)[j]
           /\ Len(bs) \in Nat /\ LastOf(bs) = f.bar.min
<1>0. /\ f.bar \in SomeBars /\ f.bar.min \in Nat /\ f.bar.min \in Minutes /\ f.since \in Nat
  BY MinutesAre DEF SomeBars
<1>1. PICK r \in Missed(f) : bs = Append(r, f.bar)
  BY DEF Arrivals
<1> DEFINE n == Len(r)
<1>2. /\ r \in Seq(SomeBars) /\ n \in Nat
      /\ \A i \in 1..n : /\ r[i].min \in Minutes /\ r[i].min \in Nat
                         /\ f.since < r[i].min /\ r[i].min <= f.bar.min
      /\ \A i, j \in 1..n : i < j => r[i].min <= r[j].min
  BY <1>0, MissedAre, MinutesAre, LenProperties
<1>3. /\ DOMAIN bs = 1..(n + 1) /\ Len(bs) = n + 1
      /\ \A i \in 1..n : bs[i] = r[i]
      /\ bs[n + 1] = f.bar
  BY <1>0, <1>1, <1>2, AppendProperties, LenProperties
<1> HIDE DEF n
<1> DEFINE t == MinsOf(bs)
<1>4. /\ t \in [1..(n + 1) -> Minutes] /\ t[n + 1] = f.bar.min
      /\ \A i \in 1..n : t[i] = r[i].min
  <2>1. \A i \in 1..(n + 1) : bs[i].min \in Minutes
    <3>1. \A i \in 1..(n + 1) : i \in 1..n \/ i = n + 1
      BY <1>2
    <3>2. \A i \in 1..n : bs[i].min \in Minutes
      BY <1>2, <1>3
    <3>3. bs[n + 1].min \in Minutes
      BY <1>0, <1>3
    <3>4. QED
      BY <3>1, <3>2, <3>3
  <2>2. QED
    BY <1>2, <1>3, <2>1 DEF MinsOf
<1> HIDE DEF t
<1>5. t \in Seq(Minutes) /\ Len(t) = n + 1
  BY <1>2, <1>4
<1>6. \A i \in 1..(n + 1) : i \in 1..n \/ i = n + 1
  BY <1>2
<1>7. Upto(t, f.bar.min)
  BY <1>0, <1>2, <1>4, <1>5, <1>6 DEF Upto
<1>8. \A j \in 1..Len(t) : f.since < t[j]
  BY <1>0, <1>2, <1>4, <1>5, <1>6
<1>9. Sorted(t)
  <2>1. ASSUME NEW i \in 1..(n + 1), NEW j \in 1..(n + 1), i < j
        PROVE  t[i] <= t[j]
    <3>1. i \in 1..n
      BY <1>2, <2>1
    <3>2. QED
      BY <1>2, <1>4, <1>6, <2>1, <3>1
  <2>2. QED
    BY <1>5, <2>1 DEF Sorted
<1>10. Len(bs) \in Nat /\ LastOf(bs) = f.bar.min
  BY <1>2, <1>3 DEF LastOf
<1>11. QED
  BY <1>5, <1>7, <1>8, <1>9, <1>10 DEF t

\* A bar by itself, and no bar.
LEMMA OneBar ==
    ASSUME NEW bar \in SomeBars, bar.min # 0
    PROVE  /\ MinsOf(<<bar>>) \in Seq(Minutes) /\ Sorted(MinsOf(<<bar>>))
           /\ \A j \in 1..Len(MinsOf(<<bar>>)) : MinsOf(<<bar>>)[j] = bar.min
           /\ Len(<<bar>>) \in Nat /\ LastOf(<<bar>>) = bar.min
<1> DEFINE t == MinsOf(<<bar>>)
<1>1. bar.min \in Minutes /\ bar.min \in Nat
  BY MinutesAre DEF SomeBars
<1>2. DOMAIN <<bar>> = 1..1 /\ Len(<<bar>>) = 1 /\ <<bar>>[1] = bar /\ <<bar>> # <<>>
  OBVIOUS
<1>3. t \in [1..1 -> Minutes] /\ t[1] = bar.min
  BY <1>1, <1>2 DEF MinsOf
<1> HIDE DEF t
<1>4. t \in Seq(Minutes) /\ Len(t) = 1
  <2> DEFINE n == 1
  <2>1. n \in Nat /\ t \in [1..n -> Minutes]
    BY <1>3
  <2> HIDE DEF n
  <2>2. t \in Seq(Minutes) /\ Len(t) = n
    BY <2>1
  <2>3. QED
    BY <2>2 DEF n
<1>5. \A j \in 1..Len(t) : t[j] = bar.min
  BY <1>3, <1>4
<1>6. Sorted(t)
  BY <1>4, <1>5, <1>1 DEF Sorted
<1>7. LastOf(<<bar>>) = bar.min
  BY <1>2 DEF LastOf
<1>8. QED
  BY <1>2, <1>4, <1>5, <1>6, <1>7 DEF t

LEMMA NoBars ==
    /\ MinsOf(<<>>) \in Seq(Minutes) /\ Len(MinsOf(<<>>)) = 0 /\ Sorted(MinsOf(<<>>))
    /\ Len(<<>>) = 0 /\ LastOf(<<>>) = last
<1>1. MinsOf(<<>>) \in [1..0 -> Minutes] /\ Len(<<>>) = 0
  BY DEF MinsOf
<1>2. MinsOf(<<>>) \in Seq(Minutes) /\ Len(MinsOf(<<>>)) = 0
  BY <1>1
<1>3. QED
  BY <1>1, <1>2 DEF Sorted, LastOf

\* Delivering the minutes t keeps the order, where those before them, or those that
\* did not overtake them, are no newer.
LEMMA JoinKeeps ==
    ASSUME fed \in Seq(Minutes), NEW t \in Seq(Minutes), fed' = fed \o t, Sorted(t),
           \A i \in 1..Len(fed), j \in 1..Len(t) : i \in Overtakers \/ fed[i] <= t[j]
    PROVE  /\ fed' \in Seq(Minutes)
           /\ \A j \in NewBars : \A i \in (1..(j - 1)) \ Overtakers : fed'[i] <= fed'[j]
<1>1. /\ Len(fed') = Len(fed) + Len(t) /\ Len(fed) \in Nat /\ Len(t) \in Nat
      /\ \A i \in 1..(Len(fed) + Len(t)) :
            fed'[i] = IF i <= Len(fed) THEN fed[i] ELSE t[i - Len(fed)]
  BY ConcatProperties, LenProperties
<1>2. fed' \in Seq(Minutes)
  BY ConcatProperties
<1>3. ASSUME NEW j \in NewBars, NEW i \in (1..(j - 1)) \ Overtakers
      PROVE  fed'[i] <= fed'[j]
  <2>1. /\ j \in (Len(fed) + 1)..(Len(fed) + Len(t)) /\ i \in Nat /\ j \in Nat
        /\ i \in 1..(Len(fed) + Len(t)) /\ i < j
    BY <1>1 DEF NewBars
  <2>2. fed'[j] = t[j - Len(fed)] /\ j - Len(fed) \in 1..Len(t)
    BY <1>1, <2>1
  <2>3. CASE i <= Len(fed)
    <3>1. i \in 1..Len(fed) /\ fed'[i] = fed[i]
      BY <1>1, <2>1, <2>3
    <3>2. QED
      BY <1>3, <2>2, <3>1
  <2>4. CASE i > Len(fed)
    <3>1. /\ i - Len(fed) \in 1..Len(t) /\ i - Len(fed) < j - Len(fed)
          /\ fed'[i] = t[i - Len(fed)]
      BY <1>1, <2>1, <2>4
    <3>2. QED
      BY <2>2, <3>1 DEF Sorted
  <2>5. QED
    BY <1>1, <2>1, <2>3, <2>4
<1>4. QED
  BY <1>2, <1>3

\* Nor does it bring minutes beyond b.
LEMMA JoinUpto ==
    ASSUME NEW s \in Seq(Minutes), NEW t \in Seq(Minutes), NEW b, Upto(s, b), Upto(t, b)
    PROVE  Upto(s \o t, b)
<1> DEFINE u == s \o t
<1>1. /\ Len(u) = Len(s) + Len(t) /\ Len(s) \in Nat /\ Len(t) \in Nat
      /\ \A i \in 1..(Len(s) + Len(t)) : u[i] = IF i <= Len(s) THEN s[i] ELSE t[i - Len(s)]
  BY ConcatProperties, LenProperties
<1> HIDE DEF u
<1>2. ASSUME NEW i \in 1..Len(u)
      PROVE  u[i] <= b
  <2>1. i \in 1..(Len(s) + Len(t))
    BY <1>1
  <2>2. CASE i <= Len(s)
    BY <1>1, <2>1, <2>2 DEF Upto
  <2>3. CASE i > Len(s)
    <3>1. u[i] = t[i - Len(s)] /\ i - Len(s) \in 1..Len(t)
      BY <1>1, <2>1, <2>3
    <3>2. QED
      BY <3>1 DEF Upto
  <2>4. QED
    BY <1>1, <2>1, <2>2, <2>3
<1>3. QED
  BY <1>2 DEF Upto, u

OrderStep == \A j \in NewBars : \A i \in (1..(j - 1)) \ Overtakers : fed'[i] <= fed'[j]

\* What a flush delivers is the bar half built, behind the bars that were missed before
\* it: only those that came while the fetch was out are newer.
LEMMA FlushDelivers ==
    ASSUME BarInv, NEW bs \in Flushes, Counted(bs), fetch' = NoFetch
    PROVE  /\ fed' \in Seq(Minutes) /\ received' \in Nat /\ LastOf(bs) \in AllMinutes
           /\ Upto(fed', MinuteOf(now)) /\ OrderStep
<1> DEFINE t == MinsOf(bs)
<1>0. /\ fed \in Seq(Minutes) /\ received \in Nat /\ last \in AllMinutes /\ agg \in SomeBars
      /\ agg.min \in AllMinutes /\ agg.min \in Nat /\ Len(fed) \in Nat
      /\ fetch \in [bar: SomeBars, since: AllMinutes, until: Nat]
      /\ now \in Nat /\ MinuteOf(now) \in Nat /\ Upto(fed, MinuteOf(now))
      /\ DOMAIN fed = 1..Len(fed)
      /\ \A i \in 1..Len(fed) : fed[i] \in Minutes /\ fed[i] \in Nat
  <2>0. now \in Nat
    BY FeedAssumption DEF BarInv, TypeOK
  <2>1. now \in Nat /\ MinuteOf(now) \in Nat
    BY <2>0, MinutesGrow
  <2>2. fed \in Seq(Minutes)
    BY DEF BarInv, BarParts
  <2>3. \A i \in 1..Len(fed) : fed[i] \in Minutes
    BY <2>2, ElementOfSeq
  <2>4. agg \in SomeBars /\ agg.min \in AllMinutes
    BY DEF BarInv, BarParts, SomeBars
  <2>5. QED
    BY <2>1, <2>2, <2>3, <2>4, MinutesAre, LenProperties DEF BarInv, BarParts
<1>1. fed' = fed \o t /\ received' = received + Len(bs)
  BY DEF Counted, MinsOf
<1> HIDE DEF t
<1>2. CASE fetch # NoFetch
  <2> DEFINE b == fetch.bar.min
             lo == fetch.since
  <2>1. bs \in Arrivals(fetch) /\ Spanned
    BY <1>2 DEF Flushes, BarInv, BarParts
  <2>2. /\ b # 0 /\ lo < b /\ b <= agg.min /\ b \in Nat /\ lo \in Nat /\ b \in AllMinutes
        /\ \A i \in 1..Len(fed) : fed[i] <= lo \/ b <= fed[i]
    BY <1>0, <2>1, MinutesAre DEF Spanned, SomeBars
  <2>3. /\ t \in Seq(Minutes) /\ Sorted(t) /\ Upto(t, b) /\ \A j \in 1..Len(t) : lo < t[j]
        /\ Len(bs) \in Nat /\ LastOf(bs) = b
    BY <1>0, <2>1, <2>2, ArrivalsAre DEF t
  <2>4. \A i \in 1..Len(fed) : fed[i] <= lo \/ i \in Overtakers
    BY <1>0, <1>2, <2>2 DEF Overtakers
  <2>5. \A j \in 1..Len(t) : t[j] \in Nat
    BY <2>3, ElementOfSeq, MinutesAre
  <2> HIDE DEF b, lo
  <2>6. \A i \in 1..Len(fed), j \in 1..Len(t) : i \in Overtakers \/ fed[i] <= t[j]
    BY <1>0, <2>2, <2>3, <2>4, <2>5
  <2>7. fed' \in Seq(Minutes) /\ OrderStep
    BY <1>0, <1>1, <2>3, <2>6, JoinKeeps DEF OrderStep
  <2>8. b <= MinuteOf(now)
    BY <1>0, <2>2 DEF BarInv, BarParts
  <2>9. Upto(fed', MinuteOf(now))
    BY <1>0, <1>1, <2>2, <2>3, <2>8, UptoMore, JoinUpto
  <2>10. QED
    BY <1>0, <1>1, <2>2, <2>3, <2>7, <2>9
<1>3. CASE fetch = NoFetch /\ bs = <<agg>> /\ agg.min # 0
  <2>1. /\ t \in Seq(Minutes) /\ Sorted(t) /\ \A j \in 1..Len(t) : t[j] = agg.min
        /\ Len(bs) \in Nat /\ LastOf(bs) = agg.min
    BY <1>0, <1>3, OneBar DEF t
  <2>2. Upto(fed, agg.min) /\ agg.min <= MinuteOf(now)
    BY <1>3 DEF BarInv, BarParts
  <2>3. \A i \in 1..Len(fed), j \in 1..Len(t) : i \in Overtakers \/ fed[i] <= t[j]
    BY <2>1, <2>2 DEF Upto
  <2>4. fed' \in Seq(Minutes) /\ OrderStep
    BY <1>0, <1>1, <2>1, <2>3, JoinKeeps DEF OrderStep
  <2>5. Upto(t, MinuteOf(now))
    BY <2>1, <2>2 DEF Upto
  <2>6. Upto(fed', MinuteOf(now))
    BY <1>0, <1>1, <2>1, <2>5, JoinUpto
  <2>7. QED
    BY <1>0, <1>1, <2>1, <2>4, <2>6
<1>4. CASE bs = <<>>
  <2>1. t \in Seq(Minutes) /\ Len(t) = 0 /\ Sorted(t) /\ Len(bs) = 0 /\ LastOf(bs) = last
    BY <1>4, NoBars DEF t
  <2>2. \A i \in 1..Len(fed), j \in 1..Len(t) : i \in Overtakers \/ fed[i] <= t[j]
    BY <2>1
  <2>3. fed' \in Seq(Minutes) /\ OrderStep
    BY <1>0, <1>1, <2>1, <2>2, JoinKeeps DEF OrderStep
  <2>4. Upto(t, MinuteOf(now))
    BY <2>1 DEF Upto
  <2>5. Upto(fed', MinuteOf(now))
    BY <1>0, <1>1, <2>1, <2>4, JoinUpto
  <2>6. QED
    BY <1>0, <1>1, <2>1, <2>3, <2>5
<1>5. QED
  BY <1>2, <1>3, <1>4 DEF Flushes, PartialBar

\* After a flush the stream is gone or new: nothing is half built, and what the router
\* last saw no longer counts.
LEMMA FlushSettles ==
    ASSUME BarInv, now' = now, NEW bs \in Flushes, Counted(bs), fetch' = NoFetch,
           agg' = NoBar, last' = 0 \/ (last' = LastOf(bs) /\ stream' = "none")
    PROVE  BarParts' /\ OrderStep
<1>1. /\ fed' \in Seq(Minutes) /\ received' \in Nat /\ LastOf(bs) \in AllMinutes
      /\ Upto(fed', MinuteOf(now)) /\ OrderStep
  BY FlushDelivers
<1>2. NoBar \in SomeBars /\ NoBar.min = 0 /\ 0 \in AllMinutes
  BY MinutesAre DEF NoBar, SomeBars, AllMinutes
<1>3. NoFetch \in [bar: SomeBars, since: AllMinutes, until: Nat]
  BY <1>2 DEF NoFetch
<1>4. agg' \in SomeBars /\ agg'.min = 0 /\ last' \in AllMinutes
  BY <1>1, <1>2
<1>5. last' = 0 \/ stream' = "none"
  OBVIOUS
<1>6. Upto(fed', MinuteOf(now'))
  BY <1>1
<1>7. fetch' \in [bar: SomeBars, since: AllMinutes, until: Nat]
  BY <1>3
<1>8. QED
  BY <1>1, <1>4, <1>5, <1>6, <1>7 DEF BarParts

\* No bar is delivered: nothing is new.
LEMMA NothingNew ==
    ASSUME fed \in Seq(Minutes), fed' = fed \/ fed' = <<>>
    PROVE  OrderStep
<1>1. Len(fed) \in Nat /\ (Len(fed') = Len(fed) \/ Len(fed') = 0)
  BY LenProperties
<1>2. NewBars = {}
  BY <1>1 DEF NewBars
<1>3. QED
  BY <1>2 DEF OrderStep

LEMMA QuietKeeps ==
    ASSUME BarInv, now' \in 0..Close, now <= now', UNCHANGED <<agg, fetch, fed, received>>,
           stream' = "none" => stream = "none",
           last' = 0 \/ (last' = last /\ (stream = "none" => stream' = "none"))
    PROVE  BarParts' /\ OrderStep
<1>0. /\ now \in Nat /\ now' \in Nat /\ MinuteOf(now) \in Nat /\ MinuteOf(now') \in Nat
      /\ MinuteOf(now) <= MinuteOf(now')
  <2>1. now \in Nat /\ now' \in Nat /\ now <= now'
    BY FeedAssumption DEF BarInv, TypeOK
  <2>2. QED
    BY <2>1, MinutesGrow
<1>1. /\ agg \in SomeBars /\ agg.min \in Nat /\ last \in AllMinutes /\ 0 \in AllMinutes
      /\ fetch \in [bar: SomeBars, since: AllMinutes, until: Nat]
      /\ fed \in Seq(Minutes) /\ received \in Nat /\ Upto(fed, MinuteOf(now))
      /\ (agg.min # 0 => Upto(fed, agg.min) /\ agg.min <= MinuteOf(now))
      /\ (last # 0 /\ fetch = NoFetch /\ stream # "none" => Upto(fed, last))
      /\ (fetch # NoFetch => Spanned)
      /\ (stream = "none" => agg = NoBar)
  BY MinutesAre DEF BarInv, BarParts, SomeBars, AllMinutes
<1>2. Upto(fed, MinuteOf(now'))
  BY <1>0, <1>1, UptoMore
<1>3. agg.min # 0 => agg.min <= MinuteOf(now')
  BY <1>0, <1>1
<1>4. fetch # NoFetch => Spanned'
  BY <1>1 DEF Spanned
<1>5. last' # 0 /\ fetch = NoFetch /\ stream' # "none" => Upto(fed, last')
  BY <1>1
<1>6. OrderStep
  BY <1>1, NothingNew
<1>7. QED
  BY <1>1, <1>2, <1>3, <1>4, <1>5, <1>6 DEF BarParts

\* A fetch goes out: the bars before its gap are delivered, its bar is the newest.
LEMMA FetchKeeps ==
    ASSUME BarInv, FetchStarts
    PROVE  BarParts' /\ OrderStep
<1>1. /\ UNCHANGED <<now, stream, agg, last, fed, received>>
      /\ fetch = NoFetch /\ stream # "none" /\ agg.min # 0 /\ last # 0 /\ agg.min - last >= 2
      /\ fetch' = [bar |-> agg, since |-> last, until |-> now + FetchTicks]
  BY DEF FetchStarts, FetchNeeded, Gap, countVars
<1>2. /\ agg \in SomeBars /\ agg.min \in Nat /\ last \in AllMinutes /\ last \in Nat
      /\ fed \in Seq(Minutes) /\ received \in Nat /\ Upto(fed, MinuteOf(now))
      /\ Upto(fed, agg.min) /\ agg.min <= MinuteOf(now) /\ Upto(fed, last)
  BY <1>1, MinutesAre DEF BarInv, BarParts, SomeBars
<1>3. now + FetchTicks \in Nat
  BY FeedAssumption DEF BarInv, TypeOK
<1>4. fetch' \in [bar: SomeBars, since: AllMinutes, until: Nat]
  BY <1>1, <1>2, <1>3
<1>5. fetch'.bar = agg /\ fetch'.since = last
  BY <1>1
<1>6. Spanned'
  BY <1>1, <1>2, <1>5 DEF Spanned, Upto
<1>7. OrderStep
  BY <1>1, <1>2, NothingNew
<1>8. fetch' # NoFetch
  <2>1. NoFetch.since = 0
    BY DEF NoFetch
  <2>2. QED
    BY <1>1, <1>5, <2>1
<1>9. QED
  BY <1>1, <1>2, <1>4, <1>6, <1>7, <1>8 DEF BarParts

\* A tick: time is later than every bar delivered, and a bar is delivered when its
\* minute is over; so it is while a fetch is out.
LEMMA TickKeeps ==
    ASSUME BarInv, NEW b \in BOOLEAN, Tick(b)
    PROVE  BarParts' /\ OrderStep
<1> DEFINE m == MinuteOf(now')
           raw == [min |-> m, brk |-> b]
           more == [min |-> m, brk |-> b \/ agg.brk]
<1>1. /\ now \in Nat /\ now' \in Nat /\ now <= now' /\ now' <= Close
      /\ agg \in SomeBars /\ agg.min \in AllMinutes /\ agg.min \in Nat
      /\ last \in AllMinutes /\ fed \in Seq(Minutes) /\ received \in Nat
      /\ fetch \in [bar: SomeBars, since: AllMinutes, until: Nat]
      /\ fetch' = fetch /\ stream' = stream /\ stream = "live"
  BY FeedAssumption, MinutesAre DEF BarInv, TypeOK, BarParts, Tick, TimeLeft, SomeBars
<1>2. /\ m \in Nat \ {0} /\ MinuteOf(now) \in Nat /\ MinuteOf(Close) \in Nat
      /\ MinuteOf(now) <= m /\ m <= MinuteOf(Close) /\ m \in AllMinutes
  <2>1. /\ m \in Nat \ {0} /\ MinuteOf(now) \in Nat /\ MinuteOf(Close) \in Nat
        /\ MinuteOf(now) <= m /\ m <= MinuteOf(Close)
    BY <1>1, MinutesGrow, MinutesAre
  <2> HIDE DEF m
  <2>2. QED
    BY <2>1 DEF AllMinutes
<1>3. /\ (agg.min # 0 => Upto(fed, agg.min) /\ agg.min <= MinuteOf(now))
      /\ Upto(fed, MinuteOf(now))
      /\ (last # 0 /\ fetch = NoFetch => Upto(fed, last))
      /\ (fetch # NoFetch => Spanned)
  BY <1>1 DEF BarInv, BarParts
<1>4. \/ /\ agg.min # 0 /\ m > agg.min
         /\ agg' = raw /\ Counted(<<agg>>) /\ last' = agg.min
      \/ agg' = more /\ UNCHANGED <<fed, received, last>>
  BY DEF Tick, countVars
<1>5. /\ raw \in SomeBars /\ more \in SomeBars /\ raw.min = m /\ more.min = m
  <2>1. (b \/ agg.brk) \in BOOLEAN
    OBVIOUS
  <2> HIDE DEF m
  <2>2. QED
    BY <1>2, <2>1 DEF SomeBars
<1>6. m = MinuteOf(now')
  BY DEF m
<1> HIDE DEF m, raw, more
<1>7. CASE /\ agg.min # 0 /\ m > agg.min
           /\ agg' = raw /\ Counted(<<agg>>) /\ last' = agg.min
  <2> DEFINE t == MinsOf(<<agg>>)
  <2>1. fed' = fed \o t /\ received' = received + Len(<<agg>>)
    BY <1>7 DEF Counted, MinsOf
  <2>2. /\ t \in Seq(Minutes) /\ Sorted(t) /\ \A j \in 1..Len(t) : t[j] = agg.min
        /\ Len(<<agg>>) \in Nat
    BY <1>1, <1>7, OneBar
  <2> HIDE DEF t
  <2>3. Upto(fed, agg.min) /\ Upto(t, agg.min)
    BY <1>3, <1>7, <1>1, <2>2 DEF Upto
  <2>4. \A i \in 1..Len(fed), j \in 1..Len(t) : i \in Overtakers \/ fed[i] <= t[j]
    BY <2>2, <2>3 DEF Upto
  <2>5. fed' \in Seq(Minutes) /\ OrderStep
    BY <1>1, <2>1, <2>2, <2>4, JoinKeeps DEF OrderStep
  <2>6. Upto(fed', agg.min)
    BY <1>1, <2>1, <2>2, <2>3, JoinUpto
  <2>7. Upto(fed', m)
    BY <1>1, <1>2, <1>7, <2>5, <2>6, UptoMore
  <2>8. fetch # NoFetch => Spanned'
    <3> SUFFICES ASSUME fetch # NoFetch
                 PROVE  Spanned'
      OBVIOUS
    <3> DEFINE lo == fetch.since
               hi == fetch.bar.min
    <3>1. /\ hi # 0 /\ lo < hi /\ hi <= agg.min /\ hi \in Nat
          /\ \A i \in 1..Len(fed) : fed[i] <= lo \/ hi <= fed[i]
      BY <1>1, <1>3, MinutesAre DEF Spanned, SomeBars
    <3> HIDE DEF lo, hi
    <3>2. /\ Len(fed') = Len(fed) + Len(t) /\ Len(fed) \in Nat /\ Len(t) \in Nat
          /\ \A i \in 1..(Len(fed) + Len(t)) :
                fed'[i] = IF i <= Len(fed) THEN fed[i] ELSE t[i - Len(fed)]
      BY <1>1, <2>1, <2>2, ConcatProperties, LenProperties
    <3>3. ASSUME NEW i \in 1..Len(fed')
          PROVE  fed'[i] <= lo \/ hi <= fed'[i]
      <4>1. i \in 1..(Len(fed) + Len(t))
        BY <3>2
      <4>2. CASE i <= Len(fed)
        BY <3>1, <3>2, <4>1, <4>2
      <4>3. CASE i > Len(fed)
        <5>1. fed'[i] = agg.min
          BY <2>2, <3>2, <4>1, <4>3
        <5>2. QED
          BY <3>1, <5>1
      <4>4. QED
        BY <3>2, <4>1, <4>2, <4>3
    <3>4. hi <= agg'.min
      BY <1>1, <1>2, <1>5, <1>7, <3>1
    <3>5. QED
      BY <1>1, <3>1, <3>3, <3>4 DEF Spanned, lo, hi
  <2>9. /\ agg' \in SomeBars /\ agg'.min = m /\ last' \in AllMinutes /\ Upto(fed', last')
        /\ received' \in Nat
    BY <1>1, <1>5, <1>7, <2>1, <2>2, <2>6
  <2>10. Upto(fed', MinuteOf(now')) /\ agg'.min <= MinuteOf(now')
    BY <1>2, <1>6, <2>7, <2>9
  <2>11. QED
    BY <1>1, <2>5, <2>7, <2>8, <2>9, <2>10 DEF BarParts
<1>8. CASE agg' = more /\ UNCHANGED <<fed, received, last>>
  <2>1. Upto(fed, m)
    BY <1>1, <1>2, <1>3, UptoMore
  <2>2. agg' \in SomeBars /\ agg'.min = m
    BY <1>5, <1>8
  <2>3. fetch # NoFetch => Spanned'
    <3> SUFFICES ASSUME fetch # NoFetch
                 PROVE  Spanned'
      OBVIOUS
    <3>1. Spanned /\ fetch.bar.min \in Nat
      BY <1>1, <1>3, MinutesAre DEF SomeBars
    <3>2. agg.min <= MinuteOf(now)
      BY <1>1, <1>3, <3>1 DEF Spanned
    <3>3. fetch.bar.min <= agg'.min
      BY <1>1, <1>2, <2>2, <3>1, <3>2 DEF Spanned
    <3>4. QED
      BY <1>1, <1>8, <3>1, <3>3 DEF Spanned
  <2>4. OrderStep
    BY <1>1, <1>8, NothingNew
  <2>5. /\ Upto(fed', MinuteOf(now')) /\ Upto(fed', agg'.min) /\ agg'.min <= MinuteOf(now')
    BY <1>2, <1>6, <1>8, <2>1, <2>2
  <2>6. QED
    BY <1>1, <1>3, <1>8, <2>2, <2>3, <2>4, <2>5 DEF BarParts
<1>9. QED
  BY <1>4, <1>7, <1>8

LEMMA SessionKeeps ==
    ASSUME BarInv, FeedInv, now' \in 0..Close, stage \in {"done", "failed"}, SessionBegins
    PROVE  BarParts' /\ OrderStep
<1>1. UNCHANGED <<stream, agg, last, fetch, received>> /\ fed' = <<>>
  BY DEF SessionBegins, feedVars
<1>2. stream = "none"
  BY DEF FeedInv, NothingStreamsAfter
<1>3. agg = NoBar /\ fetch = NoFetch /\ agg.min = 0
  BY <1>2 DEF BarInv, BarParts, Spanned, NoBar
<1>4. <<>> \in Seq(Minutes) /\ Len(<<>>) = 0
  BY EmptySeq
<1>5. \A b : Upto(<<>>, b)
  BY <1>4 DEF Upto
<1>6. /\ agg \in SomeBars /\ last \in AllMinutes /\ received \in Nat /\ fed \in Seq(Minutes)
      /\ fetch \in [bar: SomeBars, since: AllMinutes, until: Nat]
  BY DEF BarInv, BarParts
<1>7. OrderStep
  BY <1>1, <1>6, NothingNew
<1>8. QED
  BY <1>1, <1>2, <1>3, <1>4, <1>5, <1>6, <1>7 DEF BarParts

LEMMA InitBars == Init => BarInv
<1> SUFFICES ASSUME Init
             PROVE  BarInv
  OBVIOUS
<1>1. /\ now = 0 /\ day = 1 /\ conn = TRUE /\ drops = 0 /\ reruns = 0 /\ stage = "pre"
      /\ watched = FALSE /\ checkAt = 0 /\ subscribed = FALSE /\ stream = "none"
      /\ agg = NoBar /\ last = 0 /\ fetch = NoFetch /\ received = 0 /\ eng = "waiting"
      /\ fed = <<>> /\ attempts = 0
  BY DEF Init
<1>2. 0 \in AllMinutes /\ AllMinutes = 0..MinuteOf(Close)
  BY MinutesAre DEF AllMinutes
<1>3. <<>> \in Seq(Minutes) /\ Len(<<>>) = 0
  BY EmptySeq
<1>4. NoBar \in SomeBars /\ NoBar.min = 0
  BY <1>2 DEF NoBar, SomeBars
<1>5. NoFetch \in [bar: SomeBars, since: AllMinutes, until: Nat]
  BY <1>2, <1>4 DEF NoFetch
<1>6. BarParts
  BY <1>1, <1>2, <1>3, <1>4, <1>5 DEF BarParts, Upto
<1>7. /\ now \in 0..Close /\ day \in 1..MaxDays /\ drops \in 0..MaxDrops
      /\ reruns \in 0..MaxReruns /\ checkAt \in Nat /\ received \in Nat /\ attempts \in Nat
      /\ conn \in BOOLEAN /\ watched \in BOOLEAN /\ subscribed \in BOOLEAN
  <2>1. Close \in Nat /\ MaxDays \in Nat \ {0} /\ MaxDrops \in Nat /\ MaxReruns \in Nat
    BY FeedAssumption
  <2>2. 0 \in 0..Close /\ 1 \in 1..MaxDays /\ 0 \in 0..MaxDrops /\ 0 \in 0..MaxReruns
    BY <2>1
  <2>3. QED
    BY <1>1, <2>2
<1>8. TypeOK
  BY <1>1, <1>2, <1>6, <1>7 DEF TypeOK, BarParts, SomeBars
<1>9. QED
  BY <1>6, <1>8 DEF BarInv

\* What each step leaves of the variables that the bars do not touch.
RestOK ==
    /\ now' \in 0..Close
    /\ day' \in 1..MaxDays
    /\ conn' \in BOOLEAN
    /\ drops' \in 0..MaxDrops
    /\ reruns' \in 0..MaxReruns
    /\ checkAt' \in Nat

LEMMA PartsMake ==
    ASSUME FeedInv', RestOK, BarParts'
    PROVE  BarInv'
<1>1. AllMinutes = 0..MinuteOf(Close)
  BY DEF AllMinutes
<1>2. QED
  BY <1>1 DEF FeedInv, Control, Stages, Streams, RestOK, BarParts, BarInv, TypeOK, SomeBars

\* The rest of the state keeps its types: the clock is bounded by its guards.
LEMMA RestKeeps ==
    ASSUME TypeOK, [Next]_vars
    PROVE  RestOK
<1>0. /\ now \in 0..Close /\ day \in 1..MaxDays /\ drops \in 0..MaxDrops
      /\ reruns \in 0..MaxReruns /\ checkAt \in Nat /\ conn \in BOOLEAN
      /\ Close \in Nat /\ MaxDays \in Nat /\ MaxDrops \in Nat /\ MaxReruns \in Nat /\ Grace \in Nat
  BY FeedAssumption DEF TypeOK
<1>1. CASE NoTick \/ \E b \in BOOLEAN : Tick(b)
  <2>1. now < Close /\ now' = now + 1 /\ UNCHANGED <<day, conn, drops, reruns, checkAt>>
    BY <1>1 DEF NoTick, Tick, TimeLeft, runnerVars
  <2>2. now' \in 0..Close
    BY <1>0, <2>1
  <2>3. QED
    BY <1>0, <2>1, <2>2 DEF RestOK
<1>2. CASE Drop
  <2>1. /\ drops < MaxDrops /\ drops' = drops + 1 /\ conn' = FALSE
        /\ UNCHANGED <<now, day, reruns, checkAt>>
    BY <1>2 DEF Drop, runnerVars
  <2>2. drops' \in 0..MaxDrops
    BY <1>0, <2>1
  <2>3. QED
    BY <1>0, <2>1, <2>2 DEF RestOK
<1>3. CASE \/ FetchStarts \/ Reconnect \/ ReconnectFails \/ NoCandidates \/ OrbComplete
           \/ WatchdogResubscribes \/ WatchdogContent \/ Complete
  BY <1>0, <1>3 DEF FetchStarts, Reconnect, ReconnectFails, NoCandidates, OrbComplete,
                    WatchdogResubscribes, WatchdogContent, Complete, runnerVars, RestOK
<1>4. CASE SubscribeSame \/ SubscribeAnew
  <2>1. checkAt' = now + Grace /\ UNCHANGED <<now, drops, day, reruns>>
    BY <1>4 DEF SubscribeSame, SubscribeAnew, GraceBegins
  <2>2. conn' = conn \/ conn' = TRUE
    BY <1>4 DEF SubscribeSame, SubscribeAnew
  <2>3. checkAt' \in Nat
    BY <1>0, <2>1
  <2>4. QED
    BY <1>0, <2>1, <2>2, <2>3 DEF RestOK
<1>5. CASE RunAgain
  <2>1. /\ reruns < MaxReruns /\ reruns' = reruns + 1
        /\ UNCHANGED <<now, day>>
    BY <1>5 DEF RunAgain
  <2>2. conn' = TRUE /\ UNCHANGED <<drops, checkAt>>
    BY <1>5 DEF RunAgain, SessionBegins
  <2>3. reruns' \in 0..MaxReruns
    BY <1>0, <2>1
  <2>4. QED
    BY <1>0, <2>1, <2>2, <2>3 DEF RestOK
<1>6. CASE NextDay
  <2>1. day < MaxDays /\ day' = day + 1 /\ now' = 0 /\ UNCHANGED reruns
    BY <1>6 DEF NextDay
  <2>2. conn' = TRUE /\ UNCHANGED <<drops, checkAt>>
    BY <1>6 DEF NextDay, SessionBegins
  <2>3. day' \in 1..MaxDays /\ now' \in 0..Close
    BY <1>0, <2>1
  <2>4. QED
    BY <1>0, <2>1, <2>2, <2>3 DEF RestOK
<1>7. CASE Done \/ UNCHANGED vars
  BY <1>0, <1>7 DEF Done, vars, runnerVars, RestOK
<1>8. QED
  BY <1>1, <1>2, <1>3, <1>4, <1>5, <1>6, <1>7 DEF Next

\* Every step keeps the bars in order, and what their order rests on.
LEMMA NextParts == FeedInv /\ BarInv /\ [Next]_vars => BarParts' /\ OrderStep
<1> SUFFICES ASSUME FeedInv, BarInv, [Next]_vars
             PROVE  BarParts' /\ OrderStep
  OBVIOUS
<1>0. /\ now \in 0..Close /\ now \in Nat /\ now <= now /\ now' \in 0..Close
      /\ fed \in Seq(Minutes)
  BY RestKeeps, MinutesAre DEF BarInv, TypeOK, RestOK
<1>1. ASSUME NEW b \in BOOLEAN, Tick(b)
      PROVE  BarParts' /\ OrderStep
  BY <1>1, TickKeeps
<1>2. CASE NoTick
  <2>1. now' = now + 1 /\ UNCHANGED <<agg, fetch, fed, received, stream, last>>
    BY <1>2 DEF NoTick, feedVars, countVars
  <2>2. QED
    BY <1>0, <2>1, QuietKeeps
<1>3. CASE FetchStarts
  BY <1>3, FetchKeeps
<1>4. CASE Drop
  <2>1. UNCHANGED <<now, agg, fetch, fed, received, last>>
    BY <1>4 DEF Drop, countVars
  <2>2. stream' = "none" => stream = "none"
    BY <1>4 DEF Drop
  <2>3. now' \in 0..Close /\ now <= now' /\ (stream = "none" => stream' = "none")
    BY <1>0, <1>4, <2>1 DEF Drop
  <2>4. QED
    BY <2>1, <2>2, <2>3, QuietKeeps
<1>5. CASE NoCandidates \/ OrbComplete \/ SubscribeSame \/ WatchdogContent
           \/ Done \/ UNCHANGED vars
  <2>1. UNCHANGED <<now, agg, fetch, fed, received, last, stream>>
    <3>1. CASE NoCandidates \/ OrbComplete
      BY <3>1 DEF NoCandidates, OrbComplete, feedVars, countVars
    <3>2. CASE SubscribeSame
      BY <3>2 DEF SubscribeSame, GraceBegins, feedVars, countVars
    <3>3. CASE WatchdogContent
      BY <3>3 DEF WatchdogContent, feedVars, countVars
    <3>4. CASE Done \/ UNCHANGED vars
      BY <3>4 DEF Done, vars, feedVars, countVars
    <3>5. QED
      BY <1>5, <3>1, <3>2, <3>3, <3>4
  <2>2. now' \in 0..Close /\ now <= now'
    BY <1>0, <2>1
  <2>3. QED
    BY <2>1, <2>2, QuietKeeps
<1>6. CASE Reconnect \/ ReconnectFails \/ WatchdogResubscribes \/ Complete
           \/ (SubscribeAnew /\ subscribed)
  <2>1. PICK bs \in Flushes :
          /\ Flushed(bs)
          /\ \/ \E ok \in BOOLEAN : Subscribed(ok, "none")
             \/ stream' = "none" /\ agg' = NoBar /\ last' \in {0, LastOf(bs)}
    BY <1>6 DEF Reconnect, Resubscribed, ReconnectFails, WatchdogResubscribes, Complete,
                SubscribeAnew, Closes, Unsubscribed
  <2>2. agg' = NoBar /\ (last' = 0 \/ (last' = LastOf(bs) /\ stream' = "none"))
    BY <2>1 DEF Subscribed
  <2>3. now' = now
    BY <1>6 DEF Reconnect, ReconnectFails, WatchdogResubscribes, Complete, SubscribeAnew,
                GraceBegins
  <2>4. Counted(bs) /\ fetch' = NoFetch
    BY <2>1 DEF Flushed
  <2>5. QED
    BY <2>2, <2>3, <2>4, FlushSettles
<1>7. CASE SubscribeAnew /\ ~subscribed
  <2>1. UNCHANGED <<now, fetch, fed, received>> /\ last' = 0
    BY <1>7 DEF SubscribeAnew, GraceBegins, Subscribed, countVars
  <2>2. Subscribed(TRUE, stream) \/ UNCHANGED <<stream, agg>>
    BY <1>7 DEF SubscribeAnew
  <2>3. agg' = agg /\ (stream' = "none" => stream = "none")
    BY <2>2 DEF Subscribed, BarInv, BarParts
  <2>4. now' \in 0..Close /\ now <= now'
    BY <1>0, <2>1
  <2>5. QED
    BY <2>1, <2>3, <2>4, QuietKeeps
<1>8. CASE RunAgain \/ NextDay
  <2>1. stage \in {"done", "failed"} /\ SessionBegins
    BY <1>8 DEF RunAgain, NextDay
  <2>2. QED
    BY <1>0, <2>1, SessionKeeps
<1>9. QED
  BY <1>1, <1>2, <1>3, <1>4, <1>5, <1>6, <1>7, <1>8 DEF Next

THEOREM BarInvariance == Spec => []BarInv
<1>1. FeedInv /\ FeedInv' /\ BarInv /\ [Next]_vars => BarInv'
  BY NextParts, RestKeeps, PartsMake DEF BarInv
<1>2. QED
  BY InitBars, <1>1, FeedInvariance, PTL DEF Spec

\* Every variable of the feed keeps its type: no replay, flush or aggregate yields a bar of
\* a minute outside the day.
THEOREM FeedTypes == Spec => []TypeOK
<1>1. BarInv => TypeOK
  BY DEF BarInv
<1>2. QED
  BY <1>1, BarInvariance, PTL

\* Whatever the loop delivers while a flush waits for its fetch, a listener gets an older
\* bar than one it had only from that flush, and only older than those bars.
THEOREM BarsStayInOrder == Spec => BarsInOrder
<1>1. FeedInv /\ BarInv /\ [Next]_vars =>
        [\A j \in NewBars : \A i \in (1..(j - 1)) \ Overtakers : fed'[i] <= fed'[j]]_vars
  BY NextParts DEF OrderStep
<1>2. QED
  BY <1>1, FeedInvariance, BarInvariance, PTL DEF Spec, BarsInOrder
=============================================================================
