--------------------------- MODULE NetworkQuality ---------------------------
(***************************************************************************)
(* The bars of the connection's quality (network_quality.rs): statistics   *)
(* of the protocol come about every second, with a round-trip time that    *)
(* was measured then or earlier; the session's clock ages what is shown;   *)
(* the device may sleep, with its monotonic clock stopped. Times are ages  *)
(* in seconds, kept up to where they make no difference any more; grades   *)
(* and the axis are levels.                                                *)
(***************************************************************************)
EXTENDS Integers, FiniteSetsExt

CONSTANTS
    Freshness,      \* FRESHNESS
    RttFreshness,   \* RTT_FRESHNESS
    Recovery,       \* RECOVERY
    Window,         \* WINDOW
    Levels          \* Grade and AXIS_STEPS: 1..Levels, larger is worse

VARIABLES
    net,            \* History
    stats,          \* the library's ConnectionStats: the last measurement
    slept,          \* seconds the wall clock is ahead since the last advance
    watch           \* history: how long nothing above a level was observed

netVars == <<net, stats, slept, watch>>

Never == -1
NoRecovery == [level |-> 0, age |-> 0]
Level == 1..Levels
Older(age, by, cap) == IF age = Never THEN Never ELSE Min({age + by, cap})

\* History::new.
NewHistory ==
    [event |-> Never, rtt |-> Never, shown |-> FALSE, icon |-> 0, axis |-> 1,
     iconRecovery |-> NoRecovery, axisRecovery |-> NoRecovery, samples |-> {}, late |-> FALSE]
NotWatched == [icon |-> [level \in Level |-> Never], axis |-> [level \in Level |-> Never],
               last |-> Never]

NetInit ==
    /\ net = NewHistory /\ slept = 0 /\ watch = NotWatched
    /\ stats = [level |-> 1, age |-> Never, new |-> FALSE]

-----------------------------------------------------------------------------
\* Mutant of Buffered: it falls to the first level that was wanted.
BufferedToTheFirst(current, wanted, recovery) ==
    LET begun == IF recovery = NoRecovery THEN [level |-> wanted, age |-> 0] ELSE recovery
    IN IF wanted >= current THEN [value |-> wanted, recovery |-> NoRecovery]
       ELSE IF begun.age >= Recovery THEN [value |-> begun.level, recovery |-> NoRecovery]
       ELSE [value |-> current, recovery |-> begun]

\* buffered: what rises is shown at once, what falls when Recovery is over, to the highest
\* level that was wanted meanwhile.
Buffered(current, wanted, recovery) ==
    LET begun == IF recovery = NoRecovery THEN [level |-> wanted, age |-> 0] ELSE recovery
        next == IF wanted > begun.level THEN [level |-> wanted, age |-> 0] ELSE begun
    IN IF wanted >= current THEN [value |-> wanted, recovery |-> NoRecovery]
       ELSE IF next.age >= Recovery THEN [value |-> next.level, recovery |-> NoRecovery]
       ELSE [value |-> current, recovery |-> next]

RttFresh(history) == history.rtt # Never /\ history.rtt <= RttFreshness

Blank(history) ==
    [history EXCEPT !.shown = FALSE, !.icon = 0, !.iconRecovery = NoRecovery,
                    !.axisRecovery = NoRecovery]

\* advance: a sleep longer than Freshness counts as time for the samples, and ends what was
\* known of the present.
Advanced ==
    LET asleep == slept > Freshness
        woken == IF asleep THEN [net EXCEPT !.event = Never, !.rtt = Never] ELSE net
        samples == {[s EXCEPT !.age = @ + (IF asleep THEN slept ELSE 0)] : s \in net.samples}
        kept == {s \in samples : s.age < Window}
        history == [woken EXCEPT !.samples = kept, !.late = FALSE,
                                 !.axis = IF asleep /\ kept = {} THEN 1 ELSE @]
    IN IF \/ history.event = Never \/ history.event > Freshness
          \/ ~history.shown \/ ~RttFresh(history)
         THEN Blank(history) ELSE history

\* publish, when there are statistics. A round-trip time is taken into the bars only when
\* it is new; the one of the same second gives way to it.
Published(history, worst, new) ==
    LET icon == IF history.icon = 0 THEN [value |-> worst, recovery |-> history.iconRecovery]
                ELSE Buffered(history.icon, worst, history.iconRecovery)
        samples == IF new
                     THEN {s \in history.samples : s.age # history.rtt}
                            \cup {[age |-> history.rtt, level |-> stats.level]}
                     ELSE history.samples
        peak == Max({s.level : s \in samples} \cup {1})
        axis == Buffered(history.axis, peak, history.axisRecovery)
    IN IF ~RttFresh(history) THEN Blank(history)
       ELSE [history EXCEPT !.shown = TRUE, !.samples = samples,
                !.icon = icon.value, !.iconRecovery = icon.recovery,
                !.axis = axis.value, !.axisRecovery = axis.recovery]

\* What an observer sees: a level that nothing exceeded since, without a gap.
Watched(continued, worst, peak) ==
    LET Run(was, seen) == [level \in Level |->
            IF seen > level THEN Never ELSE IF continued /\ was[level] # Never THEN was[level] ELSE 0]
    IN [icon |-> Run(watch.icon, worst), axis |-> Run(watch.axis, peak), last |-> 0]

-----------------------------------------------------------------------------
Waited(recovery) ==
    IF recovery = NoRecovery THEN recovery
    ELSE [recovery EXCEPT !.age = Older(recovery.age, 1, Recovery)]

\* A second passes, and the device may have slept for longer.
Tick(sleep) ==
    /\ slept' = Min({slept + sleep, Window + 1})
    /\ net' = [net EXCEPT !.event = Older(@, 1, Freshness + 1), !.rtt = Older(@, 1, RttFreshness + 1),
                 !.iconRecovery = Waited(@), !.axisRecovery = Waited(@),
                 !.samples = {[s EXCEPT !.age = Min({s.age + 1, Window})] : s \in @},
                 !.late = TRUE]
    /\ stats' = [stats EXCEPT !.age = Older(@, 1, RttFreshness + 1)]
    /\ watch' = [icon |-> [level \in Level |-> Older(watch.icon[level], 1 + sleep, Recovery)],
                 axis |-> [level \in Level |-> Older(watch.axis[level], 1 + sleep, Recovery)],
                 last |-> Older(watch.last, 1 + sleep, 2 * Freshness + 1)]

\* The library measures a round trip: resend.rs update_rtt.
Measure(level) ==
    /\ stats' = [level |-> level, age |-> 0, new |-> TRUE]
    /\ UNCHANGED <<net, slept, watch>>

\* NetworkStatsUpdated: update. The deviation and the loss make the worst of the grades.
Update(known, worst) ==
    LET new == known /\ stats.new
        before == Advanced
        heard == [before EXCEPT !.event = 0, !.rtt = IF new THEN stats.age ELSE @]
    IN /\ worst >= stats.level
       /\ net' = IF known THEN Published(heard, worst, new) ELSE Blank(heard)
       /\ stats' = [stats EXCEPT !.new = @ /\ ~known]
       /\ slept' = 0
       /\ watch' = IF ~net'.shown THEN NotWatched
                   ELSE Watched(watch.last # Never /\ watch.last <= 2 * Freshness, worst,
                                Max({s.level : s \in net'.samples} \cup {1}))

\* The session's clock: expire, once for a second.
Expire ==
    /\ net.event > Freshness \/ net.rtt > RttFreshness
    /\ net.late
    /\ net' = Advanced /\ slept' = 0
    /\ UNCHANGED <<stats, watch>>

\* The app is in front again: resume.
Resume ==
    /\ net' = Advanced /\ slept' = 0
    /\ UNCHANGED <<stats, watch>>

\* Another server, or the connection is interrupted: the bars begin anew.
NewConnection ==
    /\ net' = NewHistory /\ slept' = 0 /\ watch' = NotWatched
    /\ stats' = [level |-> 1, age |-> Never, new |-> FALSE]

NetNext ==
    \/ \E sleep \in {0, 1, Freshness + 1} : Tick(sleep)
    \/ \E level \in Level : Measure(level)
    \/ \E known \in BOOLEAN, worst \in Level : Update(known, worst)
    \/ Expire \/ Resume \/ NewConnection

NetSpec == NetInit /\ [][NetNext]_netVars

-----------------------------------------------------------------------------
\* Nothing was heard for more than Freshness, or the last measurement is stale: what is
\* shown next begins anew.
Interrupted == watch.last > Freshness \/ net.rtt > RttFreshness

\* In an observation without interruption an icon gets better, and an axis gets shorter,
\* only after Recovery seconds in which nothing worse was observed ("Both downward
\* transitions require continuous observations", network_quality.rs:103). An axis may
\* begin anew after a sleep.
RecoveryIsObserved ==
    /\ 0 < net'.icon /\ net'.icon < net.icon =>
          Interrupted \/ watch'.icon[net'.icon] >= Recovery
    /\ net'.axis < net.axis /\ net' # NewHistory =>
          slept > Freshness \/ watch'.axis[net'.axis] >= Recovery

\* What is published is of now: statistics and a measurement that are fresh, bars of the window.
PublishedIsFresh ==
    ~net'.late =>
        /\ net'.shown => net'.event \in 0..Freshness /\ net'.rtt \in 0..RttFreshness
        /\ net'.icon # 0 => net'.shown
        /\ \A s \in net'.samples : s.age < Window

\* The icon and the bars tell how the connection is: nothing stale, and nothing better than
\* what was observed.
QualityIsObserved == [][RecoveryIsObserved /\ PublishedIsFresh]_netVars
=============================================================================
