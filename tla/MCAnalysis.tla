----------------------------- MODULE MCAnalysis -----------------------------
(***************************************************************************)
(* Analysis on every layout of a device of four bytes with up to two       *)
(* allocations beside a small device, and, for the window search, on every *)
(* sequence of up to three reservations around the horizon.                *)
(***************************************************************************)
EXTENDS Analysis

Classes ==
    {[movability |-> "RELEASEABLE", reserved |-> FALSE, policy_protected |-> FALSE],
     [movability |-> "MOVABLE_LIVE", reserved |-> FALSE, policy_protected |-> FALSE],
     [movability |-> "EVICTABLE", reserved |-> TRUE, policy_protected |-> FALSE],
     [movability |-> "UNKNOWN", reserved |-> FALSE, policy_protected |-> FALSE],
     [movability |-> "IMMOVABLE", reserved |-> FALSE, policy_protected |-> FALSE]}

Allocs(maxLen, classes) ==
    {[offset |-> o, length |-> l, movability |-> c.movability, reserved |-> c.reserved,
      policy_protected |-> c.policy_protected] : o \in 0 .. 3, l \in 1 .. maxLen, c \in classes}

Layouts(cap, ids, allocs) ==
    {f \in UNION {[S -> {a \in allocs : a.offset + a.length <= cap}] : S \in SUBSET ids} :
        \A i, j \in DOMAIN f : i # j => Cells(f[i]) \cap Cells(f[j]) = {}}

BigDevices == {[cap |-> 4, group |-> 1, allocs |-> f] :
                  f \in Layouts(4, {1, 2}, Allocs(2, Classes))}
SmallDevices == {[cap |-> 2, group |-> NoGroup, allocs |-> f] :
                  f \in Layouts(2, {3}, Allocs(1, {[movability |-> "RELEASEABLE", reserved |-> FALSE,
                                                    policy_protected |-> FALSE]}))}

Want(count, per, aggregate, group, duration) ==
    [count |-> count, perDevice |-> per, aggregate |-> aggregate, contiguous |-> per,
     group |-> group, duration |-> duration]

Space ==
    [fleets |-> BigDevices \X SmallDevices, provs |-> {"MEASURED"}, timetables |-> {<<>>},
     demands |-> {Want(n, per, 2 + extra, g, NoDuration) :
                     n \in {0, 2}, per \in {2, 3}, extra \in {0, 2}, g \in {NoGroup, 1}}]

(* No evidence, or no device. *)
Blind ==
    [fleets |-> {<<d>> : d \in SmallDevices} \cup {<<>>}, provs |-> {"MEASURED", "UNKNOWN"},
     timetables |-> {<<>>}, demands |-> {Want(1, 2, 2, NoGroup, NoDuration)}]

Spans(last, kinds) ==
    {s \in [start : 0 .. last, end : 0 .. last, hard : kinds] : s.start < s.end}

(* Two reservations that may cross the horizon, or three that do not. *)
Time(timetables) ==
    [fleets |-> {<<[cap |-> 2, group |-> 1, allocs |-> <<>>]>>}, provs |-> {"MEASURED"},
     timetables |-> timetables,
     demands |-> {Want(1, 1, 1, NoGroup, len) : len \in 0 .. 3}]

(* Something to reclaim and a reservation that may cross the horizon. *)
Booked ==
    [fleets |-> {<<d>> : d \in SmallDevices}, provs |-> {"MEASURED"},
     timetables |-> {<<s>> : s \in Spans(7, {FALSE})},
     demands |-> {Want(1, 2, 2, NoGroup, len) : len \in 1 .. 3}]

MCFamilies ==
    {Space, Blind, Booked,
     Time({<<s>> : s \in Spans(7, {TRUE})} \cup {<<>>}),
     Time(Spans(7, BOOLEAN) \X Spans(7, {FALSE})),
     Time(Spans(5, {FALSE}) \X Spans(5, {FALSE}) \X Spans(5, {FALSE}))}
=============================================================================
