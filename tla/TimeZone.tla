------------------------------ MODULE TimeZone ------------------------------
(***************************************************************************)
(* Time zones: src/base/TimeZone.cc, the reading of a zone file and the    *)
(* conversions between UTC and local time.                                 *)
(*                                                                         *)
(* The file may be missing, be no zone file, or end at any read.  What a   *)
(* short read does depends on which read it is: readBytes and readUInt8    *)
(* throw logic_error, which readTimeZoneFile catches, keeping what it has  *)
(* and returning true; readInt32 throws a string, which leaves the         *)
(* constructor.                                                            *)
(*                                                                         *)
(* Time is counted in ticks, Hour of them to an hour.  The C library's     *)
(* timegm and gmtime_r, which only lay a count of seconds out as a date,   *)
(* are left out: a broken-down time is the count it stands for.            *)
(***************************************************************************)
EXTENDS Integers, Sequences, FiniteSets

CONSTANTS
    Hour,       \* ticks in an hour
    Files,      \* the zone files: times, index (from 0), types
    East,       \* the offsets of zones made without a file
    Times       \* the UTC times converted

ZoneTypes == [off : Int, dst : BOOLEAN]

\* A zone file: the times of its transitions, which type each begins, the types.
ZoneFiles == [times : Seq(Int), index : Seq(Nat), types : Seq(ZoneTypes)]

\* The times ascend, as RFC 8536 has it and lower_bound needs it.
ASSUME ZoneAssumption ==
    /\ Hour \in Nat \ {0}
    /\ East \subseteq Int /\ Times \subseteq Int
    /\ Files \subseteq ZoneFiles
    /\ \A f \in Files :
        /\ Len(f.index) = Len(f.times)
        /\ \A i \in DOMAIN f.index : f.index[i] \in 0 .. Len(f.types) - 1
        /\ \A i, j \in DOMAIN f.times : i < j => f.times[i] < f.times[j]

VARIABLES
    zonefile,       \* the file being read
    stage,          \* where readTimeZoneFile is, "done" or "threw"
    data            \* TimeZone::Data: transitions, localtimes, named

zoneVars == <<zonefile, stage, data>>

NoData == [transitions |-> <<>>, localtimes |-> <<>>, named |-> FALSE]

-----------------------------------------------------------------------------
(* readTimeZoneFile *)

\* TimeZone(eastOfUtc, name) or TimeZone(zonefile), which opens the file.
ZoneInit ==
    \/ /\ zonefile \in Files
       /\ stage \in {"head", "done"}    \* "done": no such file
       /\ data = NoData
    \/ \E east \in East :
        /\ zonefile = [times |-> <<>>, index |-> <<>>, types |-> <<[off |-> east, dst |-> FALSE]>>]
        /\ stage = "done"
        /\ data = [transitions |-> <<>>, localtimes |-> zonefile.types, named |-> TRUE]

At(s) == stage = s
\* A read succeeds, or fails with an exception that is caught or is not.
GoesOn(s) == stage' = s
Caught == stage' = "done"
Uncaught == stage' = "threw"

\* "TZif", the version and the padding, then six counts.
ReadHead ==
    /\ At("head")
    /\ GoesOn("times") \/ Caught \/ Uncaught
    /\ UNCHANGED <<zonefile, data>>

ReadTimes ==
    /\ At("times")
    /\ GoesOn("index") \/ (Uncaught /\ zonefile.times # <<>>)
    /\ UNCHANGED <<zonefile, data>>

ReadIndex ==
    /\ At("index")
    /\ GoesOn("types") \/ (Caught /\ zonefile.times # <<>>)
    /\ UNCHANGED <<zonefile, data>>

\* The types that were whole when the file ended stay in data.
ReadTypes ==
    /\ At("types")
    /\ \E n \in 0 .. Len(zonefile.types) :
        /\ data' = [data EXCEPT !.localtimes = SubSeq(zonefile.types, 1, n)]
        /\ IF n = Len(zonefile.types) THEN GoesOn("transitions") ELSE Caught \/ Uncaught
    /\ UNCHANGED zonefile

\* transitions.push_back for each time: nothing is read.
MakeTransitions ==
    /\ At("transitions")
    /\ data' = [data EXCEPT !.transitions =
        [i \in DOMAIN zonefile.times |->
            [gmttime |-> zonefile.times[i],
             localtime |-> zonefile.times[i] + data.localtimes[zonefile.index[i] + 1].off,
             localtimeIdx |-> zonefile.index[i]]]]
    /\ GoesOn("abbreviation")
    /\ UNCHANGED zonefile

ReadAbbreviation ==
    /\ At("abbreviation")
    /\ stage' = "done"
    /\ \E whole \in BOOLEAN : data' = [data EXCEPT !.named = whole]
    /\ UNCHANGED zonefile

ZoneNext ==
    \/ ReadHead
    \/ ReadTimes
    \/ ReadIndex
    \/ ReadTypes
    \/ MakeTransitions
    \/ ReadAbbreviation

ZoneSpec == ZoneInit /\ [][ZoneNext]_zoneVars

-----------------------------------------------------------------------------
(* Conversions *)

\* std::lower_bound: the first position not before the key.
lower_bound(keys, key) ==
    CHOOSE i \in 1 .. Len(keys) + 1 :
        /\ \A j \in 1 .. i - 1 : keys[j] < key
        /\ i <= Len(keys) => keys[i] >= key

\* keys: the gmttime or the localtime of the transitions, as Comp says.
findLocaltime(keys, key) ==
    LET at == lower_bound(keys, key)
        transI == IF at <= Len(keys) /\ keys[at] = key THEN at ELSE at - 1
    IN  IF Len(keys) = 0 \/ key < keys[1]
        THEN data.localtimes[1]
        ELSE data.localtimes[data.transitions[transI].localtimeIdx + 1]

GmtTimes == [i \in DOMAIN data.transitions |-> data.transitions[i].gmttime]
LocalTimes == [i \in DOMAIN data.transitions |-> data.transitions[i].localtime]

\* seconds: the local time as if it were UTC; isdst: tm_isdst.
toLocalTime(seconds) ==
    LET local == findLocaltime(GmtTimes, seconds)
    IN  [seconds |-> seconds + local.off, isdst |-> local.dst]

\* tm_hour and tm_min
TimeOfDay(tm) == tm.seconds % (24 * Hour)

\* Variant of fromLocalTime: no second look at the hour that clocks show twice.
fromLocalTimeOnce(localTm) ==
    localTm.seconds - findLocaltime(LocalTimes, localTm.seconds).off

fromLocalTime(localTm) ==
    LET seconds == localTm.seconds
        local == findLocaltime(LocalTimes, seconds)
        tryTm == toLocalTime(seconds - local.off)
        earlier == localTm.isdst /\ ~ tryTm.isdst /\ TimeOfDay(tryTm) = TimeOfDay(localTm)
    IN  (IF earlier THEN seconds - Hour ELSE seconds) - local.off

-----------------------------------------------------------------------------
(* The zone's history as the file has it: the type in force at a time. *)
TypeAt(f, t) ==
    LET past == {i \in DOMAIN f.times : f.times[i] <= t}
    IN  IF past = {} THEN f.types[1]
        ELSE f.types[f.index[CHOOSE i \in past : \A j \in past : j <= i] + 1]

\* Clocks are only ever set back by an hour, from summer time, and are not
\* changed again within an hour.
OnlySummerEnds(f) ==
    /\ \A i \in DOMAIN f.times :
        LET old == TypeAt(f, f.times[i] - 1)
            new == f.types[f.index[i] + 1]
        IN  new.off < old.off => old.off = new.off + Hour /\ old.dst /\ ~ new.dst
    /\ \A i, j \in DOMAIN f.times : i < j => f.times[i] + Hour < f.times[j]

\* The file was read to the end of its transitions.
Read == stage = "done" /\ Len(data.localtimes) = Len(zonefile.types)
            /\ Len(data.transitions) = Len(zonefile.times)

(* A zone whose file was read, but for its names perhaps, has at every     *)
(* time the offset the file gives it; and where clocks are set back only   *)
(* for the end of summer time, by an hour, each UTC time comes back from   *)
(* local time, those of the hour that local clocks show twice included:    *)
(* readTimeZoneFile, findLocaltime and fromLocalTime's second look.  A zone *)
(* that was read in part has one of the file's types and no transition.    *)
LocalTimeReturns ==
    stage = "done" /\ data.localtimes # <<>> =>
        \/ /\ Read
           /\ \A t \in Times :
                LET tm == toLocalTime(t) IN
                /\ tm.seconds = t + TypeAt(zonefile, t).off
                /\ tm.isdst = TypeAt(zonefile, t).dst
                /\ OnlySummerEnds(zonefile) => fromLocalTime(tm) = t
        \/ /\ data.transitions = <<>> /\ ~ data.named
           /\ \A t \in Times : fromLocalTime(toLocalTime(t)) = t
=============================================================================
