----------------------------- MODULE MCBaseValues -----------------------------
(* Values of base/ and net/ that share nothing: each behaviour is of one.     *)
EXTENDS Calendar, TimeZone, LogStream, Buffer

CONSTANTS char1, char2, zero

VARIABLE part

MCYears == 1890 .. 2110
MCMoments == {0, 59, 3600, 86399}

\* Half hours: standard and summer time, a zone that changes its standard time,
\* one whose summer time is half an hour, one west of Greenwich.
MCTypes == {
    <<[off |-> 2, dst |-> FALSE], [off |-> 4, dst |-> TRUE]>>,
    <<[off |-> 1, dst |-> FALSE], [off |-> 2, dst |-> FALSE], [off |-> 4, dst |-> TRUE]>>,
    <<[off |-> -10, dst |-> FALSE], [off |-> -8, dst |-> TRUE], [off |-> -12, dst |-> FALSE]>>,
    <<[off |-> 21, dst |-> FALSE], [off |-> 22, dst |-> TRUE]>>}
MCTransitions == {<<>>, <<7>>, <<7, 30>>, <<-20, 7, 30>>, <<7, 30, 58>>}
MCFiles == UNION {UNION {
    {[times |-> times, index |-> index, types |-> types] :
        index \in [1 .. Len(times) -> 0 .. Len(types) - 1]} :
    times \in MCTransitions} : types \in MCTypes}
MCEast == {0, 16, -7}
MCTimes == -50 .. 80

MCIntegers == {0, 7, 10, -1, -10, 2147483647, -2147483647 - 1}

MCByte == {char1, char2, zero}
MCChunks == {<<>>, <<char1>>, <<char2>>, <<char1, char2>>}

\* What the parts that are not checked hold.
Epoch == [year |-> 1970, month |-> 1, day |-> 1, wday |-> Thursday, yday |-> 0]

NoDates == date = kJulianDayOf1970_01_01 /\ wall = Epoch
NoZone == zonefile = <<>> /\ stage = "none" /\ data = NoData
NoStream == stream = NewStream /\ given = <<>> /\ statement = "none"

Init ==
    \/ part = "dates" /\ DateInit /\ NoZone /\ NoStream /\ BufferInit
    \/ part = "zones" /\ ZoneInit /\ NoDates /\ NoStream /\ BufferInit
    \/ part = "stream" /\ StreamInit /\ NoDates /\ NoZone /\ BufferInit
    \/ part = "buffer" /\ BufferInit /\ NoDates /\ NoZone /\ NoStream

Next ==
    /\ UNCHANGED part
    /\ \/ part = "dates" /\ Tomorrow /\ UNCHANGED <<zoneVars, streamVars, buf>>
       \/ part = "zones" /\ ZoneNext /\ UNCHANGED <<dateVars, streamVars, buf>>
       \/ part = "stream" /\ StreamNext /\ UNCHANGED <<dateVars, zoneVars, buf>>
       \/ part = "buffer" /\ BufferNext /\ UNCHANGED <<dateVars, zoneVars, streamVars>>

Spec == Init /\ [][Next]_<<part, dateVars, zoneVars, streamVars, buf>>
=============================================================================
