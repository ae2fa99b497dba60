--------------------------- MODULE MCTimeResolver ---------------------------
EXTENDS TimeResolver

Says(year, date, time, whole) ==
    [year |-> year, date |-> date, time |-> time, whole |-> whole]

Full == Says(4, TRUE, TRUE, TRUE)
Parts == Says(4, TRUE, TRUE, FALSE)
Short == Says(2, TRUE, TRUE, TRUE)
Syslog == Says(0, TRUE, TRUE, FALSE)
ClockOnly == Says(0, FALSE, TRUE, FALSE)
Timeless == Says(0, FALSE, FALSE, FALSE)

MCFormat == {Full, Parts, Short, Syslog, ClockOnly, Timeless}

MCSample ==
    {{Full, Timeless}, {Parts}, {Short, ClockOnly}, {Syslog}, {Full, Syslog}, {Timeless}, {}}
=============================================================================
