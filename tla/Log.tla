---------------------------------- MODULE Log ----------------------------------
(***************************************************************************)
(* Log files (log/log.c): a table of open files, each with the least level *)
(* of the messages that it wants and the choice between local time and     *)
(* UTC.                                                                    *)
(***************************************************************************)
EXTENDS Integers, FiniteSets, FiniteSetsExt, SequencesExt

CONSTANTS
    Levels,         \* how severe messages can be
    MaxLogs,        \* the size of the table, 256 in the code
    MaxMessages     \* bound on the number of messages

VARIABLES
    logs,           \* the table, a sequence of [min, uselocaltime]
    logison,
    closed,         \* whether log_close has been called
    text,           \* what each log got, a sequence of [number, localtime]
    messages,       \* how many messages there have been
    since,          \* how many there had been when the level of each log was set
    ret             \* what the last call returned, 0 when nothing

vars == <<logs, logison, closed, text, messages, since, ret>>

Init ==
    /\ logs = <<>>
    /\ logison = TRUE
    /\ closed = FALSE
    /\ text = <<>>
    /\ messages = 0
    /\ since = <<>>
    /\ ret = 0

-----------------------------------------------------------------------------
\* log_close leaves the closed files in the table.  Clients must not call anything
\* after it that uses a log: the program would write to closed files.  (A file that
\* is there already can be added again: its messages are those of both logs.)
LogAdd(level) ==
    /\ ~closed
    /\ IF Len(logs) = MaxLogs THEN ret' = -1 /\ UNCHANGED <<logs, text, since>>
       ELSE /\ logs' = Append(logs, [min |-> level, uselocaltime |-> FALSE])
            /\ text' = Append(text, <<>>)
            /\ since' = Append(since, messages)
            /\ ret' = Len(logs)
    /\ UNCHANGED <<logison, closed, messages>>

\* log_open does what log_add does, when it can open the file.
LogOpenFails ==
    /\ ~closed
    /\ ret' = -1
    /\ UNCHANGED <<logs, logison, closed, text, messages, since>>

LogSetLevel(i, level) ==
    /\ ~closed
    /\ logs' = [logs EXCEPT ![i].min = level]
    /\ since' = [since EXCEPT ![i] = messages]
    /\ UNCHANGED <<logison, closed, text, messages>>
    /\ ret' = 0

\* (Bound: clients choose the time before they log anything.)
LogSetLocaltime(i, use) ==
    /\ ~closed /\ messages = 0
    /\ logs' = [logs EXCEPT ![i].uselocaltime = use]
    /\ UNCHANGED <<logison, closed, text, messages, since>>
    /\ ret' = 0

LogClose ==
    /\ ~closed
    /\ closed' = TRUE
    /\ ret' \in IF logs = <<>> THEN {0} ELSE {0, -1}
    /\ UNCHANGED <<logs, logison, text, messages, since>>

LogOff ==
    /\ logison' = FALSE
    /\ UNCHANGED <<logs, closed, text, messages, since>>
    /\ ret' = 0

LogOn ==
    /\ logison' = TRUE
    /\ UNCHANGED <<logs, closed, text, messages, since>>
    /\ ret' = 0

\* Faulty variant of Wanting: the loop ends before the last log.
WantingButLast(level) ==
    {i \in DOMAIN logs : logison /\ i < Len(logs) /\ level >= logs[i].min}

Wanting(level) == {i \in DOMAIN logs : logison /\ level >= logs[i].min}

\* log_printf, and log_chat to log_fatal, which are the same with a fixed level.
\* The first log that wants the message formats the time, for all of them.
LogPrintf(level) ==
    /\ ~closed /\ messages < MaxMessages
    /\ LET wanting == Wanting(level)
           message == [number |-> messages + 1,
                       localtime |-> logs[Min(wanting)].uselocaltime]
       IN  text' = [i \in DOMAIN logs |->
                        IF i \in wanting THEN Append(text[i], message) ELSE text[i]]
    /\ messages' = messages + 1
    /\ UNCHANGED <<logs, logison, closed, since>>
    /\ ret' = 0

Next ==
    \/ LogOpenFails \/ LogClose \/ LogOff \/ LogOn
    \/ \E level \in Levels :
        \/ LogPrintf(level) \/ LogAdd(level)
        \/ \E i \in DOMAIN logs : LogSetLevel(i, level)
    \/ \E i \in DOMAIN logs, use \in BOOLEAN : LogSetLocaltime(i, use)

Spec == Init /\ [][Next]_vars

-----------------------------------------------------------------------------
\* Properties.

Numbers(i) == {message.number : message \in Range(text[i])}

\* A log that wants no less than another has every message that the other got since
\* their levels were set; and each log has its messages once, in their order.
NoLogMissesMessages ==
    \A i \in DOMAIN logs :
        /\ \A k \in 2..Len(text[i]) : text[i][k - 1].number < text[i][k].number
        /\ \A j \in DOMAIN logs : logs[i].min <= logs[j].min =>
            \A n \in Numbers(j) : n > since[i] /\ n > since[j] => n \in Numbers(i)

\* What the manual says of the time (man/log.3:86-88): each log can be set to use
\* local time.
LogsUseTheirTime ==
    [][\A i \in DOMAIN text : text'[i] # text[i] =>
        Last(text'[i]).localtime = logs[i].uselocaltime]_vars
===============================================================================
