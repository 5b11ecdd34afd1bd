----------------------------- MODULE Log_proofs -----------------------------
(***************************************************************************)
(* Proofs about module Log: with any number of logs that are opened, get   *)
(* other levels and are turned off and on while messages come, no log      *)
(* misses a message that a log wanting no more than it has got, and each   *)
(* log has its messages once, in their order.                              *)
(***************************************************************************)
EXTENDS Log, WellFoundedInduction, TLAPS

Entry   == [min : Levels, uselocaltime : BOOLEAN]
Message == [number : Nat, localtime : BOOLEAN]

TypeOK ==
    /\ logs \in Seq(Entry)
    /\ text \in Seq(Seq(Message))
    /\ since \in Seq(Nat)
    /\ Len(text) = Len(logs) /\ Len(since) = Len(logs)
    /\ messages \in Nat

\* The messages of a log have numbers that have been given out, in their order.
Ordered ==
    \A i \in 1..Len(logs) :
        /\ \A k \in 1..Len(text[i]) : text[i][k].number <= messages
        /\ \A k \in 2..Len(text[i]) : text[i][k - 1].number < text[i][k].number

\* What the log j has got since the levels were set the log i has, too.
Shared(i, j) ==
    logs[i].min <= logs[j].min =>
        \A n \in Numbers(j) : n > since[i] /\ n > since[j] => n \in Numbers(i)

\* The inductive invariant.
Inv ==
    /\ TypeOK
    /\ Ordered
    /\ \A i, j \in 1..Len(logs) : Shared(i, j)

-----------------------------------------------------------------------------
\* One of the logs that want a message is the first.
LEMMA FirstWants ==
    ASSUME NEW wanting, wanting \subseteq Nat, wanting # {}
    PROVE  Min(wanting) \in wanting
  <1>1. PICK i \in wanting : \A j \in wanting : ~ (<<j, i>> \in OpToRel(<, Nat))
    BY NatLessThanWellFounded, WFMin
  <1>2. \A j \in wanting : ~(j < i)
    BY <1>1 DEF OpToRel
  <1>3. \A j \in wanting : i <= j
    BY <1>2
  <1> QED
    BY <1>3 DEF Min

\* The numbers in a sequence of messages.
LEMMA NumbersOf ==
    ASSUME NEW i, text[i] \in Seq(Message)
    PROVE  \A n : n \in Numbers(i) <=> \E k \in 1..Len(text[i]) : text[i][k].number = n
  BY DEF Numbers, Range

\* No log has a number that has not been given out.
LEMMA NumbersGivenOut ==
    ASSUME TypeOK, Ordered, NEW i \in 1..Len(logs)
    PROVE  \A n \in Numbers(i) : n \in Nat /\ n <= messages
  <1>1. text[i] \in Seq(Message)
    BY DEF TypeOK
  <1>2. \A k \in 1..Len(text[i]) : text[i][k] \in Message
    BY <1>1
  <1> QED
    BY <1>1, <1>2, NumbersOf DEF Ordered, Message

\* When neither the messages of two logs change nor what they want, nor the moments
\* from which on that counts move back, they keep sharing.
LEMMA StillShared ==
    ASSUME NEW i, NEW j, Shared(i, j),
           text'[i] = text[i], text'[j] = text[j],
           logs'[i].min = logs[i].min, logs'[j].min = logs[j].min,
           since'[i] = since[i], since'[j] = since[j]
    PROVE  Shared(i, j)'
  BY DEF Shared, Numbers

\* A log shares what came after now with any other, for that is nothing.
LEMMA NothingYet ==
    ASSUME TypeOK, Ordered, TypeOK', Ordered', messages' = messages,
           NEW i \in 1..Len(logs'), NEW j \in 1..Len(logs'),
           since'[i] = messages \/ since'[j] = messages
    PROVE  Shared(i, j)'
  <1>1. \A n \in Numbers(j)' : n \in Nat /\ n <= messages
    <2>1. text'[j] \in Seq(Message)
      BY DEF TypeOK
    <2>2. \A k \in 1..Len(text'[j]) : text'[j][k] \in Message
      BY <2>1
    <2>3. \A k \in 1..Len(text'[j]) : text'[j][k].number <= messages
      BY DEF Ordered
    <2>4. \A k \in 1..Len(text'[j]) : text'[j][k].number \in Nat
      BY <2>2 DEF Message
    <2> QED
      BY <2>1, <2>3, <2>4 DEF Numbers, Range
  <1>2. messages \in Nat /\ since'[i] \in Nat /\ since'[j] \in Nat
    <2>1. /\ messages \in Nat /\ since' \in Seq(Nat)
          /\ i \in 1..Len(since') /\ j \in 1..Len(since')
      BY DEF TypeOK
    <2> QED
      BY <2>1
  <1> QED
    BY <1>1, <1>2 DEF Shared

-----------------------------------------------------------------------------
\* log_add.  The new log shares nothing yet.
LEMMA LogAddStep ==
    ASSUME Inv, NEW level \in Levels, LogAdd(level)
    PROVE  Inv'
  <1>1. TypeOK /\ Ordered /\ \A i, j \in 1..Len(logs) : Shared(i, j)
    BY DEF Inv
  <1>2. CASE Len(logs) = MaxLogs
    BY <1>1, <1>2 DEF LogAdd, Inv, TypeOK, Ordered, Shared, Numbers
  <1>3. CASE Len(logs) # MaxLogs
    <2> DEFINE new == [min |-> level, uselocaltime |-> FALSE]
    <2>1. /\ logs' = Append(logs, new) /\ text' = Append(text, <<>>)
          /\ since' = Append(since, messages) /\ messages' = messages
      BY <1>3 DEF LogAdd
    <2>2. /\ new \in Entry
          /\ <<>> \in Seq(Message) /\ messages \in Nat
      BY <1>1 DEF TypeOK, Entry
    <2>3. TypeOK'
      BY <1>1, <2>1, <2>2 DEF TypeOK
    <2>4. /\ Len(logs') = Len(logs) + 1 /\ Len(logs) \in Nat
          /\ text'[Len(logs) + 1] = <<>> /\ since'[Len(logs) + 1] = messages
          /\ \A i \in 1..Len(logs) :
                logs'[i] = logs[i] /\ text'[i] = text[i] /\ since'[i] = since[i]
      BY <1>1, <2>1, <2>2 DEF TypeOK
    <2>5. Ordered'
      <3>1. ASSUME NEW i \in 1..Len(logs')
            PROVE  /\ \A k \in 1..Len(text'[i]) : text'[i][k].number <= messages
                   /\ \A k \in 2..Len(text'[i]) : text'[i][k - 1].number < text'[i][k].number
        <4>1. CASE i = Len(logs) + 1
          BY <2>4, <4>1
        <4>2. CASE i \in 1..Len(logs)
          BY <1>1, <2>4, <4>2 DEF Ordered
        <4> QED
          BY <2>4, <4>1, <4>2
      <3> QED
        BY <2>1, <3>1 DEF Ordered
    <2>6. ASSUME NEW i \in 1..Len(logs'), NEW j \in 1..Len(logs')
          PROVE  Shared(i, j)'
      <3>1. CASE i \in 1..Len(logs) /\ j \in 1..Len(logs)
        BY <1>1, <2>4, <3>1, StillShared
      <3>2. CASE i = Len(logs) + 1 \/ j = Len(logs) + 1
        <4>1. since'[i] = messages \/ since'[j] = messages
          BY <2>4, <3>2
        <4> QED
          BY <1>1, <2>1, <2>3, <2>5, <4>1, NothingYet
      <3> QED
        BY <2>4, <3>1, <3>2
    <2> QED
      BY <2>3, <2>5, <2>6 DEF Inv
  <1> QED
    BY <1>2, <1>3

\* log_set_level.  What the log shares counts from now on.
LEMMA LogSetLevelStep ==
    ASSUME Inv, NEW level \in Levels, NEW l \in DOMAIN logs, LogSetLevel(l, level)
    PROVE  Inv'
  <1>1. TypeOK /\ Ordered /\ \A i, j \in 1..Len(logs) : Shared(i, j)
    BY DEF Inv
  <1>2. /\ text' = text /\ messages' = messages /\ l \in 1..Len(logs)
        /\ logs' = [logs EXCEPT ![l].min = level]
        /\ since' = [since EXCEPT ![l] = messages]
    BY <1>1 DEF LogSetLevel, TypeOK
  <1>3. Len(logs') = Len(logs) /\ Len(since') = Len(since)
    BY <1>1, <1>2 DEF TypeOK
  <1>4. TypeOK'
    <2>1. logs' \in Seq(Entry)
      <3>0. logs[l] \in Entry
        BY <1>1, <1>2 DEF TypeOK
      <3>1. [logs[l] EXCEPT !.min = level] \in Entry
        BY <3>0 DEF Entry
      <3> QED
        BY <1>1, <1>2, <3>1 DEF TypeOK
    <2>2. since' \in Seq(Nat)
      BY <1>1, <1>2 DEF TypeOK
    <2> QED
      BY <1>1, <1>2, <1>3, <2>1, <2>2 DEF TypeOK
  <1>5. Ordered'
    BY <1>1, <1>2, <1>3 DEF Ordered
  <1>6. /\ since'[l] = messages
        /\ \A i \in 1..Len(logs) : i # l => logs'[i] = logs[i] /\ since'[i] = since[i]
    BY <1>1, <1>2 DEF TypeOK
  <1>7. ASSUME NEW i \in 1..Len(logs'), NEW j \in 1..Len(logs')
        PROVE  Shared(i, j)'
    <2>1. CASE i # l /\ j # l
      BY <1>1, <1>2, <1>3, <1>6, <2>1, StillShared
    <2>2. CASE i = l \/ j = l
      <3>1. since'[i] = messages \/ since'[j] = messages
        BY <1>6, <2>2
      <3> QED
        BY <1>1, <1>2, <1>4, <1>5, <3>1, NothingYet
    <2> QED
      BY <2>1, <2>2
  <1> QED
    BY <1>4, <1>5, <1>7 DEF Inv

\* log_set_localtime.  What the logs want stays as it is.
LEMMA LogSetLocaltimeStep ==
    ASSUME Inv, NEW l \in DOMAIN logs, NEW use \in BOOLEAN, LogSetLocaltime(l, use)
    PROVE  Inv'
  <1>1. TypeOK /\ Ordered /\ \A i, j \in 1..Len(logs) : Shared(i, j)
    BY DEF Inv
  <1>2. /\ text' = text /\ messages' = messages /\ since' = since
        /\ logs' = [logs EXCEPT ![l].uselocaltime = use]
    BY DEF LogSetLocaltime
  <1>3. Len(logs') = Len(logs) /\ logs' \in Seq(Entry)
    <2>0. logs[l] \in Entry
      BY <1>1 DEF TypeOK
    <2>1. [logs[l] EXCEPT !.uselocaltime = use] \in Entry
      BY <2>0 DEF Entry
    <2> QED
      BY <1>1, <1>2, <2>1 DEF TypeOK
  <1>4. \A i \in 1..Len(logs) : logs'[i].min = logs[i].min
    BY <1>1, <1>2 DEF TypeOK
  <1>5. TypeOK' /\ Ordered'
    BY <1>1, <1>2, <1>3 DEF TypeOK, Ordered
  <1>6. ASSUME NEW i \in 1..Len(logs'), NEW j \in 1..Len(logs')
        PROVE  Shared(i, j)'
    BY <1>1, <1>2, <1>3, <1>4, StillShared
  <1> QED
    BY <1>5, <1>6 DEF Inv

\* log_printf.  A log gets the message if one gets it that wants no less.
LEMMA LogPrintfStep ==
    ASSUME Levels \subseteq Int, Inv, NEW level \in Levels, LogPrintf(level)
    PROVE  Inv'
  <1>1. TypeOK /\ Ordered /\ \A i, j \in 1..Len(logs) : Shared(i, j)
    BY DEF Inv
  <1> DEFINE wanting == Wanting(level)
             message == [number |-> messages + 1,
                         localtime |-> logs[Min(wanting)].uselocaltime]
  <1>2. /\ logs' = logs /\ since' = since /\ messages' = messages + 1
        /\ text' = [i \in DOMAIN logs |->
                        IF i \in wanting THEN Append(text[i], message) ELSE text[i]]
    BY DEF LogPrintf
  <1>3. /\ DOMAIN logs = 1..Len(logs) /\ Len(logs) \in Nat /\ messages \in Nat
        /\ \A i \in 1..Len(logs) : text[i] \in Seq(Message) /\ logs[i].min \in Int
    <2>1. \A i \in 1..Len(logs) : logs[i] \in Entry
      BY <1>1 DEF TypeOK
    <2>2. \A i \in 1..Len(logs) : logs[i].min \in Int
      BY <2>1 DEF Entry
    <2> QED
      BY <1>1, <2>2 DEF TypeOK
  <1>4. wanting \subseteq 1..Len(logs)
    BY <1>3 DEF Wanting
  <1>5. wanting # {} => message \in Message /\ message.number = messages + 1
    <2> SUFFICES ASSUME wanting # {}
                 PROVE  message \in Message /\ message.number = messages + 1
      OBVIOUS
    <2>1. Min(wanting) \in wanting
      BY <1>3, <1>4, FirstWants
    <2>2. logs[Min(wanting)].uselocaltime \in BOOLEAN
      <3>1. logs[Min(wanting)] \in Entry
        BY <1>1, <1>4, <2>1 DEF TypeOK
      <3> QED
        BY <3>1 DEF Entry
    <2> QED
      BY <1>3, <2>2 DEF Message
  <1>12. ASSUME NEW i \in 1..Len(logs), NEW j \in 1..Len(logs), logs[i].min <= logs[j].min,
                j \in wanting
         PROVE  i \in wanting
    <2>1. logison /\ level >= logs[j].min /\ level \in Int
      BY <1>12 DEF Wanting
    <2>2. level >= logs[i].min
      BY <1>3, <1>12, <2>1
    <2> QED
      BY <1>3, <2>1, <2>2 DEF Wanting
  <1> HIDE DEF wanting, message
  <1>6. \A i \in 1..Len(logs) :
            text'[i] = IF i \in wanting THEN Append(text[i], message) ELSE text[i]
    BY <1>2, <1>3
  <1>7. ASSUME NEW i \in 1..Len(logs)
        PROVE  text'[i] \in Seq(Message)
    <2>1. CASE i \in wanting
      <3>1. text[i] \in Seq(Message) /\ message \in Message
        BY <1>3, <1>5, <2>1
      <3>2. text'[i] = Append(text[i], message)
        BY <1>6, <2>1
      <3> QED
        BY <3>1, <3>2
    <2>2. CASE i \notin wanting
      BY <1>3, <1>6, <2>2
    <2> QED
      BY <2>1, <2>2
  <1>8. TypeOK'
    <2>1. text' \in [1..Len(logs) -> Seq(Message)]
      BY <1>2, <1>3, <1>7
    <2>2. text' \in Seq(Seq(Message)) /\ Len(text') = Len(logs)
      BY <1>3, <2>1
    <2> QED
      BY <1>1, <1>2, <2>2 DEF TypeOK
  <1>9. ASSUME NEW i \in 1..Len(logs)
        PROVE  /\ \A k \in 1..Len(text'[i]) : text'[i][k].number <= messages + 1
               /\ \A k \in 2..Len(text'[i]) : text'[i][k - 1].number < text'[i][k].number
    <2>1. /\ \A k \in 1..Len(text[i]) : text[i][k].number <= messages
          /\ \A k \in 2..Len(text[i]) : text[i][k - 1].number < text[i][k].number
      BY <1>1 DEF Ordered
    <2>2. \A k \in 1..Len(text[i]) : text[i][k].number \in Nat
      <3>1. \A k \in 1..Len(text[i]) : text[i][k] \in Message
        BY <1>3
      <3> QED
        BY <3>1 DEF Message
    <2>3. CASE i \notin wanting
      <3>1. text'[i] = text[i]
        BY <1>6, <2>3
      <3>2. ASSUME NEW k \in 1..Len(text[i])
            PROVE  text[i][k].number <= messages + 1
        BY <1>3, <2>1, <2>2
      <3> QED
        BY <2>1, <3>1, <3>2
    <2>4. CASE i \in wanting
      <3>1. /\ text'[i] = Append(text[i], message) /\ message \in Message
            /\ message.number = messages + 1
        BY <1>5, <1>6, <2>4
      <3>2. /\ Len(text'[i]) = Len(text[i]) + 1 /\ Len(text[i]) \in Nat
            /\ text'[i][Len(text[i]) + 1] = message
            /\ \A k \in 1..Len(text[i]) : text'[i][k] = text[i][k]
        BY <1>3, <3>1
      <3>3. ASSUME NEW k \in 1..Len(text'[i])
            PROVE  text'[i][k].number <= messages + 1
        <4>1. CASE k = Len(text[i]) + 1
          BY <1>3, <3>1, <3>2, <4>1
        <4>2. CASE k \in 1..Len(text[i])
          <5>1. text'[i][k].number = text[i][k].number
            BY <3>2, <4>2
          <5>2. text[i][k].number <= messages /\ text[i][k].number \in Nat
            BY <2>1, <2>2, <4>2
          <5> QED
            BY <1>3, <5>1, <5>2
        <4> QED
          BY <3>2, <4>1, <4>2
      <3>4. ASSUME NEW k \in 2..Len(text'[i])
            PROVE  text'[i][k - 1].number < text'[i][k].number
        <4>1. k - 1 \in 1..Len(text[i])
          BY <3>2
        <4>2. text'[i][k - 1] = text[i][k - 1]
          BY <3>2, <4>1
        <4>3. text[i][k - 1].number <= messages /\ text[i][k - 1].number \in Nat
          BY <2>1, <2>2, <4>1
        <4>4. CASE k = Len(text[i]) + 1
          BY <1>3, <3>1, <3>2, <4>2, <4>3, <4>4
        <4>5. CASE k \in 2..Len(text[i])
          <5>1. text'[i][k] = text[i][k]
            BY <3>2, <4>5
          <5> QED
            BY <2>1, <4>2, <4>5, <5>1
        <4> QED
          BY <3>2, <4>4, <4>5
      <3> QED
        BY <3>3, <3>4
    <2> QED
      BY <2>3, <2>4
  <1>10. Ordered'
    BY <1>2, <1>9 DEF Ordered
  <1>11. ASSUME NEW i \in 1..Len(logs)
         PROVE  Numbers(i)' = IF i \in wanting THEN Numbers(i) \cup {messages + 1}
                              ELSE Numbers(i)
    <2>1. CASE i \notin wanting
      BY <1>6, <2>1 DEF Numbers
    <2>2. CASE i \in wanting
      <3>1. /\ text'[i] = Append(text[i], message) /\ message \in Message
            /\ message.number = messages + 1
        BY <1>5, <1>6, <2>2
      <3>2. /\ DOMAIN text'[i] = 1..Len(text[i]) + 1 /\ Len(text[i]) \in Nat
            /\ DOMAIN text[i] = 1..Len(text[i])
            /\ text'[i][Len(text[i]) + 1] = message
            /\ \A k \in 1..Len(text[i]) : text'[i][k] = text[i][k]
        BY <1>3, <3>1
      <3>3. \A n : n \in Numbers(i)' <=> \E k \in 1..Len(text[i]) + 1 : n = text'[i][k].number
        BY <3>2 DEF Numbers, Range
      <3>4. \A n : n \in Numbers(i) <=> \E k \in 1..Len(text[i]) : n = text[i][k].number
        BY <3>2 DEF Numbers, Range
      <3>5. \A n : n \in Numbers(i)' <=> n \in Numbers(i) \/ n = messages + 1
        BY <3>1, <3>2, <3>3, <3>4
      <3> QED
        BY <2>2, <3>5
    <2> QED
      BY <2>1, <2>2
  <1>13. ASSUME NEW i \in 1..Len(logs), NEW j \in 1..Len(logs)
         PROVE  Shared(i, j)'
    <2> SUFFICES ASSUME logs[i].min <= logs[j].min, NEW n \in Numbers(j)',
                        n > since[i], n > since[j]
                 PROVE  n \in Numbers(i)'
      BY <1>2 DEF Shared
    <2>1. CASE n \in Numbers(j)
      BY <1>1, <1>11, <2>1 DEF Shared
    <2>2. CASE n \notin Numbers(j)
      <3>1. j \in wanting /\ n = messages + 1
        BY <1>11, <2>2
      <3> QED
        BY <1>11, <1>12, <3>1
    <2> QED
      BY <2>1, <2>2
  <1> QED
    BY <1>2, <1>8, <1>10, <1>13 DEF Inv

-----------------------------------------------------------------------------
\* The invariant holds at the start.
LEMMA InvInit == Init => Inv
  BY DEF Init, Inv, TypeOK, Ordered

\* Every step preserves it.
LEMMA InvStep ==
    ASSUME Levels \subseteq Int, Inv, [Next]_vars
    PROVE  Inv'
  <1>1. CASE UNCHANGED <<logs, text, since, messages>>
    BY <1>1 DEF Inv, TypeOK, Ordered, Shared, Numbers
  <1>2. CASE UNCHANGED vars \/ LogOpenFails \/ LogClose \/ LogOff \/ LogOn
    BY <1>1, <1>2 DEF vars, LogOpenFails, LogClose, LogOff, LogOn
  <1>3. ASSUME NEW level \in Levels,
               \/ LogPrintf(level) \/ LogAdd(level)
               \/ \E l \in DOMAIN logs : LogSetLevel(l, level)
        PROVE  Inv'
    BY <1>3, LogPrintfStep, LogAddStep, LogSetLevelStep
  <1> QED
    BY <1>2, <1>3, LogSetLocaltimeStep DEF Next

\* No log misses a message because of another log's level, however levels are set
\* and logs added in between; and nobody gets a message twice or late.
THEOREM NobodyMissesMessages ==
    ASSUME Levels \subseteq Int
    PROVE  Spec => []NoLogMissesMessages
  <1>1. Inv => NoLogMissesMessages
    <2>1. TypeOK => DOMAIN logs = 1..Len(logs)
      BY DEF TypeOK
    <2> QED
      BY <2>1 DEF Inv, Ordered, Shared, NoLogMissesMessages
  <1>2. Inv /\ [Next]_vars => Inv'
    BY InvStep
  <1> QED
    BY InvInit, <1>1, <1>2, PTL DEF Spec
=============================================================================
