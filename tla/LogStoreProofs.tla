--------------------------- MODULE LogStoreProofs ---------------------------
(***************************************************************************)
(* The entries in memory and what is in each file, for any limits, any     *)
(* number of days and any number of entries.                               *)
(***************************************************************************)
EXTENDS LogStore, TLAPS

\* The open file is there for as long as it has not been removed.
OpenFileIsThere == linked => handle \in Days /\ files[handle] # Absent

\* The open file is no later day's, and today's is linked unless data was cleared.
HandleServes ==
  /\ handle \in Days => handle <= today
  /\ handle = today /\ today \notin cleared => linked

LogInv ==
  /\ LogTypeOK
  /\ OpenFileIsThere
  /\ LatestInMemory
  /\ HandleServes
  /\ DayIsOnFile

\* A file that is not there is no sequence of entries.
LEMMA AbsentIsNoLog == \A s \in Seq(Entries) : s # Absent
<1> SUFFICES ASSUME NEW s \in Seq(Entries), s = Absent
             PROVE  FALSE
  OBVIOUS
<1> DEFINE z == <<0>>
<1>1. Len(z) = 1 /\ z[1] = 0
  OBVIOUS
<1>2. z \in Seq(Entries)
  BY DEF Absent
<1>3. z[1] \in Entries
  BY <1>1, <1>2
<1> QED
  BY <1>1, <1>3, LogAssumption DEF Entries

\* LastOf takes n elements or all there are, and the last ones.
LEMMA LastOfProperties ==
  ASSUME NEW S, NEW s \in Seq(S), NEW n \in Nat \ {0}
  PROVE  /\ LastOf(s, n) \in Seq(S)
         /\ Len(LastOf(s, n)) = IF Len(s) > n THEN n ELSE Len(s)
         /\ \A i \in 1..Len(LastOf(s, n)) :
              LastOf(s, n)[i] = s[Len(s) - Len(LastOf(s, n)) + i]
<1>1. CASE Len(s) > n
  <2> DEFINE m == Len(s) - n + 1
  <2>1. m \in 1..Len(s) /\ m \in Nat
    BY <1>1
  <2>2. LastOf(s, n) = SubSeq(s, m, Len(s))
    BY <1>1 DEF LastOf
  <2>3. SubSeq(s, m, Len(s)) \in Seq(S) /\ Len(SubSeq(s, m, Len(s))) = n
    BY <2>1
  <2>4. \A i \in 1..n : SubSeq(s, m, Len(s))[i] = s[m + i - 1]
    BY <2>1
  <2> QED
    BY <1>1, <2>2, <2>3, <2>4
<1>2. CASE ~(Len(s) > n)
  BY <1>2 DEF LastOf
<1> QED
  BY <1>1, <1>2

\* At the start there is nothing.
LEMMA InitLogInv == LogInit => LogInv
<1> SUFFICES ASSUME LogInit
             PROVE  LogInv
  OBVIOUS
<1>1. files \in [Days -> Seq(Entries) \cup {Absent}] /\ today \in Days
  BY LogAssumption DEF LogInit, Days
<1>2. Len(entries) = 0 /\ Len(days) = 0
  BY DEF LogInit
<1>3. LogTypeOK
  BY <1>1 DEF LogInit, LogTypeOK
<1>4. LatestInMemory
  BY <1>2, LogAssumption DEF LatestInMemory, LogInit, Kept
<1>5. OpenFileIsThere /\ HandleServes
  BY LogAssumption DEF LogInit, OpenFileIsThere, HandleServes, Days, NoDay
<1>6. DayIsOnFile
  <2>1. DOMAIN days = {} /\ \A d \in Days : files[d] = Absent
    BY DEF LogInit
  <2> QED
    BY <2>1 DEF DayIsOnFile, AppendedOn
<1> QED
  BY <1>3, <1>4, <1>5, <1>6 DEF LogInv

\* An append keeps the latest entries in memory.
LEMMA RememberKeepsLatest ==
  ASSUME LogInv, Remember, UNCHANGED launched
  PROVE  /\ entries' \in Seq(Entries)
         /\ LatestInMemory'
         /\ launched' \in 0..Len(days')
<1> DEFINE e == Len(days) + 1
           s == Append(entries, e)
<1> USE DEF LogInv, LogTypeOK
<1>1. /\ e \in Entries
      /\ entries' = LastOf(s, MaxSize)
      /\ days' = Append(days, today)
  BY DEF Remember, Keep, Latest
<1>2. s \in Seq(Entries) /\ Len(s) = Len(entries) + 1
  BY <1>1
<1>3. \A i \in 1..Len(s) : s[i] = e - Len(s) + i
  <2>1. /\ \A i \in 1..Len(entries) : entries[i] = Len(days) - Len(entries) + i
        /\ Len(entries) \in Nat /\ Len(days) \in Nat
    BY DEF LatestInMemory
  <2>2. /\ \A i \in 1..Len(entries) : s[i] = entries[i]
        /\ s[Len(entries) + 1] = e
        /\ \A i \in 1..Len(s) : i \in 1..Len(entries) \/ i = Len(entries) + 1
    BY <1>1, <1>2
  <2>3. \A m, n, i \in Nat :
          /\ m - n + i = (m + 1) - (n + 1) + i
          /\ m + 1 = (m + 1) - (n + 1) + (n + 1)
    OBVIOUS
  <2> QED
    BY <1>2, <2>1, <2>2, <2>3
<1>4. Len(days') = e /\ Len(days) \in Nat
  BY <1>1
<1>5. MaxSize \in Nat \ {0}
  BY LogAssumption
<1>6. /\ entries' \in Seq(Entries)
      /\ Len(entries') = IF Len(s) > MaxSize THEN MaxSize ELSE Len(s)
      /\ \A i \in 1..Len(entries') : entries'[i] = s[Len(s) - Len(entries') + i]
  BY <1>1, <1>2, <1>5, LastOfProperties
<1>7. ASSUME NEW i \in 1..Len(entries')
      PROVE  entries'[i] = Len(days') - Len(entries') + i
  <2> DEFINE j == Len(s) - Len(entries') + i
  <2>1. j \in 1..Len(s)
    BY <1>2, <1>5, <1>6
  <2>2. entries'[i] = e - Len(s) + j
    BY <1>3, <1>6, <2>1
  <2>3. e \in Nat /\ Len(s) \in Nat /\ Len(entries') \in Nat /\ i \in Nat
    BY <1>2, <1>4, <1>6
  <2>4. e - Len(s) + j = e - Len(entries') + i
    <3> DEFINE q == Len(s)
               r == Len(entries')
    <3>1. e \in Nat /\ q \in Nat /\ r \in Nat /\ i \in Nat
      BY <2>3
    <3>2. e - q + (q - r + i) = e - r + i
      <4> HIDE DEF e, q, r
      <4> QED
        BY ONLY <3>1
    <3> QED
      BY <3>2
  <2> QED
    BY <1>4, <2>2, <2>4
<1>8. Len(entries') = Kept(Len(days') - launched)
  <2>1. /\ Len(entries) = Kept(Len(days) - launched)
        /\ Len(days) \in Nat /\ launched \in Nat /\ launched <= Len(days)
        /\ Len(entries) \in Nat /\ Len(entries') \in Nat
    BY <1>6 DEF LatestInMemory
  <2>2. \A m, n, l, k, j \in Nat :
          /\ l <= n
          /\ k = IF n - l > m THEN m ELSE n - l
          /\ j = IF k + 1 > m THEN m ELSE k + 1
          => j = IF n + 1 - l > m THEN m ELSE n + 1 - l
    OBVIOUS
  <2>3. Len(entries') = IF Len(entries) + 1 > MaxSize THEN MaxSize ELSE Len(entries) + 1
    BY <1>2, <1>6
  <2>4. Len(entries') = IF Len(days) + 1 - launched > MaxSize THEN MaxSize
                        ELSE Len(days) + 1 - launched
    BY ONLY <1>5, <2>1, <2>2, <2>3, Zenon DEF Kept
  <2> QED
    BY <1>4, <2>4 DEF Kept
<1>9. launched' \in 0..Len(days')
  <2>1. Len(days) \in Nat /\ launched \in 0..Len(days)
    OBVIOUS
  <2> QED
    BY <1>4, <2>1
<1> QED
  <2>1. UNCHANGED launched
    OBVIOUS
  <2>2. DOMAIN entries' = 1..Len(entries')
    BY <1>6
  <2> QED
    BY <1>6, <1>7, <1>8, <1>9, <2>1, <2>2 DEF LatestInMemory

\* An append writes to a file that is there.
LEMMA AppendKeepsFiles ==
  ASSUME LogInv, AppendEntry
  PROVE  /\ files' \in [Days -> Seq(Entries) \cup {Absent}]
         /\ OpenFileIsThere'
<1> USE DEF LogInv, LogTypeOK
<1> DEFINE e == Len(days) + 1
           opened == Opened(today)
           written == Written(opened, today, e)
<1>1. e \in Entries
  BY DEF AppendEntry, Remember, Latest
<1>2. opened \in [Days -> Seq(Entries) \cup {Absent}]
  BY DEF Opened
<1>3. handle # today \/ linked => opened[today] \in Seq(Entries)
  BY AbsentIsNoLog DEF Opened, OpenFileIsThere
<1>4. /\ written \in [Days -> Seq(Entries) \cup {Absent}]
      /\ handle # today \/ linked => written[today] \in Seq(Entries)
  BY <1>1, <1>2, <1>3 DEF Written
<1>5. PICK old \in BOOLEAN : files' = Cleaned(written, old)
  BY DEF AppendEntry, Latest
<1>6. /\ MaxAge \in Nat \ {0}
      /\ today \in Nat
      /\ Days \subseteq Nat
  BY LogAssumption DEF Days
<1>8. files' \in [Days -> Seq(Entries) \cup {Absent}]
  BY <1>4, <1>5 DEF Cleaned
<1>9. files'[today] = written[today]
  BY <1>5, <1>6 DEF Cleaned
<1>10. OpenFileIsThere'
  BY <1>4, <1>9, AbsentIsNoLog DEF AppendEntry, UseFile, OpenFileIsThere
<1> QED
  BY <1>8, <1>10

\* An append puts the entry at the end of the day's file, and leaves the other
\* files as they are until they are too old.
LEMMA AppendKeepsDays ==
  ASSUME LogInv, AppendEntry
  PROVE  DayIsOnFile'
<1> USE DEF LogInv, LogTypeOK
<1> DEFINE e == Len(days) + 1
           opened == Opened(today)
           written == Written(opened, today, e)
<1> SUFFICES ASSUME NEW d \in Days, d \notin cleared, d + MaxAge > today
             PROVE  IF files'[d] = Absent
                    THEN AppendedOn(d)' = {}
                    ELSE /\ InOrder(files'[d])
                         /\ {files'[d][i] : i \in DOMAIN files'[d]} = AppendedOn(d)'
  BY DEF AppendEntry, historyVars, DayIsOnFile
<1>1. /\ e \in Entries /\ days' = Append(days, today) /\ lost' = lost
      /\ \E old \in BOOLEAN : files' = Cleaned(written, old)
  BY DEF AppendEntry, Remember, Latest, historyVars
<1>2. files'[d] = written[d]
  BY <1>1, LogAssumption DEF Cleaned, Days
<1>3. DOMAIN days' = DOMAIN days \cup {e}
  BY <1>1
<1>4. days'[e] = today /\ \A k \in DOMAIN days : days'[k] = days[k] /\ k < e
  BY <1>1
<1>5. IF files[d] = Absent
      THEN AppendedOn(d) = {}
      ELSE /\ InOrder(files[d])
           /\ {files[d][i] : i \in DOMAIN files[d]} = AppendedOn(d)
  BY DEF DayIsOnFile
<1>6. opened \in [Days -> Seq(Entries) \cup {Absent}]
  BY DEF Opened
<1>7. CASE d # today
  <2>1. files'[d] = files[d]
    BY <1>2, <1>6, <1>7 DEF Written, Opened
  <2>2. AppendedOn(d)' = AppendedOn(d)
    BY <1>1, <1>3, <1>4, <1>7 DEF AppendedOn
  <2> QED
    BY <1>5, <2>1, <2>2
<1>8. CASE d = today
  <2> DEFINE log == opened[today]
             new == Append(log, e)
  <2>1. handle # today \/ linked
    BY <1>8 DEF HandleServes
  <2>2. log \in Seq(Entries)
    BY <2>1, AbsentIsNoLog DEF Opened, OpenFileIsThere
  <2>3. InOrder(log) /\ {log[i] : i \in DOMAIN log} = AppendedOn(today)
    <3>1. CASE files[today] = Absent
      <4>1. log = <<>>
        BY <2>1, <3>1 DEF Opened, OpenFileIsThere
      <4> QED
        BY <1>5, <1>8, <3>1, <4>1 DEF InOrder
    <3>2. CASE files[today] # Absent
      BY <1>5, <1>8, <3>2 DEF Opened
    <3> QED
      BY <3>1, <3>2
  <2>4. files'[d] = new /\ new \in Seq(Entries)
    <3>1. written = [opened EXCEPT ![today] = Append(log, e)]
      BY <2>1 DEF Written
    <3>2. written[today] = new
      BY <1>6, <3>1
    <3> QED
      BY <1>1, <1>2, <1>8, <2>2, <3>2
  <2>5. /\ DOMAIN new = DOMAIN log \cup {Len(log) + 1}
        /\ new[Len(log) + 1] = e
        /\ \A i \in DOMAIN log : new[i] = log[i] /\ i < Len(log) + 1
    BY <2>2
  <2>6. \A i \in DOMAIN log : log[i] < e
    BY <1>4, <2>3 DEF AppendedOn
  <2>7. InOrder(new)
    <3> SUFFICES ASSUME NEW i \in DOMAIN new, NEW j \in DOMAIN new, i < j
                 PROVE  new[i] < new[j]
      BY DEF InOrder
    <3>1. i \in DOMAIN log
      BY <2>2, <2>5
    <3> QED
      BY <2>3, <2>5, <2>6, <3>1 DEF InOrder
  <2>8. {new[i] : i \in DOMAIN new} = {log[i] : i \in DOMAIN log} \cup {e}
    BY <2>5
  <2>9. AppendedOn(d)' = AppendedOn(today) \cup {e}
    <3>1. e \notin lost
      BY <1>4
    <3> QED
      BY <1>1, <1>3, <1>4, <1>8, <3>1 DEF AppendedOn
  <2> QED
    BY <2>3, <2>4, <2>7, <2>8, <2>9, AbsentIsNoLog
<1> QED
  BY <1>7, <1>8

\* An append that fails leaves the entry out of the files, and is said to be lost.
LEMMA FailureKeepsFiles ==
  ASSUME LogInv, AppendUnwritten
  PROVE  /\ files' \in [Days -> Seq(Entries) \cup {Absent}]
         /\ OpenFileIsThere'
         /\ DayIsOnFile'
<1> USE DEF LogInv, LogTypeOK
<1> DEFINE e == Len(days) + 1
<1>1. /\ e \in Entries /\ days' = Append(days, today) /\ lost' = lost \cup {e}
      /\ UNCHANGED <<today, cleared>>
      /\ UseFile \/ (handle' = NoDay /\ linked' = FALSE)
  BY DEF AppendUnwritten, Remember, Latest
<1>2. PICK old \in BOOLEAN, fs \in {files, Opened(today)} :
        /\ handle' = today => fs = Opened(today)
        /\ files' = Cleaned(fs, old)
  BY DEF AppendUnwritten
<1>3. /\ fs \in [Days -> Seq(Entries) \cup {Absent}]
      /\ \A d \in Days : fs[d] = files[d] \/ (files[d] = Absent /\ fs[d] = <<>>)
  <2>1. CASE fs = files
    BY <2>1
  <2>2. CASE fs = [files EXCEPT ![today] = <<>>] /\ files[today] = Absent
    <3>1. <<>> \in Seq(Entries) \cup {Absent} /\ today \in Days
      OBVIOUS
    <3> QED
      BY <2>2, <3>1
  <2> QED
    BY <1>2, <2>1, <2>2 DEF Opened
<1>4. files' \in [Days -> Seq(Entries) \cup {Absent}]
  BY <1>2, <1>3 DEF Cleaned
<1>5. /\ MaxAge \in Nat \ {0} /\ today \in Nat /\ Days \subseteq Nat
      /\ NoDay \notin Days
  BY LogAssumption DEF Days, NoDay
<1>6. \A d \in Days : d + MaxAge > today => files'[d] = fs[d]
  BY <1>2, <1>5 DEF Cleaned
<1>7. OpenFileIsThere'
  <2> SUFFICES ASSUME linked'
               PROVE  handle' = today /\ files'[today] # Absent
    BY <1>1, <1>5 DEF OpenFileIsThere
  <2>1. UseFile /\ handle' = today /\ fs = Opened(today)
    BY <1>1, <1>2 DEF UseFile
  <2>2. handle = today => files[today] # Absent
    BY <2>1 DEF UseFile, OpenFileIsThere
  <2>3. <<>> # Absent
    BY DEF Absent
  <2>4. Opened(today)[today] # Absent
    BY <2>2, <2>3 DEF Opened
  <2> QED
    BY <1>5, <1>6, <2>1, <2>4
<1>8. \A d \in Days : AppendedOn(d)' = AppendedOn(d)
  <2>1. /\ DOMAIN days' = DOMAIN days \cup {e}
        /\ \A k \in DOMAIN days : days'[k] = days[k] /\ k # e
    BY <1>1
  <2> QED
    BY <1>1, <2>1 DEF AppendedOn
<1>9. DayIsOnFile'
  <2> SUFFICES ASSUME NEW d \in Days, d \notin cleared, d + MaxAge > today
               PROVE  IF files'[d] = Absent
                      THEN AppendedOn(d) = {}
                      ELSE /\ InOrder(files'[d])
                           /\ {files'[d][i] : i \in DOMAIN files'[d]} = AppendedOn(d)
    BY <1>1, <1>8 DEF DayIsOnFile
  <2>1. CASE files'[d] = files[d]
    BY <2>1 DEF DayIsOnFile
  <2>2. CASE files[d] = Absent /\ files'[d] = <<>>
    BY <2>2, AbsentIsNoLog DEF DayIsOnFile, InOrder
  <2> QED
    BY <1>3, <1>6, <2>1, <2>2
<1> QED
  BY <1>4, <1>7, <1>9

\* A step that appends nothing, and is no launch, leaves the memory as it is.
LEMMA LatestStays ==
  ASSUME LatestInMemory, UNCHANGED <<entries, launched>>, Len(days') = Len(days)
  PROVE  LatestInMemory'
BY DEF LatestInMemory, Kept

\* Every step keeps the invariant.
LEMMA NextLogInv == LogInv /\ [LogNext]_logVars => LogInv'
<1> SUFFICES ASSUME LogInv, [LogNext]_logVars
             PROVE  LogInv'
  OBVIOUS
<1> USE LogAssumption
    DEF LogInv, LogTypeOK, OpenFileIsThere, HandleServes, Days, NoDay
<1>1. CASE AppendEntry
  <2>1. /\ LatestInMemory' /\ OpenFileIsThere' /\ DayIsOnFile'
        /\ entries' \in Seq(Entries) /\ launched' \in 0..Len(days')
        /\ files' \in [Days -> Seq(Entries) \cup {Absent}]
    BY <1>1, RememberKeepsLatest, AppendKeepsFiles, AppendKeepsDays
       DEF AppendEntry, historyVars
  <2>2. /\ handle' = today /\ linked' = (handle = today => linked)
        /\ days' = Append(days, today)
        /\ UNCHANGED <<today, cleared, lost>>
    BY <1>1 DEF AppendEntry, UseFile, Remember, historyVars
  <2>3. days' \in Seq(Days \cup {NoDay}) /\ lost' \subseteq DOMAIN days'
    BY <2>2
  <2>4. HandleServes' /\ handle' \in Days /\ linked' \in BOOLEAN
    <3>1. linked' <=> (handle = today => linked)
      BY <2>2
    <3> QED
      BY <2>2, <3>1
  <2> QED
    BY <2>1, <2>2, <2>3, <2>4
<1>2. CASE AppendUnwritten
  <2>1. /\ LatestInMemory' /\ OpenFileIsThere' /\ DayIsOnFile'
        /\ entries' \in Seq(Entries) /\ launched' \in 0..Len(days')
        /\ files' \in [Days -> Seq(Entries) \cup {Absent}]
    BY <1>2, RememberKeepsLatest, FailureKeepsFiles DEF AppendUnwritten
  <2>2. /\ \/ handle' = today /\ linked' = (handle = today => linked)
           \/ handle' = NoDay /\ linked' = FALSE
        /\ days' = Append(days, today) /\ lost' = lost \cup {Len(days) + 1}
        /\ UNCHANGED <<today, cleared>>
    BY <1>2 DEF AppendUnwritten, UseFile, Remember, Latest
  <2>3. days' \in Seq(Days \cup {NoDay}) /\ lost' \subseteq DOMAIN days'
    BY <2>2
  <2>4. HandleServes' /\ handle' \in Days \cup {NoDay} /\ linked' \in BOOLEAN
    <3>1. \/ handle' = today /\ (linked' <=> (handle = today => linked))
          \/ handle' = NoDay /\ ~linked'
      BY <2>2
    <3>2. linked' \in BOOLEAN
      BY <2>2
    <3> QED
      BY <2>2, <3>1, <3>2
  <2> QED
    BY <2>1, <2>2, <2>3, <2>4
<1>3. CASE Midnight
  <2>1. DayIsOnFile'
    BY <1>3 DEF Midnight, historyVars, DayIsOnFile, AppendedOn
  <2>2. LatestInMemory'
    BY <1>3, LatestStays DEF Midnight, historyVars
  <2> QED
    BY <1>3, <2>1, <2>2 DEF Midnight, historyVars
<1>4. CASE Relaunch
  <2>1. entries' \in Seq(Entries) /\ Len(entries') = 0
    BY <1>4 DEF Relaunch
  <2>2. LatestInMemory'
    <3>1. Len(days') - launched' = 0 /\ DOMAIN entries' = {}
      BY <1>4 DEF Relaunch
    <3>2. Kept(0) = 0
      BY DEF Kept
    <3> QED
      BY ONLY <2>1, <3>1, <3>2 DEF LatestInMemory
  <2>3. HandleServes' /\ DayIsOnFile'
    BY <1>4 DEF Relaunch, DayIsOnFile, AppendedOn
  <2>4. launched' \in 0..Len(days')
    BY <1>4 DEF Relaunch
  <2> QED
    BY <1>4, <2>1, <2>2, <2>3, <2>4 DEF Relaunch
<1>5. CASE ClearAllData
  <2>1. /\ days' \in Seq(Days \cup {NoDay}) /\ Len(days') = Len(days)
        /\ DOMAIN days' = DOMAIN days
    BY <1>5 DEF ClearAllData
  <2>2. HandleServes' /\ DayIsOnFile'
    BY <1>5 DEF ClearAllData, DayIsOnFile, AppendedOn
  <2>3. LatestInMemory'
    BY <1>5, <2>1, LatestStays DEF ClearAllData
  <2> QED
    BY <1>5, <2>1, <2>2, <2>3 DEF ClearAllData
<1>6. CASE UNCHANGED logVars
  <2>1. LatestInMemory'
    BY <1>6, LatestStays DEF logVars, historyVars
  <2> QED
    BY <1>6, <2>1 DEF logVars, historyVars, DayIsOnFile, AppendedOn
<1> QED
  BY <1>1, <1>2, <1>3, <1>4, <1>5, <1>6 DEF LogNext

\* The invariant holds throughout.
LEMMA LogInvariant == LogSpec => []LogInv
BY InitLogInv, NextLogInv, PTL DEF LogSpec

\* LogStore.append and all: the memory holds the latest entries in their order,
\* all of them since the launch or as many as the limit allows.
THEOREM MemoryIsLatest == LogSpec => []LatestInMemory
<1>1. LogInv => LatestInMemory
  BY DEF LogInv
<1> QED
  BY <1>1, LogInvariant, PTL

\* LogStore.ensureLogFile, writeToFile and cleanupOldLogs: the file of a day
\* holds what was appended on that day, in its order and once, over launches and
\* midnights, until it is too old or all data is cleared.
THEOREM DaysAreOnFile == LogSpec => []DayIsOnFile
<1>1. LogInv => DayIsOnFile
  BY DEF LogInv
<1> QED
  BY <1>1, LogInvariant, PTL

\* LogStore: its memory, its files and the open one have values of their types.
THEOREM LogTyped == LogSpec => []LogTypeOK
<1>1. LogInv => LogTypeOK
  BY DEF LogInv
<1> QED
  BY <1>1, LogInvariant, PTL

=============================================================================
