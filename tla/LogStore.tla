------------------------------ MODULE LogStore ------------------------------
(***************************************************************************)
(* LogStore: the last entries in memory, and a file for each day.  It is   *)
(* an actor, so an append is one step.  A day is a number, a file is named *)
(* by its day and was created on it; an entry is the number of its append. *)
(***************************************************************************)
EXTENDS Naturals, Sequences

CONSTANTS
  MaxSize,    \* maxSize: how many entries are kept in memory
  MaxAge,     \* how many days a file is kept, 7
  LastDay,    \* how long the app is watched
  MaxEntries  \* how many entries are appended

ASSUME LogAssumption ==
  /\ {MaxSize, MaxAge} \subseteq Nat \ {0}
  /\ {LastDay, MaxEntries} \subseteq Nat

Days == 0..LastDay
Absent == <<0>>  \* no entry is 0

VARIABLES
  today,
  entries,  \* the entries in memory
  files,    \* files[d]: what the file of day d holds, or Absent
  handle,   \* the day whose file is open, or LastDay + 1
  linked,   \* the open file is still in its directory
  days,     \* days[e]: the day on which e was appended, since data was cleared
  cleared,  \* the days on which data was cleared
  launched, \* history: how many entries were appended before the launch
  lost      \* history: the entries that could not be encoded or written

historyVars == <<cleared, launched, lost>>
logVars == <<today, entries, files, handle, linked, days, historyVars>>

NoDay == LastDay + 1
Entries == 1..MaxEntries

LogTypeOK ==
  /\ today \in Days
  /\ entries \in Seq(Entries)
  /\ files \in [Days -> Seq(Entries) \cup {Absent}]
  /\ handle \in Days \cup {NoDay}
  /\ linked \in BOOLEAN
  /\ days \in Seq(Days \cup {NoDay})
  /\ cleared \subseteq Days
  /\ launched \in 0..Len(days)
  /\ lost \subseteq DOMAIN days

LogInit ==
  /\ today = 0
  /\ entries = <<>>
  /\ files = [d \in Days |-> Absent]
  /\ handle = NoDay
  /\ linked = FALSE
  /\ days = <<>>
  /\ cleared = {}
  /\ launched = 0
  /\ lost = {}

-----------------------------------------------------------------------------
LastOf(s, n) == IF Len(s) > n THEN SubSeq(s, Len(s) - n + 1, Len(s)) ELSE s

\* Faulty variant: a full store keeps one entry less.
KeepLess(e) ==
  IF Len(entries) < MaxSize THEN Append(entries, e)
  ELSE LastOf(Append(entries, e), MaxSize - 1)

\* Faulty variant: entries are counted from zero.
KeepUncounted(e) == LastOf(Append(entries, e - 1), MaxSize)

\* The oldest entries go when there are too many.
Keep(e) == LastOf(Append(entries, e), MaxSize)

\* Faulty variant: a file that exists is created again.
OpenedAnew(d) ==
  IF handle = d THEN files ELSE [files EXCEPT ![d] = <<>>]

\* ensureLogFile(): the day's file, created if it is not there.  A handle of
\* that day is used as it is.
Opened(d) ==
  IF handle # d /\ files[d] = Absent THEN [files EXCEPT ![d] = <<>>] ELSE files

\* writeToFile(): what is written to a file that was removed is lost.
Written(fs, d, e) ==
  IF handle # d \/ linked THEN [fs EXCEPT ![d] = Append(@, e)] ELSE fs

\* cleanupOldLogs(): files older than the limit go.  One that is as old as the
\* limit goes if it was created earlier in its day.
Cleaned(fs, old) ==
  [d \in Days |->
     IF d + MaxAge < today \/ (d + MaxAge = today /\ old) THEN Absent ELSE fs[d]]

\* The entry that is appended next, and the memory of it.
Latest == Len(days) + 1

Remember ==
  /\ Latest \in Entries
  /\ days' = Append(days, today)
  /\ entries' = Keep(Latest)

\* The day's file is open; the one that was open may have lost its name.
UseFile == handle' = today /\ linked' = (handle = today => linked)

AppendEntry ==
  /\ Remember
  /\ UseFile
  /\ \E old \in BOOLEAN :
       files' = Cleaned(Written(Opened(today), today, Latest), old)
  /\ UNCHANGED <<today, historyVars>>

\* append() ignores that the entry cannot be encoded, or that the day's file
\* cannot be opened, after it was or was not created.
AppendUnwritten ==
  /\ Remember
  /\ \/ UseFile
     \/ handle # today /\ handle' = NoDay /\ linked' = FALSE
  /\ \E old \in BOOLEAN, fs \in {files, Opened(today)} :
       /\ handle' = today => fs = Opened(today)
       /\ files' = Cleaned(fs, old)
  /\ lost' = lost \cup {Latest}
  /\ UNCHANGED <<today, cleared, launched>>

Midnight ==
  /\ today < LastDay
  /\ today' = today + 1
  /\ UNCHANGED <<entries, files, handle, linked, days, historyVars>>

\* The app ends, however it does, and is launched again.
Relaunch ==
  /\ entries' = <<>>
  /\ handle' = NoDay
  /\ linked' = FALSE
  /\ launched' = Len(days)
  /\ UNCHANGED <<today, files, days, cleared, lost>>

\* AppState.clearAllData() removes the directory, from another thread and
\* without telling the store.
ClearAllData ==
  /\ files' = [d \in Days |-> Absent]
  /\ linked' = FALSE
  /\ days' = [e \in DOMAIN days |-> NoDay]
  /\ cleared' = cleared \cup {today}
  /\ UNCHANGED <<today, entries, handle, launched, lost>>

LogNext ==
  \/ AppendEntry
  \/ AppendUnwritten
  \/ Midnight
  \/ Relaunch
  \/ ClearAllData

LogSpec == LogInit /\ [][LogNext]_logVars

-----------------------------------------------------------------------------
\* How many of n entries are kept.
Kept(n) == IF n > MaxSize THEN MaxSize ELSE n

\* The entries in memory are the latest ones, in their order: all those since
\* the launch of the app, or as many of them as the limit allows.
LatestInMemory ==
  /\ Len(entries) = Kept(Len(days) - launched)
  /\ \A i \in DOMAIN entries : entries[i] = Len(days) - Len(entries) + i

InOrder(log) == \A i, j \in DOMAIN log : i < j => log[i] < log[j]

AppendedOn(d) == {e \in DOMAIN days : days[e] = d} \ lost

\* What was appended on a day and could be written is in that day's file, in its
\* order and once, until the file is too old: whatever was appended before the
\* app ended.  Days on which data was cleared are left out, for on them the open
\* file is lost.
DayIsOnFile ==
  \A d \in Days \ cleared : d + MaxAge > today =>
    IF files[d] = Absent
    THEN AppendedOn(d) = {}
    ELSE /\ InOrder(files[d])
         /\ {files[d][i] : i \in DOMAIN files[d]} = AppendedOn(d)

=============================================================================
