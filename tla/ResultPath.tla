----------------------------- MODULE ResultPath ------------------------------
(* The spool watch of result_path_client.cpp: a worker counts the files of   *)
(* check_result_path once, lets inotify tell it of those made and deleted    *)
(* from then on, and turns the writing of results off while the count is at  *)
(* check_result_path_max_files. Each second check() looks whether the path   *)
(* is still the directory that is watched.                                   *)
(*                                                                           *)
(* The directory at the path is "here"; the one that is watched although the *)
(* path names it no more is "old". Two directories have two inode numbers.   *)
EXTENDS Integers, Sequences, FiniteSets

CONSTANTS
  MaxFiles,     \* check_result_path_max_files
  MaxEntries,   \* bound: files in a directory
  MaxQueue,     \* events the kernel keeps; it drops the next one
  MaxUnseen     \* bound: files of whose coming or going no event tells

ASSUME BoundsAssumption ==
  /\ MaxFiles \in Nat /\ MaxEntries \in Nat
  /\ MaxQueue \in Nat /\ MaxUnseen \in Nat

VARIABLES
  here,                \* there is a directory at check_result_path
  entries,             \* the files of "here" and of "old"
  watched,             \* the directory the kernel's watch is on, or "none"
  queue,               \* the events the kernel has for the worker
  unseen,              \* files of the watched directory that the count misses
                       \* and no event will tell of (history)
  npc,                 \* where the network thread is
  reading,             \* client_bev is there: events are read
  dir_watched, dir_inode, files_in_directory, write_enabled

fsVars == <<here, entries>>
kernelVars == <<watched, queue, unseen>>
vars == <<fsVars, kernelVars, npc, reading, dir_watched, dir_inode,
          files_in_directory, write_enabled>>

Directories == {"here", "old"}

Init ==
  /\ here \in BOOLEAN
  /\ entries \in [Directories -> 0..MaxEntries]
  /\ entries["old"] = 0 /\ (~here => entries["here"] = 0)
  /\ watched = "none" /\ queue = <<>> /\ unseen = 0
  /\ npc = "start" /\ reading = FALSE
  /\ dir_watched = FALSE /\ dir_inode = "none"
  /\ files_in_directory = 0
  /\ write_enabled = TRUE

-----------------------------------------------------------------------------
(* The kernel's side *)

\* An event joins the queue, unless that is full.
Queued(e) == IF Len(queue) < MaxQueue THEN Append(queue, e) ELSE queue

\* The watch ends, and the queue says so last.
WatchEnds ==
  /\ watched' = "none"
  /\ queue' = Queued("ignored")
  /\ unseen' = 0

-----------------------------------------------------------------------------
(* The network thread *)

\* The constructor: with no cap the file descriptor stays -1, as it does when
\* inotify_init1 fails, and nothing below happens.
InitOff ==
  /\ npc = "start"
  /\ npc' = "off"
  /\ UNCHANGED <<fsVars, kernelVars, reading, dir_watched, dir_inode,
                 files_in_directory, write_enabled>>

\* init(): the reader of events, and the first watch.
InitWatch ==
  /\ npc = "start" /\ MaxFiles > 0
  /\ reading' = TRUE
  /\ npc' = "list"
  /\ UNCHANGED <<fsVars, kernelVars, dir_watched, dir_inode, files_in_directory,
                 write_enabled>>

\* No memory for the reader: no watch now, but check() will make one.
InitUnread ==
  /\ npc = "start" /\ MaxFiles > 0
  /\ npc' = "idle"
  /\ UNCHANGED <<fsVars, kernelVars, reading, dir_watched, dir_inode,
                 files_in_directory, write_enabled>>

\* Fault: the worker forgets the watch at once, not when the kernel says so.
ForgetAtOnce == dir_watched' = FALSE

\* What is kept of the watch when it is being removed: all.
KeepUntilIgnored == UNCHANGED dir_watched

\* unwatch_directory: the kernel may have removed the watch before.
UnwatchDirectory ==
  /\ KeepUntilIgnored
  /\ IF watched = "none"
       THEN UNCHANGED <<watched, queue, unseen, entries>>
       ELSE WatchEnds /\ entries' = [entries EXCEPT !["old"] = 0]

\* Fault: the directory is not compared with the one that is watched.
NeverReplaced == FALSE

\* The path names a directory, and it is not the one whose inode was kept.
Replaced == dir_watched /\ dir_inode # "here"

\* Fault: one file too late.
RoomForOneMore == MaxFiles >= files_in_directory

\* Results may be written below the cap.
RoomLeft == MaxFiles > files_in_directory

\* check(), called by the timer. The switch goes by the count as it is. Then a
\* replaced directory is unwatched, and watch_directory finds dir_watched set
\* until the kernel's last event is read; with no watch the files are counted.
Check ==
  /\ npc = "idle"
  /\ write_enabled' = RoomLeft
  /\ IF here /\ Replaced
       THEN UnwatchDirectory
       ELSE UNCHANGED <<watched, queue, unseen, entries, dir_watched>>
  /\ npc' = IF here /\ ~dir_watched THEN "list" ELSE "idle"
  /\ UNCHANGED <<here, reading, dir_inode, files_in_directory>>

\* Fault: the count of the last listing is not cleared.
ListedOnTop(n) == files_in_directory + n

\* The count begins at zero.
Listed(n) == n

\* count_files; opendir may fail, or there is nothing at the path.
CountFiles ==
  /\ npc = "list"
  /\ npc' = "add"
  /\ \E n \in {0, entries["here"]}: files_in_directory' = Listed(n)
  /\ UNCHANGED <<fsVars, kernelVars, reading, dir_watched, dir_inode, write_enabled>>

\* inotify_add_watch, on what is at the path by now.
AddWatch ==
  /\ npc = "add" /\ here
  /\ npc' = "stat"
  /\ watched' = "here"
  /\ unseen' = entries["here"] - files_in_directory
  /\ UNCHANGED <<fsVars, queue, reading, dir_watched, dir_inode, files_in_directory,
                 write_enabled>>

AddWatchFails ==
  /\ npc = "add"
  /\ npc' = "idle"
  /\ UNCHANGED <<fsVars, kernelVars, reading, dir_watched, dir_inode,
                 files_in_directory, write_enabled>>

\* The inode to compare with later is taken from the path, not from the watch.
StatInode ==
  /\ npc = "stat"
  /\ npc' = "idle"
  /\ dir_inode' = IF here THEN "here" ELSE dir_inode
  /\ dir_watched' = TRUE
  /\ UNCHANGED <<fsVars, kernelVars, reading, files_in_directory, write_enabled>>

\* event_received: the count after an event.
CountAfter(e) ==
  files_in_directory + (CASE e = "create" -> 1 [] e = "delete" -> -1 [] OTHER -> 0)

\* readcb, one event at a time. It does not look which watch an event is of.
Readcb ==
  /\ npc \in {"idle", "stopping"} /\ reading
  /\ queue # <<>>
  /\ queue' = Tail(queue)
  /\ files_in_directory' = CountAfter(Head(queue))
  /\ IF Head(queue) = "ignored"
       THEN dir_watched' = FALSE /\ dir_inode' = "none"
       ELSE UNCHANGED <<dir_watched, dir_inode>>
  /\ UNCHANGED <<fsVars, watched, unseen, npc, reading, write_enabled>>

\* A worker that is told to stop checks no more, but still reads events.
Shutdown ==
  /\ npc = "idle"
  /\ npc' = "stopping"
  /\ UNCHANGED <<fsVars, kernelVars, reading, dir_watched, dir_inode,
                 files_in_directory, write_enabled>>

\* uninit(): with the descriptor the watch and the events go.
Uninit ==
  /\ npc \in {"idle", "stopping", "off"}
  /\ npc' = "down"
  /\ reading' = FALSE
  /\ watched' = "none" /\ queue' = <<>> /\ unseen' = 0
  /\ entries' = [entries EXCEPT !["old"] = 0]
  /\ UNCHANGED <<here, dir_watched, dir_inode, files_in_directory, write_enabled>>

-----------------------------------------------------------------------------
(* What others do to the spool: this worker's crypt threads, other workers,  *)
(* the monitoring core, an administrator.                                    *)

Exists(d) == IF d = "here" THEN here ELSE watched = "old"

\* The files of d become n more, and nobody is told.
Silently(d, n) ==
  /\ Exists(d) /\ entries[d] + n \in 0..MaxEntries
  /\ entries' = [entries EXCEPT ![d] = @ + n]
  /\ unseen' = IF watched = d THEN unseen + n ELSE unseen
  /\ unseen' \in -MaxUnseen..MaxUnseen
  /\ UNCHANGED <<here, watched, queue, npc, reading, dir_watched, dir_inode,
                 files_in_directory, write_enabled>>

\* They become n more with an event, if the directory is watched.
Openly(d, n, e) ==
  /\ watched = d /\ Len(queue) < MaxQueue
  /\ entries[d] + n \in 0..MaxEntries
  /\ entries' = [entries EXCEPT ![d] = @ + n]
  /\ queue' = Queued(e)
  /\ UNCHANGED <<here, watched, unseen, npc, reading, dir_watched, dir_inode,
                 files_in_directory, write_enabled>>

FileMade(d) == Openly(d, 1, "create")
FileDeleted(d) == Openly(d, -1, "delete")

\* A file is renamed into or out of the directory, of which the watch was not
\* asked to tell; or no watch is there; or the queue is full.
Unwatched(d) == \E n \in {1, -1}: Silently(d, n)

\* Another directory than the one that was here is old from now on.
Elsewhere(d) == IF d = "here" THEN "old" ELSE d

\* The directory is renamed, or it is removed and was not watched.
MoveAway ==
  /\ here
  /\ here' = FALSE
  /\ entries' = [entries EXCEPT !["here"] = 0,
                   !["old"] = IF watched = "here" THEN entries["here"] ELSE @]
  /\ watched' = Elsewhere(watched)
  /\ dir_inode' = Elsewhere(dir_inode)
  /\ UNCHANGED <<queue, unseen, npc, reading, dir_watched, files_in_directory,
                 write_enabled>>

\* The watched directory is removed or unmounted.
WatchedGone ==
  /\ watched # "none"
  /\ WatchEnds
  /\ here' = (here /\ watched # "here")
  /\ entries' = [entries EXCEPT ![watched] = 0]
  /\ dir_inode' = IF watched = "here" THEN Elsewhere(dir_inode) ELSE dir_inode
  /\ UNCHANGED <<npc, reading, dir_watched, files_in_directory, write_enabled>>

MakeDirectory ==
  /\ ~here
  /\ here' = TRUE
  /\ \E n \in 0..MaxEntries: entries' = [entries EXCEPT !["here"] = n]
  /\ UNCHANGED <<kernelVars, npc, reading, dir_watched, dir_inode, files_in_directory,
                 write_enabled>>

-----------------------------------------------------------------------------
Next ==
  \/ InitOff \/ InitWatch \/ InitUnread
  \/ Check \/ CountFiles \/ AddWatch \/ AddWatchFails \/ StatInode
  \/ Readcb
  \/ Shutdown \/ Uninit
  \/ \E d \in Directories: FileMade(d) \/ FileDeleted(d) \/ Unwatched(d)
  \/ MoveAway \/ WatchedGone \/ MakeDirectory

\* The timer ticks, the loop reads, the calls of watch_directory return; and
\* inotify_add_watch does not fail for ever. Nobody need touch the spool.
Fairness ==
  /\ WF_vars(Check)
  /\ WF_vars(Readcb)
  /\ WF_vars(CountFiles) /\ WF_vars(StatInode)
  /\ WF_vars(AddWatch \/ AddWatchFails) /\ SF_vars(AddWatch)

Spec == Init /\ [][Next]_vars /\ Fairness

-----------------------------------------------------------------------------
(* Properties *)

Most == MaxEntries + MaxUnseen

\* The variables keep their types. The count may fall below zero, when files
\* go that were never counted, but no further than the files there can be.
TypeOK ==
  /\ here \in BOOLEAN
  /\ entries \in [Directories -> 0..MaxEntries]
  /\ watched \in Directories \union {"none"}
  /\ queue \in Seq({"create", "delete", "ignored"}) /\ Len(queue) <= MaxQueue
  /\ unseen \in -Most..Most
  /\ npc \in {"start", "list", "add", "stat", "idle", "stopping", "off", "down"}
  /\ reading \in BOOLEAN /\ dir_watched \in BOOLEAN /\ write_enabled \in BOOLEAN
  /\ dir_inode \in Directories \union {"none"}
  /\ files_in_directory \in -Most..(MaxEntries + Most)

Waiting(e) == Cardinality({i \in DOMAIN queue: queue[i] = e})

\* While a directory is watched the count, with the events that wait, is the
\* number of its files, but for those no event told of: a new count is never
\* met by events of the watch before, and no file is counted twice.
CountTracks ==
  watched # "none" =>
    files_in_directory + Waiting("create") - Waiting("delete") + unseen
      = entries[watched]

Serving == npc \in {"idle", "list", "add", "stat"} /\ reading

\* The path was replaced between inotify_add_watch and stat: the inode kept is
\* that of a directory that is not watched, and check() is content with it.
WrongInode == dir_watched /\ dir_inode = "here" /\ watched # "here"

\* The queue was full when the watch ended: its last event will not come.
LastEventLost == dir_watched /\ watched = "none" /\ Waiting("ignored") = 0

\* Once the path names a directory for good, the worker comes to watch that one
\* for good, however often it was replaced before; the two ways to stay deaf
\* are the race of stat and a lost last event.
WatchFollowsPath ==
  <>[](here /\ Serving) => <>[](watched = "here" \/ WrongInode \/ LastEventLost)

\* The worker watches the right directory and knows of all its files.
Informed == Serving /\ watched = "here" /\ dir_watched /\ unseen = 0

\* The cap of check_result_path_max_files: writing ends up enabled while the
\* files stay below it, and disabled while they do not.
SwitchFollowsFiles ==
  /\ <>[](Informed /\ entries["here"] < MaxFiles) => <>[]write_enabled
  /\ <>[](Informed /\ entries["here"] >= MaxFiles) => <>[]~write_enabled
==============================================================================
