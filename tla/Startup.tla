------------------------------- MODULE Startup -------------------------------
(* One start of nsca, from the options to a worker that serves: main() and   *)
(* mainloop() of main.cpp, the map of config.cpp and the reads of the map by *)
(* those that use it. What the lock does to other starts is module Daemons'. *)
(*                                                                           *)
(* When the worker that is followed has read its settings, it goes on as     *)
(* module Statistics with the number of threads it read.                     *)
EXTENDS Statistics

CONSTANTS
  Supported,    \* the decryption methods libmcrypt can open
  MaxLines      \* bound: lines of the file that set something

ASSUME LinesAssumption == MaxLines \in Nat

VARIABLES
  main,        \* where the main process is
  worker,      \* one worker, or the main process as the only one
  data,        \* config::data, as integers; forked processes inherit it
  lines,       \* lines read so far
  optn, optt   \* the values of -n and -t, or 0 and -1

startVars == <<main, worker, data, lines, optn, optt>>

-----------------------------------------------------------------------------
(* The settings. An integer is what (int) leaves of strtol's long.           *)

IntMax == 2147483647

\* What check_config accepts, what it sets in place of the rest, the default it
\* assumes itself, and the default at the place where the setting is used.
Settings ==
  [nsca_workers |->
     [low |-> 1, high |-> 2000, fallback |-> 4, checked |-> 0, used |-> 4],
   nsca_threads_per_worker |->
     [low |-> 0, high |-> 1000, fallback |-> 4, checked |-> 4, used |-> 0],
   max_checks_per_connection |->
     [low |-> 1, high |-> IntMax, fallback |-> 1, checked |-> 500, used |-> 1],
   max_packet_age |->
     [low |-> 0, high |-> 604800 * 52, fallback |-> 30, checked |-> 0, used |-> 0],
   check_result_path_max_files |->
     [low |-> 0, high |-> IntMax, fallback |-> 0, checked |-> 0, used |-> 0]]

Corrected == DOMAIN Settings
Keys == Corrected \union {"decryption_method", "decryption_mode"}

GetInt(d, k, default) == IF k \in DOMAIN d THEN d[k] ELSE default

\* Set, for the keys of new; the other entries of d stay.
Set(new, d) ==
  [k \in DOMAIN new \union DOMAIN d |-> IF k \in DOMAIN new THEN new[k] ELSE d[k]]

Valid(k) == Settings[k].low..Settings[k].high
Methods == 0..26

\* Values next to every limit, for the file and the options.
Edges(low, high) == {low - 1, low, low + 1, high} \union
                    (IF high < IntMax THEN {high + 1} ELSE {})
Values(k) ==
  CASE k \in Corrected -> Edges(Settings[k].low, Settings[k].high)
    [] k = "decryption_method" -> Edges(0, 26)
    [] k = "decryption_mode" -> {0, 1}

\* The value that is used.
Used(k) == GetInt(data, k, IF k \in Corrected THEN Settings[k].used ELSE 0)

-----------------------------------------------------------------------------
StartupInit ==
  /\ InitWith(0)
  /\ main = "options" /\ worker = "none"
  /\ data = <<>> /\ lines = 0
  /\ optn = 0 /\ optt = -1

\* The loop over the options: a value out of range ends the program.
Options ==
  /\ main = "options"
  /\ \E n \in Edges(0, 100), t \in Edges(0, 1000):
       IF n \in 0..100 /\ t \in 0..1000
         THEN /\ main' = "read"
              /\ optn' \in {0, n} /\ optt' \in {-1, t}
         ELSE main' = "exited" /\ UNCHANGED <<optn, optt>>
  /\ UNCHANGED <<vars, worker, data, lines>>

\* One line of read_config that sets a known key; a later one replaces it.
ReadLine ==
  /\ main = "read" /\ lines < MaxLines
  /\ lines' = lines + 1
  /\ \E k \in Keys: \E v \in Values(k): data' = Set([x \in {k} |-> v], data)
  /\ UNCHANGED <<vars, main, worker, optn, optt>>

\* The keys for which an option was given ...
Given == (IF optn # 0 THEN {"nsca_workers"} ELSE {}) \union
         (IF optt # -1 THEN {"nsca_threads_per_worker"} ELSE {})

\* ... are set after the file was read.
OptionsAbove == Set([k \in Given |-> IF k = "nsca_workers" THEN optn ELSE optt], data)

\* The end of the file; or there is none, and the program ends.
ReadEnds ==
  /\ main = "read"
  /\ \/ /\ main' = "check"
        /\ data' = OptionsAbove
     \/ /\ main' = "exited" /\ lines = 0
        /\ UNCHANGED data
  /\ UNCHANGED <<vars, worker, lines, optn, optt>>

\* Fault: the upper limits are not looked at.
TooSmall == {k \in Corrected: GetInt(data, k, Settings[k].checked) < Settings[k].low}

OutOfRange ==
  {k \in Corrected: GetInt(data, k, Settings[k].checked) \notin Valid(k)}

\* check_config: most bad values are replaced, a bad method is refused.
CheckConfig ==
  /\ main = "check"
  /\ IF GetInt(data, "decryption_method", 0) \in Methods
       THEN /\ main' = "lock"
            /\ data' = Set([k \in OutOfRange |-> Settings[k].fallback], data)
       ELSE main' = "exited" /\ UNCHANGED data
  /\ UNCHANGED <<vars, worker, lines, optn, optt>>

\* The fork into the background may fail, and so may the lock.
Lock ==
  /\ main = "lock"
  /\ main' \in {"start", "exited"}
  /\ UNCHANGED <<vars, worker, data, lines, optn, optt>>

\* With more than one worker they are forked before the pid is written, if fork
\* does not fail.
RunWorkers ==
  /\ main = "start"
  /\ main' = "pid"
  /\ worker' \in {"none"} \union IF Used("nsca_workers") = 1 THEN {} ELSE {"work"}
  /\ UNCHANGED <<vars, data, lines, optn, optt>>

\* If the file cannot be written: exit(1), which leaves the workers alone.
WritePid ==
  /\ main = "pid"
  /\ main' \in {"loop", "exited"}
  /\ UNCHANGED <<vars, worker, data, lines, optn, optt>>

\* loop(): the main process is the only worker itself, or forks those that
\* could not be forked before.
Loop ==
  /\ main = "loop" /\ worker = "none"
  /\ worker' = "work"
  /\ UNCHANGED <<vars, main, data, lines, optn, optt>>

\* The network of the worker reads its settings. In shared mode without threads
\* it makes a crypt instance, and throws if it cannot. Nobody reads the map
\* after this, and the model drops it.
NewNetwork ==
  /\ worker = "work"
  /\ LET n == Used("nsca_threads_per_worker") IN
       IF n < 1 /\ Used("decryption_mode") = 1 /\ Used("decryption_method") \notin Supported
         THEN worker' = "died" /\ UNCHANGED threads
         ELSE /\ worker' = "serving"
              /\ threads' = IF n < MaxThreads THEN n ELSE MaxThreads
  /\ data' = <<>> /\ lines' = 0 /\ optn' = 0 /\ optt' = -1
  /\ UNCHANGED <<tpc, umaskVars, statfile, countVars, rateVars, main>>

\* The worker serves: process_queue in its threads, the timer, connections.
Serve ==
  /\ worker = "serving"
  /\ Next
  /\ UNCHANGED startVars

-----------------------------------------------------------------------------
StartupNext ==
  \/ Options \/ ReadLine \/ ReadEnds \/ CheckConfig
  \/ Lock \/ RunWorkers \/ WritePid \/ Loop
  \/ NewNetwork \/ Serve

StartupSpec == StartupInit /\ [][StartupNext]_<<vars, startVars>>

-----------------------------------------------------------------------------
(* Properties *)

\* The variables keep their types, the worker's those of Statistics.
StartupTypeOK ==
  /\ TypeOK
  /\ main \in {"options", "read", "check", "lock", "start", "pid", "loop", "exited"}
  /\ worker \in {"none", "work", "serving", "died"}
  /\ DOMAIN data \subseteq Keys /\ \A k \in DOMAIN data: data[k] \in Int
  /\ lines \in 0..MaxLines
  /\ optn \in 0..100 /\ optt \in -1..1000

\* Whatever the file and the options say and leave out, and though the defaults
\* at the check and at the use differ, what is used lies within the limits of
\* check_config, and an option that was given beats the file.
UsedInRange ==
  main \in {"lock", "start"} \/ worker = "work" =>
    /\ \A k \in Corrected: Used(k) \in Valid(k)
    /\ Used("decryption_method") \in Methods
    /\ optn # 0 => Used("nsca_workers") = optn
    /\ optt # -1 => Used("nsca_threads_per_worker") = optt
==============================================================================
