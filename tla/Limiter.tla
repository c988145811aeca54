------------------------------ MODULE Limiter -------------------------------
(***************************************************************************)
(* Memory limiting (memory.c).  The memory in use is compared with a limit *)
(* before every character of a macro.  With the backend "malloc" all       *)
(* allocations are counted; with the backend "poll" a thread measures it,  *)
(* which is switched on and off by the main thread.  The critical sections *)
(* of the mutex contain no waiting, so each one is a step.                 *)
(***************************************************************************)
EXTENDS Naturals

CONSTANTS MaxMemory,      \* bound: the units of memory that are counted
          InitialLimit    \* the limit at the start; 0 stands for no limit

ASSUME LimiterAssumption == /\ MaxMemory \in Nat \ {0}
                            /\ InitialLimit \in 0 .. MaxMemory

VARIABLES backend,   \* "malloc" or "poll": chosen when the program is built
          memory,    \* the memory that really is in use
          usage,     \* teco_memory_usage
          limit,     \* teco_memory_limit
          state,     \* teco_memory_state: "on", "off", "shutdown"
          thread     \* where the thread is: "none", "locking", "polling",
                     \* "waiting" for the condition or "gone"
limiterVars == <<backend, memory, usage, limit, state, thread>>

(* The constructor teco_memory_start_limiting runs before main.            *)
LimiterInit(b) ==
  /\ backend = b
  /\ memory = 1 /\ usage = 1
  /\ limit = InitialLimit
  /\ state = "on"
  /\ thread = IF b = "poll" /\ InitialLimit # 0 THEN "locking" ELSE "none"

SignalledNot(th) == th

(* g_cond_signal wakes a thread that waits; nobody else remembers it.      *)
Signalled(th) == IF th = "waiting" THEN "locking" ELSE th

StartLimitingWith(lim) ==
  IF lim = 0 \/ backend # "poll" THEN UNCHANGED <<state, thread>>
  ELSE /\ state' = "on"
       /\ thread' = IF thread = "none" THEN "locking" ELSE Signalled(thread)

StartLimiting == StartLimitingWith(limit)

StopLimiting ==
  /\ state' = IF backend = "poll" THEN "off" ELSE state
  /\ UNCHANGED thread

(* The destructor of debug builds; joining the thread is a step of its own.*)
Shutdown ==
  /\ state' = IF thread = "none" THEN state ELSE "shutdown"
  /\ thread' = Signalled(thread)
  /\ UNCHANGED <<backend, memory, usage, limit>>

Joined == thread \in {"none", "gone"}

(* Allocations change the usage at once only if they are counted.          *)
Allocate(m) ==
  /\ memory' = m
  /\ usage' = IF backend = "malloc" THEN m ELSE usage

SettingFails(new) == new # 0 /\ usage > new

SetLimit(new) ==
  /\ limit' = new
  /\ IF new = 0 THEN StopLimiting ELSE StartLimitingWith(new)

Exceeded(request) == limit # 0 /\ usage + request >= limit

-----------------------------------------------------------------------------
(* The thread.  With the mutex locked it looks at the state.               *)

ThreadLooks ==
  /\ thread = "locking"
  /\ thread' = CASE state = "on" -> "polling"
                 [] state = "off" -> "waiting"
                 [] state = "shutdown" -> "gone"
  /\ UNCHANGED <<backend, memory, usage, limit, state>>

(* What the operating system tells of the process, each in its way.        *)
MeasuresUsage == usage' = memory

ThreadMeasures ==
  /\ thread = "polling"
  /\ MeasuresUsage
  /\ thread' = "locking"
  /\ UNCHANGED <<backend, memory, limit, state>>

(* A condition may wake those who wait for it without being signalled.     *)
ThreadWakesSpuriously ==
  /\ thread = "waiting"
  /\ thread' = "locking"
  /\ UNCHANGED <<backend, memory, usage, limit, state>>

ThreadNext == ThreadLooks \/ ThreadMeasures \/ ThreadWakesSpuriously
=============================================================================
