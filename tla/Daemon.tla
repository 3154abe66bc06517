------------------------------- MODULE Daemon -------------------------------
(***************************************************************************)
(* The life of the process (main.rs): connecting to the buttplug server    *)
(* with doubling delays (connect_with_retry in playback.rs), start-up, the *)
(* select loop, a signal, and what has to end before the process does.     *)
(*                                                                         *)
(* Time is counted in ticks.  Whatever is due is done within JITTER ticks  *)
(* of becoming due, or of the step before it: Tick waits for it.  A        *)
(* connection attempt is answered or refused at once.                      *)
(*                                                                         *)
(* SIGTERM has its default effect until main installs a handler, right     *)
(* before the loop.  A ctrl-c that arrives while a handler runs finds no   *)
(* listener and is lost: a step that changes nothing.                      *)
(***************************************************************************)
EXTENDS Integers

CONSTANTS
    Pads,                   \* evdev devices
    INITIAL_DELAY, MAX_DELAY,
    JITTER                  \* bound: how late a step may be

ASSUME DaemonAssumption ==
    /\ INITIAL_DELAY \in Nat \ {0} /\ MAX_DELAY \in Nat /\ INITIAL_DELAY <= MAX_DELAY
    /\ JITTER \in Nat

VARIABLES
    stage,
    server,         \* the buttplug server is there
    delay,
    sleep,          \* time to the next attempt to connect
    stdin,          \* the blocking read of stdin
    readers,        \* pads with a blocking reader
    signalled,      \* main has a signal to take
    told,           \* history: stop_all reached the server
    waited,         \* history: how long the server has been there without a connection
    late            \* for how long something has been due

daemon_vars == <<stage, server, delay, sleep, stdin, readers, signalled, told, waited>>

Stages == {"connecting", "loading", "spawning", "running", "stopping", "returned",
           "failed",        \* main has returned an error, before the loop
           "gone"}

(* main has not come to its loop, and no handler of a signal is installed. *)
Unguarded == stage \in {"connecting", "loading", "spawning", "failed"}

(* The client keeps the connection it has made, or has none. *)
Connected == server /\ stage \notin {"connecting", "gone"}

(* The tracepoints are attached, and their events are or will be handled. *)
Probing == stage \in {"spawning", "running"}

DaemonInit ==
    /\ stage = "connecting"
    /\ server \in BOOLEAN
    /\ delay = INITIAL_DELAY
    /\ sleep = 0
    /\ stdin = "unread"
    /\ readers = {}
    /\ signalled = FALSE
    /\ told = FALSE
    /\ waited = 0

-----------------------------------------------------------------------------
(* Mutant: the delay is doubled without end. *)
RetryUncapped == delay' = 2 * delay

Retry == delay' = IF 2 * delay < MAX_DELAY THEN 2 * delay ELSE MAX_DELAY

connect_with_retry ==
    /\ stage = "connecting" /\ sleep <= 0
    /\ IF server
       THEN /\ stage' = "loading"
            /\ stdin' = "reading"
            /\ waited' = 0
            /\ delay' = INITIAL_DELAY /\ sleep' = 0      \* out of scope
       ELSE /\ sleep' = delay
            /\ Retry
            /\ UNCHANGED <<stage, stdin, waited>>
    /\ UNCHANGED <<server, readers, signalled, told>>

(* load_probe and the first listing of devices; either may fail, and main  *)
(* with it.                                                                *)
load_probe ==
    /\ stage = "loading"
    /\ stage' \in {"spawning", "failed"}
    /\ UNCHANGED <<server, delay, sleep, stdin, readers, signalled, told, waited>>

(* The readers of the devices listed; then the handler of SIGTERM is       *)
(* installed, which may fail.                                              *)
spawn_readers(listed) ==
    /\ stage = "spawning"
    /\ stage' \in {"running", "failed"}
    /\ readers' = listed
    /\ UNCHANGED <<server, delay, sleep, stdin, signalled, told, waited>>

rescan_devices ==
    /\ stage = "running"
    /\ readers' = Pads
    /\ UNCHANGED <<stage, server, delay, sleep, stdin, signalled, told, waited>>

(* Mutant: main returns at once. *)
ReturnWithoutStop ==
    /\ stage = "running" /\ signalled
    /\ stage' = "returned"
    /\ UNCHANGED <<server, delay, sleep, stdin, readers, signalled, told, waited>>

(* The signal's branch, up to the await. *)
stop_all ==
    /\ stage = "running" /\ signalled
    /\ stage' = "stopping"
    /\ UNCHANGED <<server, delay, sleep, stdin, readers, signalled, told, waited>>

(* Mutant: the branch does not return. *)
StopAllLoops ==
    /\ stage = "stopping"
    /\ told' = server
    /\ stage' = "running"
    /\ UNCHANGED <<server, delay, sleep, stdin, readers, signalled, waited>>

StopAllReturns ==
    /\ stage = "stopping"
    /\ told' = server
    /\ stage' = "returned"
    /\ UNCHANGED <<server, delay, sleep, stdin, readers, signalled, waited>>

Blocked == readers # {} \/ stdin = "reading"

(* The runtime's shutdown waits for every blocking thread, and readers     *)
(* loop for good.                                                          *)
DropRuntime ==
    /\ stage \in {"returned", "failed"}
    /\ ~Blocked
    /\ stage' = "gone"
    /\ UNCHANGED <<server, delay, sleep, stdin, readers, signalled, told, waited>>

DaemonStep ==
    \/ connect_with_retry
    \/ load_probe
    \/ \E listed \in SUBSET Pads : spawn_readers(listed)
    \/ StopAllReturns
    \/ DropRuntime

(* What DaemonStep has to do by now. *)
DaemonDue ==
    \/ stage = "connecting" /\ sleep <= 0
    \/ stage \in {"loading", "spawning", "stopping"}
    \/ stage = "running" /\ signalled
    \/ stage \in {"returned", "failed"} /\ ~Blocked

-----------------------------------------------------------------------------
(* The world outside. *)

Signal ==
    /\ stage # "gone"
    /\ IF Unguarded THEN stage' = "gone" /\ UNCHANGED signalled
                    ELSE signalled' = TRUE /\ UNCHANGED stage
    /\ UNCHANGED <<server, delay, sleep, stdin, readers, told, waited>>

(* A server that leaves is not connected to again: it does not come back   *)
(* once it was connected to.                                               *)
ServerChanges ==
    /\ stage # "gone"
    /\ stage = "connecting" \/ server
    /\ server' = ~server
    /\ waited' = 0
    /\ UNCHANGED <<stage, delay, sleep, stdin, readers, signalled, told>>

(* End of file; or a line, after which a runtime being dropped does not    *)
(* read again.                                                             *)
StdinEnds ==
    /\ stdin = "reading"
    /\ stdin' = "ended"
    /\ UNCHANGED <<stage, server, delay, sleep, readers, signalled, told, waited>>

DaemonTick ==
    /\ sleep' = IF stage = "connecting" THEN sleep - 1 ELSE sleep
    /\ waited' = IF stage = "connecting" /\ server THEN waited + 1 ELSE waited
    /\ UNCHANGED <<stage, server, delay, stdin, readers, signalled, told>>

-----------------------------------------------------------------------------
DaemonTypeOK ==
    /\ stage \in Stages
    /\ server \in BOOLEAN
    /\ delay \in INITIAL_DELAY .. MAX_DELAY
    /\ sleep \in -JITTER .. MAX_DELAY
    /\ stdin \in {"unread", "reading", "ended"}
    /\ readers \subseteq Pads
    /\ signalled \in BOOLEAN
    /\ told \in BOOLEAN
    /\ waited \in Nat
    /\ late \in 0 .. JITTER

(* However long the server was away, the daemon connects soon after it is  *)
(* there: the doubling delay (playback.rs:76-77) is capped.                *)
ConnectsInTime == waited <= MAX_DELAY + JITTER
=============================================================================
