----------------------------- MODULE Permissive -----------------------------
(***************************************************************************)
(* The agent's temporary "collect every denial" window on a domain         *)
(* (agent/src/permissive.rs): `start` makes the domain permissive with     *)
(* semanage and records a deadline in a state file, `stop` and the         *)
(* agent's own timers (`expire`) put it back, `recover` picks up after a   *)
(* restart what the previous process left.  Every operation holds one      *)
(* LOCK for its whole length, so at most one domain has a step other than  *)
(* "idle"; between its awaits the clock moves, an operator runs semanage   *)
(* by hand, and the process may end.                                       *)
(*                                                                         *)
(* Time is kept as what is left of it: left[d] is until_unix minus the     *)
(* wall clock, a timer is the monotonic time still to sleep.  The wall     *)
(* clock can be set back (MaxBack seconds in all) or forward; the timers   *)
(* cannot.  An answer that changes nothing (a refused payload, a stop for  *)
(* a domain with no entry) is a stuttering step.                           *)
(***************************************************************************)
EXTENDS Integers

CONSTANTS
  Domain,       \* SELinux domains that may be put in permissive mode
  Durations,    \* durations a start may ask for, in ticks
  RetryAfter,   \* delay before a failed expiry is tried again, in ticks
  Faults,       \* what may fail: "semanage" (a call), "write" (the state file)
  MaxBack,      \* bound: seconds the wall clock is ever set back, in all
  MaxStarts,    \* bound: start requests
  MaxCrashes    \* bound: ends of the agent process

ASSUME DurationsAssumption == Durations \subseteq Nat \ {0}
ASSUME RetryAssumption == RetryAfter \in Nat \ {0}
ASSUME BoundsAssumption == MaxBack \in Nat /\ MaxStarts \in Nat /\ MaxCrashes \in Nat

VARIABLES
  perm,     \* the policy store: who made the domain permissive, if anyone
  disk,     \* the state file: no entry, an entry of ours, or a preexisting one
  left,     \* time left of the recorded deadline, 0 without an entry
  timers,   \* sleeping timers of this process
  up,       \* the agent process runs
  todo,     \* expired entries recover has still to handle
  pc,       \* step of the operation that holds LOCK
  arg,      \* its locals: is it an expiry, the duration asked, time left of it
  leaked,   \* history: permissive by us, and no record of it anywhere
  starts, crashes, stepped

vars == <<perm, disk, left, timers, up, todo, pc, arg, leaked, starts, crashes, stepped>>

Arg   == [expiry : BOOLEAN, dur : Nat, rem : Int]
Steps == {"idle", "add", "record", "rollback", "del", "check", "finish"}

TypeOK ==
  /\ perm \in [Domain -> {"no", "agent", "operator"}]
  /\ disk \in [Domain -> {"none", "ours", "preexisting"}]
  /\ left \in [Domain -> Int]
  /\ timers \in [Domain -> SUBSET Nat]
  /\ up \in BOOLEAN
  /\ todo \in SUBSET Domain
  /\ pc \in [Domain -> Steps]
  /\ arg \in Arg
  /\ leaked \in SUBSET Domain
  /\ starts \in 0..MaxStarts
  /\ crashes \in 0..MaxCrashes
  /\ stepped \in 0..MaxBack

NoArg == [expiry |-> FALSE, dur |-> 0, rem |-> 0]

Init ==
  /\ perm = [d \in Domain |-> "no"]
  /\ disk = [d \in Domain |-> "none"]
  /\ left = [d \in Domain |-> 0]
  /\ timers = [d \in Domain |-> {}]
  /\ up = TRUE
  /\ todo = {}
  /\ pc = [d \in Domain |-> "idle"]
  /\ arg = NoArg
  /\ leaked = {}
  /\ starts = 0
  /\ crashes = 0
  /\ stepped = 0

\* LOCK is free; a command is taken up only once recover() is done (main.rs).
Free  == up /\ \A d \in Domain : pc[d] = "idle"
Ready == Free /\ todo = {}

Goto(d, step) == pc' = [pc EXCEPT ![d] = step]
Release(d)    == Goto(d, "idle") /\ arg' = NoArg

Counters == <<starts, crashes, stepped>>

-----------------------------------------------------------------------------
(* start                                                                   *)

\* The window is ours already: the deadline moves and a second timer sleeps.
ExtendStart(d, s) ==
  /\ Ready /\ starts < MaxStarts
  /\ disk[d] = "ours"
  /\ starts' = starts + 1
  /\ \/ /\ left' = [left EXCEPT ![d] = s]
        /\ timers' = [timers EXCEPT ![d] = @ \cup {s}]
     \/ /\ "write" \in Faults
        /\ UNCHANGED <<left, timers>>
  /\ UNCHANGED <<perm, disk, up, todo, pc, arg, leaked, crashes, stepped>>

\* Already permissive and no window of ours: noted, so that stop leaves it be.
\* (That this write failed is ignored.)
PreexistingStart(d, s) ==
  /\ Ready /\ starts < MaxStarts
  /\ disk[d] # "ours" /\ perm[d] # "no"
  /\ starts' = starts + 1
  /\ \/ /\ disk' = [disk EXCEPT ![d] = "preexisting"]
        /\ left' = [left EXCEPT ![d] = s]
     \/ /\ "write" \in Faults
        /\ UNCHANGED <<disk, left>>
  /\ UNCHANGED <<perm, timers, up, todo, pc, arg, leaked, crashes, stepped>>

\* Slip: semanage -a without looking at the list first.
BeginStart_slip(d, s) ==
  /\ Ready /\ starts < MaxStarts
  /\ disk[d] # "ours"
  /\ starts' = starts + 1
  /\ Goto(d, "add")
  /\ arg' = [expiry |-> FALSE, dur |-> s, rem |-> s]
  /\ UNCHANGED <<perm, disk, left, timers, up, todo, leaked, crashes, stepped>>

\* The list says the domain is not permissive: semanage -a comes next.
BeginStart(d, s) ==
  /\ Ready /\ starts < MaxStarts
  /\ disk[d] # "ours" /\ perm[d] = "no"
  /\ starts' = starts + 1
  /\ Goto(d, "add")
  /\ arg' = [expiry |-> FALSE, dur |-> s, rem |-> s]
  /\ UNCHANGED <<perm, disk, left, timers, up, todo, leaked, crashes, stepped>>

Add(d) ==
  /\ pc[d] = "add"
  /\ \/ /\ perm' = [perm EXCEPT ![d] = "agent"]
        /\ Goto(d, "record")
        /\ UNCHANGED arg
     \/ /\ "semanage" \in Faults
        /\ Release(d)
        /\ UNCHANGED perm
  /\ UNCHANGED <<disk, left, timers, up, todo, leaked, Counters>>

\* Slip: the outcome of the write is not looked at.
Record_slip(d) ==
  /\ pc[d] = "record"
  /\ disk' \in {disk, [disk EXCEPT ![d] = "ours"]}
  /\ left' = [left EXCEPT ![d] = IF disk'[d] = "ours" THEN arg.rem ELSE @]
  /\ timers' = [timers EXCEPT ![d] = @ \cup {arg.dur}]
  /\ Release(d)
  /\ UNCHANGED <<perm, up, todo, leaked, Counters>>


Record(d) ==
  /\ pc[d] = "record"
  /\ \/ /\ disk' = [disk EXCEPT ![d] = "ours"]
        /\ left' = [left EXCEPT ![d] = arg.rem]
        /\ timers' = [timers EXCEPT ![d] = @ \cup {arg.dur}]
        /\ Release(d)
     \/ /\ "write" \in Faults
        /\ Goto(d, "rollback")
        /\ UNCHANGED <<disk, left, timers, arg>>
  /\ UNCHANGED <<perm, up, todo, leaked, Counters>>

\* "Without the record nothing would ever put it back": the result of this
\* second semanage is not looked at.
Rollback(d) ==
  /\ pc[d] = "rollback"
  /\ \/ perm' = [perm EXCEPT ![d] = "no"] /\ UNCHANGED leaked
     \/ /\ "semanage" \in Faults
        /\ leaked' = IF perm[d] = "agent" THEN leaked \cup {d} ELSE leaked
        /\ UNCHANGED perm
  /\ Release(d)
  /\ UNCHANGED <<disk, left, timers, up, todo, Counters>>

-----------------------------------------------------------------------------
(* stop, expire and the removal both end in                                *)

Forget(d) ==
  /\ disk' = [disk EXCEPT ![d] = "none"]
  /\ left' = [left EXCEPT ![d] = 0]

\* Slip: whatever has an entry is removed.
StopLocked_slip(d, expiry) ==
  /\ disk[d] # "none"
  /\ Goto(d, "del")
  /\ arg' = [NoArg EXCEPT !.expiry = expiry]
  /\ UNCHANGED <<disk, left>>

\* stop_locked up to its first await.
StopLocked(d, expiry) ==
  \/ /\ disk[d] = "preexisting"
     /\ Forget(d) \/ ("write" \in Faults /\ UNCHANGED <<disk, left>>)
     /\ UNCHANGED <<pc, arg>>
  \/ /\ disk[d] = "ours"
     /\ Goto(d, "del")
     /\ arg' = [NoArg EXCEPT !.expiry = expiry]
     /\ UNCHANGED <<disk, left>>

Stop(d) ==
  /\ Ready
  /\ StopLocked(d, FALSE)
  /\ UNCHANGED <<perm, timers, up, todo, leaked, Counters>>

\* expire: the entry is read again under LOCK, one second of slack granted.
Due(d) == left[d] <= 1

\* Slip: the deadline is not read again once LOCK is held.
Expire_slip(d) ==
  \/ /\ disk[d] = "none"
     /\ UNCHANGED <<disk, left, pc, arg>>
  \/ StopLocked(d, TRUE)


Expire(d) ==
  \/ /\ disk[d] = "none" \/ ~Due(d)
     /\ UNCHANGED <<disk, left, pc, arg>>
  \/ Due(d) /\ StopLocked(d, TRUE)

Fire(d) ==
  /\ Free
  /\ 0 \in timers[d]
  /\ timers' = [timers EXCEPT ![d] = @ \ {0}]
  /\ Expire(d)
  /\ UNCHANGED <<perm, up, todo, leaked, Counters>>

\* semanage -d; it fails when the domain is not permissive (any more).
DeleteOk(d) ==
  /\ pc[d] = "del" /\ perm[d] # "no"
  /\ perm' = [perm EXCEPT ![d] = "no"]
  /\ leaked' = leaked \ {d}
  /\ Goto(d, "finish")
  /\ UNCHANGED <<disk, left, timers, up, todo, arg, Counters>>

DeleteFails(d) ==
  /\ pc[d] = "del"
  /\ perm[d] = "no" \/ "semanage" \in Faults
  /\ Goto(d, "check")
  /\ UNCHANGED <<perm, disk, left, timers, up, todo, arg, leaked, Counters>>

\* Slip: a failed expiry is only logged.
Check_slip(d) ==
  /\ pc[d] = "check"
  /\ \/ /\ perm[d] = "no"
        /\ Goto(d, "finish")
        /\ UNCHANGED arg
     \/ /\ perm[d] # "no" \/ "semanage" \in Faults
        /\ Release(d)
  /\ UNCHANGED <<perm, disk, left, timers, up, todo, leaked, Counters>>

\* "Already gone" is as good as removed; otherwise an expiry tries again later.
Check(d) ==
  /\ pc[d] = "check"
  /\ \/ /\ perm[d] = "no"
        /\ Goto(d, "finish")
        /\ UNCHANGED <<timers, arg>>
     \/ /\ perm[d] # "no" \/ "semanage" \in Faults
        /\ timers' = [timers EXCEPT ![d] = IF arg.expiry THEN @ \cup {RetryAfter} ELSE @]
        /\ Release(d)
  /\ UNCHANGED <<perm, disk, left, up, todo, leaked, Counters>>

\* finish_removal: reported as success whether or not the file was written.
Finish(d) ==
  /\ pc[d] = "finish"
  /\ Forget(d) \/ ("write" \in Faults /\ UNCHANGED <<disk, left>>)
  /\ Release(d)
  /\ UNCHANGED <<perm, timers, up, todo, leaked, Counters>>

-----------------------------------------------------------------------------
(* The process ends, and starts again                                      *)

Crash ==
  /\ up /\ crashes < MaxCrashes
  /\ up' = FALSE
  /\ crashes' = crashes + 1
  /\ timers' = [d \in Domain |-> {}]
  /\ todo' = {}
  /\ pc' = [d \in Domain |-> "idle"]
  /\ arg' = NoArg
  /\ leaked' = leaked \cup {d \in Domain : pc[d] \in {"record", "rollback"} /\ perm[d] = "agent"}
  /\ UNCHANGED <<perm, disk, left, starts, stepped>>

\* Slip: only windows still running are looked at after a restart.
Restart_slip ==
  /\ ~up
  /\ up' = TRUE
  /\ todo' = {}
  /\ timers' = [d \in Domain |-> IF disk[d] = "ours" /\ left[d] > 0 THEN {left[d]} ELSE {}]
  /\ UNCHANGED <<perm, disk, left, pc, arg, leaked, Counters>>

\* recover(): one reading of the state file and of the clock; live windows
\* of ours get a timer for what is left, expired entries are handled in turn.
Restart ==
  /\ ~up
  /\ up' = TRUE
  /\ todo' = {d \in Domain : disk[d] # "none" /\ left[d] <= 0}
  /\ timers' = [d \in Domain |-> IF disk[d] = "ours" /\ left[d] > 0 THEN {left[d]} ELSE {}]
  /\ UNCHANGED <<perm, disk, left, pc, arg, leaked, Counters>>

RecoverExpired(d) ==
  /\ Free
  /\ d \in todo
  /\ todo' = todo \ {d}
  /\ Expire(d)
  /\ UNCHANGED <<perm, timers, up, leaked, Counters>>

-----------------------------------------------------------------------------
(* The environment: an operator at the shell, and the clocks               *)

\* By hand, while no operation is at work on the domain and the tool holds
\* no entry of its own for it.
OperatorAdd(d) ==
  /\ perm[d] = "no" /\ pc[d] = "idle" /\ disk[d] # "ours"
  /\ perm' = [perm EXCEPT ![d] = "operator"]
  /\ UNCHANGED <<disk, left, timers, up, todo, pc, arg, leaked, Counters>>

OperatorRemove(d) ==
  /\ perm[d] # "no"
  /\ perm' = [perm EXCEPT ![d] = "no"]
  /\ leaked' = leaked \ {d}
  /\ UNCHANGED <<disk, left, timers, up, todo, pc, arg, Counters>>

\* A deadline long past cannot be told from one MaxBack seconds past.
Moved(n, k) == IF n + k < -MaxBack THEN n ELSE n + k
\* Slip: a timer already due keeps counting down.
Sleep_slip(t) == t - 1

Sleep(t) == IF t > 0 THEN t - 1 ELSE 0

\* The wall clock moves: every deadline on file, and the one a start computed.
Shift(k) ==
  /\ left' = [d \in Domain |-> IF disk[d] = "none" THEN left[d] ELSE Moved(left[d], k)]
  /\ arg' = IF arg.dur = 0 THEN arg ELSE [arg EXCEPT !.rem = Moved(@, k)]

Tick ==
  /\ Shift(-1)
  /\ timers' = [d \in Domain |-> {Sleep(t) : t \in timers[d]}]
  /\ UNCHANGED <<perm, disk, up, todo, pc, leaked, Counters>>

ClockForward ==
  /\ Shift(-1)
  /\ UNCHANGED <<perm, disk, timers, up, todo, pc, leaked, Counters>>

ClockBack ==
  /\ stepped < MaxBack
  /\ stepped' = stepped + 1
  /\ Shift(1)
  /\ UNCHANGED <<perm, disk, timers, up, todo, pc, leaked, starts, crashes>>

-----------------------------------------------------------------------------

Next ==
  \/ \E d \in Domain, s \in Durations :
       ExtendStart(d, s) \/ PreexistingStart(d, s) \/ BeginStart(d, s)
  \/ \E d \in Domain :
       \/ Add(d) \/ Record(d) \/ Rollback(d)
       \/ Stop(d) \/ Fire(d) \/ DeleteOk(d) \/ DeleteFails(d) \/ Check(d) \/ Finish(d)
       \/ RecoverExpired(d)
       \/ OperatorAdd(d) \/ OperatorRemove(d)
  \/ Crash \/ Restart
  \/ Tick \/ ClockForward \/ ClockBack

Spec == Init /\ [][Next]_vars

\* tokio's timers fire, its Mutex is handed over in the order it was asked
\* for (so strong fairness for those who wait for it), an operation under way
\* runs on, a dead agent is started again by systemd, and semanage does not
\* fail for ever.  No fairness of the commands, the operator or the faults.
Fairness ==
  /\ WF_vars(Tick) /\ WF_vars(Restart)
  /\ \A d \in Domain :
       /\ SF_vars(Fire(d)) /\ SF_vars(RecoverExpired(d)) /\ SF_vars(DeleteOk(d))
       /\ WF_vars(Add(d) \/ Record(d) \/ Rollback(d))
       /\ WF_vars(DeleteFails(d)) /\ WF_vars(Check(d)) /\ WF_vars(Finish(d))

FairSpec == Spec /\ Fairness

-----------------------------------------------------------------------------
(* Properties                                                              *)

\* A domain the agent made permissive is on file as ours, or is about to be
\* recorded or rolled back, unless the record was lost (`leaked`): the entry
\* is what stop, expire and recover find the way back by.
Recorded ==
  \A d \in Domain :
    perm[d] = "agent" =>
      disk[d] = "ours" \/ d \in leaked \/ pc[d] \in {"record", "rollback"}

\* While the agent runs, something will close each recorded window: recover
\* still has it to do, an expiry is at work on it, or a timer sleeps that
\* wakes when the deadline test of expire passes.  The second of slack in
\* that test pays for a wall clock set back by one second, and for no more.
DeadlineCovered ==
  up /\ stepped <= 1 =>
    \A d \in Domain :
      perm[d] = "agent" /\ disk[d] = "ours" =>
        \/ d \in todo
        \/ pc[d] # "idle" /\ arg.expiry
        \/ \E t \in timers[d] : t + stepped >= left[d]

\* An expiry closes only a window whose deadline has come: the timer of a
\* window that was extended meanwhile does nothing.
ExpiryIsDue ==
  \A d \in Domain : pc[d] # "idle" /\ arg.expiry => left[d] <= 1 + stepped

\* One operation at a time holds LOCK, and none outlives the process.
OneHolder ==
  \A d \in Domain : pc[d] # "idle" =>
    up /\ \A e \in Domain : pc[e] # "idle" => e = d

\* The agent never ends the permissive mode an operator set by hand: whatever
\* stop, expire, recover and rollback remove is the agent's own doing.
AgentRemovesOnlyItsOwn ==
  [][\A d \in Domain :
       perm[d] = "operator" /\ perm'[d] # "operator" => OperatorRemove(d)]_vars

\* What the code's comments say and a crash breaks: once no operation is under
\* way, a domain we made permissive has its entry in the state file.
NoForgottenWindow ==
  \A d \in Domain : perm[d] = "agent" /\ (\A e \in Domain : pc[e] = "idle") => disk[d] = "ours"

\* How PermissiveWindow sees a domain.
StatusOf(d) ==
  CASE perm[d] = "no"       -> "enforced"
    [] perm[d] = "operator" -> "manual"
    [] perm[d] = "agent"    -> IF d \in leaked THEN "forgotten" ELSE "window"

windowStatus == [d \in Domain |-> StatusOf(d)]

Window == INSTANCE PermissiveWindow WITH status <- windowStatus

\* Every step does to a domain what the agent promises, or nothing.
KeepsPromise == Window!Safety

\* And every window that is not forgotten comes to its end by the agent alone
\* ("the way back must never depend on anyone remembering", permissive.rs:8-9),
\* as long as the wall clock is not set back, in all, by more than the second of
\* slack in the deadline test.  Beyond that the timer fires too early, expire returns
\* (265-267) and arms nothing again: the window then stays until the agent
\* restarts or somebody stops it.
EndsWindows ==
  [](stepped <= 1) => \A d \in Domain : windowStatus[d] = "window" ~> windowStatus[d] # "window"

=============================================================================
