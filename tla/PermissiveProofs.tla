-------------------------- MODULE PermissiveProofs --------------------------
(***************************************************************************)
(* Proofs about Permissive, for every set of domains and durations, every  *)
(* choice of faults and every bound: the type invariant, the invariants    *)
(* Recorded, DeadlineCovered and ExpiryIsDue, and that every step keeps    *)
(* the promise of PermissiveWindow.                                        *)
(***************************************************************************)
EXTENDS Permissive, TLAPS

\* What each step of an operation may rely on: LOCK keeps the entry it read
\* valid, and nobody else makes the domain permissive meanwhile.
StepKnows ==
  \A d \in Domain :
    /\ pc[d] \in {"add", "record", "rollback"} =>
         disk[d] # "ours" /\ todo = {} /\ ~arg.expiry
    /\ pc[d] \in {"add", "record"} => arg.rem <= arg.dur + stepped
    /\ pc[d] = "add" => perm[d] = "no"
    /\ pc[d] \in {"record", "rollback"} => perm[d] # "operator"
    /\ pc[d] \in {"del", "check", "finish"} => disk[d] = "ours"
    /\ pc[d] = "finish" => perm[d] = "no"

\* An entry of ours never covers a domain an operator set by hand, and a
\* forgotten domain has neither an entry of ours nor an operation on it.
EntryKnows ==
  \A d \in Domain :
    /\ disk[d] = "ours" => perm[d] # "operator"
    /\ d \in leaked => perm[d] = "agent" /\ disk[d] # "ours" /\ pc[d] = "idle"

\* What recover set aside as expired has come due, but for a clock set back.
TodoIsDue == \A d \in todo : left[d] <= stepped

IInv ==
  /\ TypeOK
  /\ OneHolder
  /\ StepKnows
  /\ EntryKnows
  /\ Recorded
  /\ TodoIsDue
  /\ ExpiryIsDue
  /\ DeadlineCovered

LEMMA InitIInv == Init => IInv
  BY BoundsAssumption
     DEF Init, IInv, TypeOK, OneHolder, StepKnows, EntryKnows, Recorded, TodoIsDue,
         ExpiryIsDue, DeadlineCovered, Arg, NoArg, Steps

\* The locals an operation starts with, and the ones a clock step leaves.
LEMMA ArgTyped ==
  ASSUME arg \in Arg
  PROVE  /\ NoArg \in Arg
         /\ \A b \in BOOLEAN : [NoArg EXCEPT !.expiry = b] \in Arg
         /\ \A k \in Int : [arg EXCEPT !.rem = k] \in Arg
         /\ arg.expiry \in BOOLEAN /\ arg.dur \in Nat /\ arg.rem \in Int
  BY DEF Arg, NoArg

\* A step of the wall clock moves what is left of the deadline, and only that.
LEMMA ShiftArg ==
  ASSUME arg \in Arg, NEW k \in Int, Shift(k)
  PROVE  /\ arg' \in Arg
         /\ arg'.expiry = arg.expiry /\ arg'.dur = arg.dur
         /\ arg'.rem \in {arg.rem, arg.rem + k}
  BY BoundsAssumption DEF Shift, Moved, Arg

\* A start request taken up keeps the inductive invariant.
LEMMA StartSteps ==
  ASSUME IInv, NEW d \in Domain, NEW s \in Durations,
         ExtendStart(d, s) \/ PreexistingStart(d, s) \/ BeginStart(d, s)
  PROVE  IInv'
<1> USE DurationsAssumption, RetryAssumption, BoundsAssumption DEF IInv, TypeOK
<1>1. CASE ExtendStart(d, s)
  <2>1. TypeOK'
    <3>1. arg' \in Arg
      BY <1>1, ArgTyped DEF ExtendStart, Ready, Free
    <3>2. timers' \in [Domain -> SUBSET Nat]
      BY <1>1, ArgTyped DEF ExtendStart, Ready, Free
    <3>3. starts' \in 0..MaxStarts /\ crashes' \in 0..MaxCrashes /\ stepped' \in 0..MaxBack
      BY <1>1 DEF ExtendStart, Ready, Free
    <3> QED BY <1>1, <3>1, <3>2, <3>3 DEF ExtendStart, Ready, Free
  <2>2. OneHolder' /\ StepKnows' /\ EntryKnows' /\ Recorded'
    BY <1>1 DEF ExtendStart, Ready, Free, OneHolder, StepKnows, EntryKnows, Recorded
  <2>3. TodoIsDue' /\ ExpiryIsDue'
    BY <1>1 DEF ExtendStart, Ready, Free, OneHolder, StepKnows, TodoIsDue, ExpiryIsDue
  <2>4. DeadlineCovered'
    BY <1>1
       DEF ExtendStart, Ready, Free, OneHolder, StepKnows, EntryKnows, TodoIsDue,
           ExpiryIsDue, DeadlineCovered
  <2> QED BY <2>1, <2>2, <2>3, <2>4
<1>2. CASE PreexistingStart(d, s)
  <2>1. TypeOK'
    <3>1. arg' \in Arg
      BY <1>2, ArgTyped DEF PreexistingStart, Ready, Free
    <3>2. timers' \in [Domain -> SUBSET Nat]
      BY <1>2, ArgTyped DEF PreexistingStart, Ready, Free
    <3>3. starts' \in 0..MaxStarts /\ crashes' \in 0..MaxCrashes /\ stepped' \in 0..MaxBack
      BY <1>2 DEF PreexistingStart, Ready, Free
    <3> QED BY <1>2, <3>1, <3>2, <3>3 DEF PreexistingStart, Ready, Free
  <2>2. OneHolder' /\ StepKnows' /\ EntryKnows' /\ Recorded'
    BY <1>2 DEF PreexistingStart, Ready, Free, OneHolder, StepKnows, EntryKnows, Recorded
  <2>3. TodoIsDue' /\ ExpiryIsDue'
    BY <1>2 DEF PreexistingStart, Ready, Free, OneHolder, StepKnows, TodoIsDue, ExpiryIsDue
  <2>4. DeadlineCovered'
    BY <1>2
       DEF PreexistingStart, Ready, Free, OneHolder, StepKnows, EntryKnows, TodoIsDue,
           ExpiryIsDue, DeadlineCovered
  <2> QED BY <2>1, <2>2, <2>3, <2>4
<1>3. CASE BeginStart(d, s)
  <2>1. TypeOK'
    <3>1. arg' \in Arg
      BY <1>3 DEF BeginStart, Arg
    <3>2. timers' \in [Domain -> SUBSET Nat]
      BY <1>3, ArgTyped DEF BeginStart, Ready, Free, Goto
    <3>3. starts' \in 0..MaxStarts /\ crashes' \in 0..MaxCrashes /\ stepped' \in 0..MaxBack
      BY <1>3 DEF BeginStart, Ready, Free, Goto
    <3> QED BY <1>3, <3>1, <3>2, <3>3 DEF BeginStart, Ready, Free, Goto, Steps
  <2>2. OneHolder' /\ StepKnows' /\ EntryKnows' /\ Recorded'
    BY <1>3 DEF BeginStart, Ready, Free, Goto, OneHolder, StepKnows, EntryKnows, Recorded
  <2>3. TodoIsDue' /\ ExpiryIsDue'
    BY <1>3 DEF BeginStart, Ready, Free, Goto, OneHolder, StepKnows, TodoIsDue, ExpiryIsDue
  <2>4. DeadlineCovered'
    BY <1>3
       DEF BeginStart, Ready, Free, Goto, OneHolder, StepKnows, EntryKnows, TodoIsDue,
           ExpiryIsDue, DeadlineCovered
  <2> QED BY <2>1, <2>2, <2>3, <2>4
<1> QED BY <1>1, <1>2, <1>3

\* So do the steps that open a window: semanage -a, the record, the rollback.
LEMMA OpeningSteps ==
  ASSUME IInv, NEW d \in Domain,
         Add(d) \/ Record(d) \/ Rollback(d)
  PROVE  IInv'
<1> USE DurationsAssumption, RetryAssumption, BoundsAssumption DEF IInv, TypeOK
<1>1. CASE Add(d)
  <2>1. TypeOK'
    <3>1. arg' \in Arg
      BY <1>1, ArgTyped DEF Add, Goto, Release, NoArg, Counters
    <3>2. timers' \in [Domain -> SUBSET Nat]
      BY <1>1, ArgTyped DEF Add, Goto, Release, NoArg, Counters
    <3>3. starts' \in 0..MaxStarts /\ crashes' \in 0..MaxCrashes /\ stepped' \in 0..MaxBack
      BY <1>1 DEF Add, Goto, Release, NoArg, Counters
    <3> QED BY <1>1, <3>1, <3>2, <3>3 DEF Add, Goto, Release, NoArg, Counters, Steps
  <2>2. OneHolder' /\ StepKnows' /\ EntryKnows' /\ Recorded'
    BY <1>1
       DEF Add, Goto, Release, NoArg, Counters, OneHolder, StepKnows, EntryKnows, Recorded
  <2>3. TodoIsDue' /\ ExpiryIsDue'
    BY <1>1
       DEF Add, Goto, Release, NoArg, Counters, OneHolder, StepKnows, TodoIsDue,
           ExpiryIsDue
  <2>4. DeadlineCovered'
    BY <1>1
       DEF Add, Goto, Release, NoArg, Counters, OneHolder, StepKnows, EntryKnows,
           TodoIsDue, ExpiryIsDue, DeadlineCovered
  <2> QED BY <2>1, <2>2, <2>3, <2>4
<1>2. CASE Record(d)
  <2>1. TypeOK'
    <3>1. arg' \in Arg
      BY <1>2, ArgTyped DEF Record, Goto, Release, NoArg, Counters
    <3>2. timers' \in [Domain -> SUBSET Nat]
      BY <1>2, ArgTyped DEF Record, Goto, Release, NoArg, Counters
    <3>3. starts' \in 0..MaxStarts /\ crashes' \in 0..MaxCrashes /\ stepped' \in 0..MaxBack
      BY <1>2 DEF Record, Goto, Release, NoArg, Counters
    <3> QED BY <1>2, <3>1, <3>2, <3>3, ArgTyped DEF Record, Goto, Release, Steps
  <2>2. OneHolder' /\ StepKnows' /\ EntryKnows' /\ Recorded'
    BY <1>2
       DEF Record, Goto, Release, NoArg, Counters, OneHolder, StepKnows, EntryKnows,
           Recorded
  <2>3. TodoIsDue' /\ ExpiryIsDue'
    BY <1>2
       DEF Record, Goto, Release, NoArg, Counters, OneHolder, StepKnows, TodoIsDue,
           ExpiryIsDue
  <2>4. DeadlineCovered'
    BY <1>2
       DEF Record, Goto, Release, NoArg, Counters, OneHolder, StepKnows, EntryKnows,
           TodoIsDue, ExpiryIsDue, DeadlineCovered
  <2> QED BY <2>1, <2>2, <2>3, <2>4
<1>3. CASE Rollback(d)
  <2>1. TypeOK'
    <3>1. arg' \in Arg
      BY <1>3, ArgTyped DEF Rollback, Goto, Release, NoArg, Counters
    <3>2. timers' \in [Domain -> SUBSET Nat]
      BY <1>3, ArgTyped DEF Rollback, Goto, Release, NoArg, Counters
    <3>3. starts' \in 0..MaxStarts /\ crashes' \in 0..MaxCrashes /\ stepped' \in 0..MaxBack
      BY <1>3 DEF Rollback, Goto, Release, NoArg, Counters
    <3> QED BY <1>3, <3>1, <3>2, <3>3 DEF Rollback, Goto, Release, NoArg, Counters, Steps
  <2>2. OneHolder' /\ StepKnows' /\ EntryKnows' /\ Recorded'
    BY <1>3
       DEF Rollback, Goto, Release, NoArg, Counters, OneHolder, StepKnows, EntryKnows,
           Recorded
  <2>3. TodoIsDue' /\ ExpiryIsDue'
    BY <1>3
       DEF Rollback, Goto, Release, NoArg, Counters, OneHolder, StepKnows, TodoIsDue,
           ExpiryIsDue
  <2>4. DeadlineCovered'
    BY <1>3
       DEF Rollback, Goto, Release, NoArg, Counters, OneHolder, StepKnows, EntryKnows,
           TodoIsDue, ExpiryIsDue, DeadlineCovered
  <2> QED BY <2>1, <2>2, <2>3, <2>4
<1> QED BY <1>1, <1>2, <1>3

\* So do the ways into a removal: a stop, a timer, recover.
LEMMA RemovalRequests ==
  ASSUME IInv, NEW d \in Domain,
         Stop(d) \/ Fire(d) \/ RecoverExpired(d)
  PROVE  IInv'
<1> USE DurationsAssumption, RetryAssumption, BoundsAssumption DEF IInv, TypeOK
<1>1. CASE Stop(d)
  <2>1. TypeOK'
    <3>1. arg' \in Arg
      BY <1>1, ArgTyped DEF Stop, Ready, Free, StopLocked, Forget, Goto, NoArg, Counters
    <3>2. timers' \in [Domain -> SUBSET Nat]
      BY <1>1, ArgTyped DEF Stop, Ready, Free, StopLocked, Forget, Goto, NoArg, Counters
    <3>3. starts' \in 0..MaxStarts /\ crashes' \in 0..MaxCrashes /\ stepped' \in 0..MaxBack
      BY <1>1 DEF Stop, Ready, Free, StopLocked, Forget, Goto, NoArg, Counters
    <3> QED BY <1>1, <3>1, <3>2, <3>3
       DEF Stop, Ready, Free, StopLocked, Forget, Goto, NoArg, Counters, Steps
  <2>2. OneHolder' /\ StepKnows' /\ EntryKnows' /\ Recorded'
    BY <1>1
       DEF Stop, Ready, Free, StopLocked, Forget, Goto, NoArg, Counters, OneHolder,
           StepKnows, EntryKnows, Recorded
  <2>3. TodoIsDue' /\ ExpiryIsDue'
    BY <1>1
       DEF Stop, Ready, Free, StopLocked, Forget, Goto, NoArg, Counters, OneHolder,
           StepKnows, TodoIsDue, ExpiryIsDue
  <2>4. DeadlineCovered'
    BY <1>1
       DEF Stop, Ready, Free, StopLocked, Forget, Goto, NoArg, Counters, OneHolder,
           StepKnows, EntryKnows, TodoIsDue, ExpiryIsDue, DeadlineCovered
  <2> QED BY <2>1, <2>2, <2>3, <2>4
<1>2. CASE Fire(d)
  <2>1. TypeOK'
    <3>1. arg' \in Arg
      BY <1>2, ArgTyped DEF Fire, Expire, Due, Free, StopLocked, Forget, Goto, NoArg, Counters
    <3>2. timers' \in [Domain -> SUBSET Nat]
      BY <1>2, ArgTyped DEF Fire, Expire, Due, Free, StopLocked, Forget, Goto, NoArg, Counters
    <3>3. starts' \in 0..MaxStarts /\ crashes' \in 0..MaxCrashes /\ stepped' \in 0..MaxBack
      BY <1>2 DEF Fire, Expire, Due, Free, StopLocked, Forget, Goto, NoArg, Counters
    <3> QED BY <1>2, <3>1, <3>2, <3>3
       DEF Fire, Expire, Due, Free, StopLocked, Forget, Goto, NoArg, Counters, Steps
  <2>2. OneHolder' /\ StepKnows' /\ EntryKnows' /\ Recorded'
    BY <1>2
       DEF Fire, Expire, Due, Free, StopLocked, Forget, Goto, NoArg, Counters, OneHolder,
           StepKnows, EntryKnows, Recorded
  <2>3. TodoIsDue' /\ ExpiryIsDue'
    BY <1>2
       DEF Fire, Expire, Due, Free, StopLocked, Forget, Goto, NoArg, Counters, OneHolder,
           StepKnows, TodoIsDue, ExpiryIsDue
  <2>4. DeadlineCovered'
    BY <1>2
       DEF Fire, Expire, Due, Free, StopLocked, Forget, Goto, NoArg, Counters, OneHolder,
           StepKnows, EntryKnows, TodoIsDue, ExpiryIsDue, DeadlineCovered
  <2> QED BY <2>1, <2>2, <2>3, <2>4
<1>3. CASE RecoverExpired(d)
  <2>1. TypeOK'
    <3>1. arg' \in Arg
      BY <1>3, ArgTyped
         DEF RecoverExpired, Expire, Due, Free, StopLocked, Forget, Goto, NoArg, Counters
    <3>2. timers' \in [Domain -> SUBSET Nat]
      BY <1>3, ArgTyped
         DEF RecoverExpired, Expire, Due, Free, StopLocked, Forget, Goto, NoArg, Counters
    <3>3. starts' \in 0..MaxStarts /\ crashes' \in 0..MaxCrashes /\ stepped' \in 0..MaxBack
      BY <1>3 DEF RecoverExpired, Expire, Due, Free, StopLocked, Forget, Goto, NoArg, Counters
    <3> QED BY <1>3, <3>1, <3>2, <3>3
       DEF RecoverExpired, Expire, Due, Free, StopLocked, Forget, Goto, NoArg, Counters,
           Steps
  <2>2. OneHolder' /\ StepKnows' /\ EntryKnows' /\ Recorded'
    BY <1>3
       DEF RecoverExpired, Expire, Due, Free, StopLocked, Forget, Goto, NoArg, Counters,
           OneHolder, StepKnows, EntryKnows, Recorded
  <2>3. TodoIsDue' /\ ExpiryIsDue'
    BY <1>3
       DEF RecoverExpired, Expire, Due, Free, StopLocked, Forget, Goto, NoArg, Counters,
           OneHolder, StepKnows, TodoIsDue, ExpiryIsDue
  <2>4. DeadlineCovered'
    BY <1>3
       DEF RecoverExpired, Expire, Due, Free, StopLocked, Forget, Goto, NoArg, Counters,
           OneHolder, StepKnows, EntryKnows, TodoIsDue, ExpiryIsDue, DeadlineCovered
  <2> QED BY <2>1, <2>2, <2>3, <2>4
<1> QED BY <1>1, <1>2, <1>3

\* So do the steps of a removal.
LEMMA RemovalSteps ==
  ASSUME IInv, NEW d \in Domain,
         DeleteOk(d) \/ DeleteFails(d) \/ Check(d) \/ Finish(d)
  PROVE  IInv'
<1> USE DurationsAssumption, RetryAssumption, BoundsAssumption DEF IInv, TypeOK
<1>1. CASE DeleteOk(d)
  <2>1. TypeOK'
    <3>1. arg' \in Arg
      BY <1>1, ArgTyped DEF DeleteOk, Goto, Counters
    <3>2. timers' \in [Domain -> SUBSET Nat]
      BY <1>1, ArgTyped DEF DeleteOk, Goto, Counters
    <3>3. starts' \in 0..MaxStarts /\ crashes' \in 0..MaxCrashes /\ stepped' \in 0..MaxBack
      BY <1>1 DEF DeleteOk, Goto, Counters
    <3> QED BY <1>1, <3>1, <3>2, <3>3 DEF DeleteOk, Goto, Counters, Steps
  <2>2. OneHolder' /\ StepKnows' /\ EntryKnows' /\ Recorded'
    BY <1>1 DEF DeleteOk, Goto, Counters, OneHolder, StepKnows, EntryKnows, Recorded
  <2>3. TodoIsDue' /\ ExpiryIsDue'
    BY <1>1 DEF DeleteOk, Goto, Counters, OneHolder, StepKnows, TodoIsDue, ExpiryIsDue
  <2>4. DeadlineCovered'
    BY <1>1
       DEF DeleteOk, Goto, Counters, OneHolder, StepKnows, EntryKnows, TodoIsDue,
           ExpiryIsDue, DeadlineCovered
  <2> QED BY <2>1, <2>2, <2>3, <2>4
<1>2. CASE DeleteFails(d)
  <2>1. TypeOK'
    <3>1. arg' \in Arg
      BY <1>2, ArgTyped DEF DeleteFails, Goto, Counters
    <3>2. timers' \in [Domain -> SUBSET Nat]
      BY <1>2, ArgTyped DEF DeleteFails, Goto, Counters
    <3>3. starts' \in 0..MaxStarts /\ crashes' \in 0..MaxCrashes /\ stepped' \in 0..MaxBack
      BY <1>2 DEF DeleteFails, Goto, Counters
    <3> QED BY <1>2, <3>1, <3>2, <3>3 DEF DeleteFails, Goto, Counters, Steps
  <2>2. OneHolder' /\ StepKnows' /\ EntryKnows' /\ Recorded'
    BY <1>2 DEF DeleteFails, Goto, Counters, OneHolder, StepKnows, EntryKnows, Recorded
  <2>3. TodoIsDue' /\ ExpiryIsDue'
    BY <1>2 DEF DeleteFails, Goto, Counters, OneHolder, StepKnows, TodoIsDue, ExpiryIsDue
  <2>4. DeadlineCovered'
    BY <1>2
       DEF DeleteFails, Goto, Counters, OneHolder, StepKnows, EntryKnows, TodoIsDue,
           ExpiryIsDue, DeadlineCovered
  <2> QED BY <2>1, <2>2, <2>3, <2>4
<1>3. CASE Check(d)
  <2>1. TypeOK'
    <3>1. arg' \in Arg
      BY <1>3, ArgTyped DEF Check, Goto, Release, NoArg, Counters
    <3>2. timers' \in [Domain -> SUBSET Nat]
      BY <1>3, ArgTyped DEF Check, Goto, Release, NoArg, Counters
    <3>3. starts' \in 0..MaxStarts /\ crashes' \in 0..MaxCrashes /\ stepped' \in 0..MaxBack
      BY <1>3 DEF Check, Goto, Release, NoArg, Counters
    <3> QED BY <1>3, <3>1, <3>2, <3>3 DEF Check, Goto, Release, NoArg, Counters, Steps
  <2>2. OneHolder' /\ StepKnows' /\ EntryKnows' /\ Recorded'
    BY <1>3
       DEF Check, Goto, Release, NoArg, Counters, OneHolder, StepKnows, EntryKnows,
           Recorded
  <2>3. TodoIsDue' /\ ExpiryIsDue'
    BY <1>3
       DEF Check, Goto, Release, NoArg, Counters, OneHolder, StepKnows, TodoIsDue,
           ExpiryIsDue
  <2>4. DeadlineCovered'
    BY <1>3
       DEF Check, Goto, Release, NoArg, Counters, OneHolder, StepKnows, EntryKnows,
           TodoIsDue, ExpiryIsDue, DeadlineCovered
  <2> QED BY <2>1, <2>2, <2>3, <2>4
<1>4. CASE Finish(d)
  <2>1. TypeOK'
    <3>1. arg' \in Arg
      BY <1>4, ArgTyped DEF Finish, Forget, Goto, Release, NoArg, Counters
    <3>2. timers' \in [Domain -> SUBSET Nat]
      BY <1>4, ArgTyped DEF Finish, Forget, Goto, Release, NoArg, Counters
    <3>3. starts' \in 0..MaxStarts /\ crashes' \in 0..MaxCrashes /\ stepped' \in 0..MaxBack
      BY <1>4 DEF Finish, Forget, Goto, Release, NoArg, Counters
    <3> QED BY <1>4, <3>1, <3>2, <3>3
       DEF Finish, Forget, Goto, Release, NoArg, Counters, Steps
  <2>2. OneHolder' /\ StepKnows' /\ EntryKnows' /\ Recorded'
    BY <1>4
       DEF Finish, Forget, Goto, Release, NoArg, Counters, OneHolder, StepKnows,
           EntryKnows, Recorded
  <2>3. TodoIsDue' /\ ExpiryIsDue'
    BY <1>4
       DEF Finish, Forget, Goto, Release, NoArg, Counters, OneHolder, StepKnows, TodoIsDue,
           ExpiryIsDue
  <2>4. DeadlineCovered'
    BY <1>4
       DEF Finish, Forget, Goto, Release, NoArg, Counters, OneHolder, StepKnows,
           EntryKnows, TodoIsDue, ExpiryIsDue, DeadlineCovered
  <2> QED BY <2>1, <2>2, <2>3, <2>4
<1> QED BY <1>1, <1>2, <1>3, <1>4

\* So do the end of the process and its next start.
LEMMA ProcessSteps ==
  ASSUME IInv,
         Crash \/ Restart
  PROVE  IInv'
<1> USE DurationsAssumption, RetryAssumption, BoundsAssumption DEF IInv, TypeOK
<1>1. CASE Crash
  <2>1. TypeOK'
    <3>1. arg' \in Arg
      BY <1>1, ArgTyped DEF Crash, NoArg
    <3>2. timers' \in [Domain -> SUBSET Nat]
      BY <1>1, ArgTyped DEF Crash, NoArg
    <3>3. starts' \in 0..MaxStarts /\ crashes' \in 0..MaxCrashes /\ stepped' \in 0..MaxBack
      BY <1>1 DEF Crash, NoArg
    <3> QED BY <1>1, <3>1, <3>2, <3>3 DEF Crash, NoArg, Steps
  <2>2. OneHolder' /\ StepKnows' /\ EntryKnows' /\ Recorded'
    BY <1>1 DEF Crash, NoArg, OneHolder, StepKnows, EntryKnows, Recorded
  <2>3. TodoIsDue' /\ ExpiryIsDue'
    BY <1>1 DEF Crash, NoArg, OneHolder, StepKnows, TodoIsDue, ExpiryIsDue
  <2>4. DeadlineCovered'
    BY <1>1
       DEF Crash, NoArg, OneHolder, StepKnows, EntryKnows, TodoIsDue, ExpiryIsDue,
           DeadlineCovered
  <2> QED BY <2>1, <2>2, <2>3, <2>4
<1>2. CASE Restart
  <2>1. TypeOK'
    <3>1. arg' \in Arg
      BY <1>2, ArgTyped DEF Restart, Counters
    <3>2. timers' \in [Domain -> SUBSET Nat]
      BY <1>2, ArgTyped DEF Restart, Counters
    <3>3. starts' \in 0..MaxStarts /\ crashes' \in 0..MaxCrashes /\ stepped' \in 0..MaxBack
      BY <1>2 DEF Restart, Counters
    <3> QED BY <1>2, <3>1, <3>2, <3>3 DEF Restart, Counters, Steps
  <2>2. OneHolder' /\ StepKnows' /\ EntryKnows' /\ Recorded'
    BY <1>2 DEF Restart, Counters, OneHolder, StepKnows, EntryKnows, Recorded
  <2>3. TodoIsDue' /\ ExpiryIsDue'
    BY <1>2 DEF Restart, Counters, OneHolder, StepKnows, TodoIsDue, ExpiryIsDue
  <2>4. DeadlineCovered'
    BY <1>2
       DEF Restart, Counters, OneHolder, StepKnows, EntryKnows, TodoIsDue, ExpiryIsDue,
           DeadlineCovered
  <2> QED BY <2>1, <2>2, <2>3, <2>4
<1> QED BY <1>1, <1>2

\* So does what an operator does by hand.
LEMMA OperatorSteps ==
  ASSUME IInv, NEW d \in Domain,
         OperatorAdd(d) \/ OperatorRemove(d)
  PROVE  IInv'
<1> USE DurationsAssumption, RetryAssumption, BoundsAssumption DEF IInv, TypeOK
<1>1. CASE OperatorAdd(d)
  <2>1. TypeOK'
    <3>1. arg' \in Arg
      BY <1>1, ArgTyped DEF OperatorAdd, Counters
    <3>2. timers' \in [Domain -> SUBSET Nat]
      BY <1>1, ArgTyped DEF OperatorAdd, Counters
    <3>3. starts' \in 0..MaxStarts /\ crashes' \in 0..MaxCrashes /\ stepped' \in 0..MaxBack
      BY <1>1 DEF OperatorAdd, Counters
    <3> QED BY <1>1, <3>1, <3>2, <3>3 DEF OperatorAdd, Counters, Steps
  <2>2. OneHolder' /\ StepKnows' /\ EntryKnows' /\ Recorded'
    BY <1>1 DEF OperatorAdd, Counters, OneHolder, StepKnows, EntryKnows, Recorded
  <2>3. TodoIsDue' /\ ExpiryIsDue'
    BY <1>1 DEF OperatorAdd, Counters, OneHolder, StepKnows, TodoIsDue, ExpiryIsDue
  <2>4. DeadlineCovered'
    BY <1>1
       DEF OperatorAdd, Counters, OneHolder, StepKnows, EntryKnows, TodoIsDue, ExpiryIsDue,
           DeadlineCovered
  <2> QED BY <2>1, <2>2, <2>3, <2>4
<1>2. CASE OperatorRemove(d)
  <2>1. TypeOK'
    <3>1. arg' \in Arg
      BY <1>2, ArgTyped DEF OperatorRemove, Counters
    <3>2. timers' \in [Domain -> SUBSET Nat]
      BY <1>2, ArgTyped DEF OperatorRemove, Counters
    <3>3. starts' \in 0..MaxStarts /\ crashes' \in 0..MaxCrashes /\ stepped' \in 0..MaxBack
      BY <1>2 DEF OperatorRemove, Counters
    <3> QED BY <1>2, <3>1, <3>2, <3>3 DEF OperatorRemove, Counters, Steps
  <2>2. OneHolder' /\ StepKnows' /\ EntryKnows' /\ Recorded'
    BY <1>2 DEF OperatorRemove, Counters, OneHolder, StepKnows, EntryKnows, Recorded
  <2>3. TodoIsDue' /\ ExpiryIsDue'
    BY <1>2 DEF OperatorRemove, Counters, OneHolder, StepKnows, TodoIsDue, ExpiryIsDue
  <2>4. DeadlineCovered'
    BY <1>2
       DEF OperatorRemove, Counters, OneHolder, StepKnows, EntryKnows, TodoIsDue,
           ExpiryIsDue, DeadlineCovered
  <2> QED BY <2>1, <2>2, <2>3, <2>4
<1> QED BY <1>1, <1>2

\* So do the clocks.
LEMMA ClockSteps ==
  ASSUME IInv,
         Tick \/ ClockForward \/ ClockBack
  PROVE  IInv'
<1> USE DurationsAssumption, RetryAssumption, BoundsAssumption DEF IInv, TypeOK
<1>1. CASE Tick
  <2>0. /\ arg' \in Arg
        /\ arg'.expiry = arg.expiry /\ arg'.dur = arg.dur
        /\ arg'.rem \in {arg.rem, arg.rem + (-1)}
    <3>1. Shift(-1)
      BY <1>1 DEF Tick
    <3> QED BY <3>1, ShiftArg
  <2>1. TypeOK'
    <3>1. arg' \in Arg
      BY <2>0
    <3>2. timers' \in [Domain -> SUBSET Nat]
      BY <1>1, ArgTyped DEF Tick, Shift, Moved, Sleep, Counters
    <3>3. starts' \in 0..MaxStarts /\ crashes' \in 0..MaxCrashes /\ stepped' \in 0..MaxBack
      BY <1>1 DEF Tick, Shift, Moved, Sleep, Counters
    <3> QED BY <1>1, <3>1, <3>2, <3>3 DEF Tick, Shift, Moved, Sleep, Counters, Steps
  <2>2. OneHolder' /\ StepKnows' /\ EntryKnows' /\ Recorded'
    BY <1>1, <2>0, ArgTyped
       DEF Tick, Shift, Moved, Sleep, Counters, OneHolder, StepKnows, EntryKnows, Recorded
  <2>3. TodoIsDue' /\ ExpiryIsDue'
    BY <1>1, <2>0, ArgTyped
       DEF Tick, Shift, Moved, Sleep, Counters, OneHolder, StepKnows, TodoIsDue,
           ExpiryIsDue
  <2>4. DeadlineCovered'
    <3>1. SUFFICES ASSUME DeadlineCovered, up, stepped <= 1, NEW d \in Domain,
                          perm[d] = "agent", disk[d] = "ours",
                          d \notin todo, ~(pc[d] # "idle" /\ arg.expiry)
                   PROVE  \E t \in timers'[d] : t + stepped >= left'[d]
      BY <1>1, <2>0 DEF Tick, Counters, DeadlineCovered
    <3>2. PICK t \in timers[d] : t + stepped >= left[d]
      BY <3>1 DEF DeadlineCovered
    <3>3. Sleep(t) \in timers'[d] /\ left'[d] = Moved(left[d], -1)
      BY <1>1, <3>1, <3>2 DEF Tick, Shift
    <3>4. Sleep(t) + stepped >= Moved(left[d], -1)
      BY <3>2 DEF Sleep, Moved
    <3> QED BY <3>3, <3>4
  <2> QED BY <2>1, <2>2, <2>3, <2>4
<1>2. CASE ClockForward
  <2>0. /\ arg' \in Arg
        /\ arg'.expiry = arg.expiry /\ arg'.dur = arg.dur
        /\ arg'.rem \in {arg.rem, arg.rem + (-1)}
    <3>1. Shift(-1)
      BY <1>2 DEF ClockForward
    <3> QED BY <3>1, ShiftArg
  <2>1. TypeOK'
    <3>1. arg' \in Arg
      BY <2>0
    <3>2. timers' \in [Domain -> SUBSET Nat]
      BY <1>2, ArgTyped DEF ClockForward, Shift, Moved, Counters
    <3>3. starts' \in 0..MaxStarts /\ crashes' \in 0..MaxCrashes /\ stepped' \in 0..MaxBack
      BY <1>2 DEF ClockForward, Shift, Moved, Counters
    <3> QED BY <1>2, <3>1, <3>2, <3>3 DEF ClockForward, Shift, Moved, Counters, Steps
  <2>2. OneHolder' /\ StepKnows' /\ EntryKnows' /\ Recorded'
    BY <1>2, <2>0, ArgTyped
       DEF ClockForward, Shift, Moved, Counters, OneHolder, StepKnows, EntryKnows, Recorded
  <2>3. TodoIsDue' /\ ExpiryIsDue'
    BY <1>2, <2>0, ArgTyped
       DEF ClockForward, Shift, Moved, Counters, OneHolder, StepKnows, TodoIsDue,
           ExpiryIsDue
  <2>4. DeadlineCovered'
    BY <1>2, <2>0
       DEF ClockForward, Shift, Moved, Counters, OneHolder, StepKnows, EntryKnows,
           TodoIsDue, ExpiryIsDue, DeadlineCovered
  <2> QED BY <2>1, <2>2, <2>3, <2>4
<1>3. CASE ClockBack
  <2>0. /\ arg' \in Arg
        /\ arg'.expiry = arg.expiry /\ arg'.dur = arg.dur
        /\ arg'.rem \in {arg.rem, arg.rem + (1)}
    <3>1. Shift(1)
      BY <1>3 DEF ClockBack
    <3> QED BY <3>1, ShiftArg
  <2>1. TypeOK'
    <3>1. arg' \in Arg
      BY <2>0
    <3>2. timers' \in [Domain -> SUBSET Nat]
      BY <1>3, ArgTyped DEF ClockBack, Shift, Moved
    <3>3. starts' \in 0..MaxStarts /\ crashes' \in 0..MaxCrashes /\ stepped' \in 0..MaxBack
      BY <1>3 DEF ClockBack, Shift, Moved
    <3> QED BY <1>3, <3>1, <3>2, <3>3 DEF ClockBack, Shift, Moved, Steps
  <2>2. OneHolder' /\ StepKnows' /\ EntryKnows' /\ Recorded'
    BY <1>3, <2>0, ArgTyped
       DEF ClockBack, Shift, Moved, OneHolder, StepKnows, EntryKnows, Recorded
  <2>3. TodoIsDue' /\ ExpiryIsDue'
    BY <1>3, <2>0, ArgTyped
       DEF ClockBack, Shift, Moved, OneHolder, StepKnows, TodoIsDue, ExpiryIsDue
  <2>4. DeadlineCovered'
    BY <1>3, <2>0
       DEF ClockBack, Shift, Moved, OneHolder, StepKnows, EntryKnows, TodoIsDue,
           ExpiryIsDue, DeadlineCovered
  <2> QED BY <2>1, <2>2, <2>3, <2>4
<1> QED BY <1>1, <1>2, <1>3

LEMMA NextIInv == IInv /\ [Next]_vars => IInv'
<1> SUFFICES ASSUME IInv, [Next]_vars PROVE IInv'
  OBVIOUS
<1>1. CASE Next
  BY <1>1, StartSteps, OpeningSteps, RemovalRequests, RemovalSteps, ProcessSteps,
     OperatorSteps, ClockSteps DEF Next
<1>2. CASE UNCHANGED vars
  BY <1>2 DEF vars, IInv, TypeOK, OneHolder, StepKnows, EntryKnows, Recorded, TodoIsDue,
              ExpiryIsDue, DeadlineCovered
<1> QED BY <1>1, <1>2

\* The conjunction above is an invariant.
THEOREM InductiveInvariant == Spec => []IInv
  BY InitIInv, NextIInv, PTL DEF Spec

\* Every variable keeps its type.
THEOREM TypeCorrect == Spec => []TypeOK
  BY InductiveInvariant, PTL DEF IInv

\* A domain the agent loosened is on file, or its record was lost and counted.
THEOREM RecordedAlways == Spec => []Recorded
  BY InductiveInvariant, PTL DEF IInv

\* As long as the wall clock is set back by one second at most, every recorded
\* window has a timer, an expiry or recover coming for it.
THEOREM DeadlineCoveredAlways == Spec => []DeadlineCovered
  BY InductiveInvariant, PTL DEF IInv

\* No expiry ends a window before its deadline, extensions included.
THEOREM ExpiryIsDueAlways == Spec => []ExpiryIsDue
  BY InductiveInvariant, PTL DEF IInv

-----------------------------------------------------------------------------
(* The refinement of PermissiveWindow                                      *)

\* A step that moves one domain, as PermissiveWindow allows.
LEMMA OneDomainMoves ==
  ASSUME NEW d \in Domain,
         \A e \in Domain \ {d} : StatusOf(e)' = StatusOf(e),
         \/ StatusOf(d)' = StatusOf(d)
         \/ StatusOf(d) = "enforced" /\ StatusOf(d)' \in {"window", "manual"}
         \/ StatusOf(d) = "window" /\ StatusOf(d)' = "forgotten"
         \/ StatusOf(d) \in {"window", "forgotten", "manual"} /\ StatusOf(d)' = "enforced"
  PROVE  [Window!Next]_windowStatus
<1>1. /\ windowStatus' = [windowStatus EXCEPT ![d] = StatusOf(d)']
      /\ windowStatus[d] = StatusOf(d)
  BY DEF windowStatus
<1>2. CASE StatusOf(d)' = StatusOf(d)
  <2>1. windowStatus' = windowStatus
    BY <1>2 DEF windowStatus
  <2> QED BY <2>1
<1>3. CASE StatusOf(d)' # StatusOf(d)
  BY <1>1, <1>3
     DEF Window!Next, Window!Open, Window!Forget, Window!OperatorAdd,
         Window!OperatorRemove, Window!StatusSet, Window!Move
<1> QED BY <1>2, <1>3

\* What the status of a domain says of the variables it is read from.
LEMMA StatusSays ==
  ASSUME IInv, NEW d \in Domain
  PROVE  /\ perm[d] = "no" => StatusOf(d) = "enforced"
         /\ perm[d] = "operator" => StatusOf(d) = "manual"
         /\ perm[d] = "agent" /\ d \in leaked => StatusOf(d) = "forgotten"
         /\ perm[d] = "agent" /\ d \notin leaked => StatusOf(d) = "window"
         /\ perm[d] \in {"no", "agent", "operator"}
  BY DEF IInv, TypeOK, StatusOf

\* A step that leaves perm and leaked alone leaves every status alone.
LEMMA StatusStays ==
  ASSUME UNCHANGED <<perm, leaked>>
  PROVE  UNCHANGED windowStatus
  BY DEF windowStatus, StatusOf

\* The steps that do move one.
LEMMA StatusMoves ==
  ASSUME IInv, IInv', NEW d \in Domain,
         \/ Add(d) \/ Rollback(d) \/ DeleteOk(d)
         \/ OperatorAdd(d) \/ OperatorRemove(d)
  PROVE  [Window!Next]_windowStatus
<1>1. /\ \A e \in Domain \ {d} : perm'[e] = perm[e]
      /\ \A e \in Domain \ {d} : e \in leaked' <=> e \in leaked
  BY DEF IInv, TypeOK, Add, Rollback, DeleteOk, OperatorAdd, OperatorRemove
<1>2. \A e \in Domain \ {d} : StatusOf(e)' = StatusOf(e)
  BY <1>1 DEF StatusOf
<1>3. /\ perm'[d] = "no" => StatusOf(d)' = "enforced"
      /\ perm'[d] = "operator" => StatusOf(d)' = "manual"
      /\ perm'[d] = "agent" /\ d \in leaked' => StatusOf(d)' = "forgotten"
      /\ perm'[d] = "agent" /\ d \notin leaked' => StatusOf(d)' = "window"
      /\ perm'[d] \in {"no", "agent", "operator"}
  BY DEF IInv, TypeOK, StatusOf
<1>4. /\ d \in leaked => perm[d] = "agent" /\ pc[d] = "idle"
      /\ pc[d] = "add" => perm[d] = "no"
      /\ pc[d] = "rollback" => perm[d] # "operator"
  BY DEF IInv, EntryKnows, StepKnows
<1>5. CASE Add(d)
  BY <1>2, <1>3, <1>4, <1>5, StatusSays, OneDomainMoves DEF Add, IInv, TypeOK
<1>6. CASE Rollback(d)
  BY <1>2, <1>3, <1>4, <1>6, StatusSays, OneDomainMoves DEF Rollback, IInv, TypeOK
<1>7. CASE DeleteOk(d)
  BY <1>2, <1>3, <1>4, <1>7, StatusSays, OneDomainMoves DEF DeleteOk, IInv, TypeOK
<1>8. CASE OperatorAdd(d)
  BY <1>2, <1>3, <1>4, <1>8, StatusSays, OneDomainMoves DEF OperatorAdd, IInv, TypeOK
<1>9. CASE OperatorRemove(d)
  BY <1>2, <1>3, <1>4, <1>9, StatusSays, OneDomainMoves DEF OperatorRemove, IInv, TypeOK
<1> QED BY <1>5, <1>6, <1>7, <1>8, <1>9

\* The end of the process forgets at most the one window whose start held LOCK.
LEMMA CrashForgets ==
  ASSUME IInv, IInv', Crash
  PROVE  [Window!Next]_windowStatus
<1>1. CASE \E d \in Domain : pc[d] \in {"record", "rollback"} /\ perm[d] = "agent"
  <2>1. PICK d \in Domain : pc[d] \in {"record", "rollback"} /\ perm[d] = "agent"
    BY <1>1
  <2>2. leaked' = leaked \cup {d} /\ perm' = perm /\ d \notin leaked
    BY <2>1 DEF Crash, IInv, OneHolder, EntryKnows
  <2>3. \A e \in Domain \ {d} : StatusOf(e)' = StatusOf(e)
    BY <2>2 DEF StatusOf
  <2>4. StatusOf(d) = "window" /\ StatusOf(d)' = "forgotten"
    BY <2>1, <2>2 DEF StatusOf
  <2> QED BY <2>3, <2>4, OneDomainMoves
<1>2. CASE ~\E d \in Domain : pc[d] \in {"record", "rollback"} /\ perm[d] = "agent"
  <2>1. UNCHANGED <<perm, leaked>>
    BY <1>2 DEF Crash
  <2> QED BY <2>1, StatusStays
<1> QED BY <1>1, <1>2

\* Permissive implements the safety of PermissiveWindow.
THEOREM PromiseKept == Spec => KeepsPromise
<1>1. Init => Window!Init
  BY DEF Init, Window!Init, windowStatus, StatusOf
<1>2. IInv /\ IInv' /\ [Next]_vars => [Window!Next]_windowStatus
  <2> SUFFICES ASSUME IInv, IInv', [Next]_vars PROVE [Window!Next]_windowStatus
    OBVIOUS
  <2>1. CASE UNCHANGED <<perm, leaked>>
    BY <2>1, StatusStays
  <2>2. CASE ~UNCHANGED <<perm, leaked>>
    <3>1. \/ Crash
          \/ \E d \in Domain : \/ Add(d) \/ Rollback(d) \/ DeleteOk(d)
                               \/ OperatorAdd(d) \/ OperatorRemove(d)
      BY <2>2 DEF Next, vars, ExtendStart, PreexistingStart, BeginStart, Record, Stop, Fire,
                  DeleteFails, Check, Finish, Restart, RecoverExpired, Tick, ClockForward,
                  ClockBack
    <3> QED BY <3>1, StatusMoves, CrashForgets
  <2> QED BY <2>1, <2>2
<1> QED
  BY <1>1, <1>2, InductiveInvariant, PTL DEF Spec, KeepsPromise, Window!Safety

\* No step of the agent ends the permissive mode an operator set by hand.
THEOREM OnlyItsOwn == Spec => AgentRemovesOnlyItsOwn
<1>1. IInv /\ [Next]_vars =>
        [\A d \in Domain :
           perm[d] = "operator" /\ perm'[d] # "operator" => OperatorRemove(d)]_vars
  <2> SUFFICES ASSUME IInv, [Next]_vars, NEW d \in Domain, perm[d] = "operator",
                      perm'[d] # "operator"
               PROVE  OperatorRemove(d)
    OBVIOUS
  <2>1. PICK e \in Domain : \/ Add(e) \/ Rollback(e) \/ DeleteOk(e)
                            \/ OperatorAdd(e) \/ OperatorRemove(e)
    BY DEF Next, vars, ExtendStart, PreexistingStart, BeginStart, Record, Stop, Fire,
           DeleteFails, Check, Finish, Crash, Restart, RecoverExpired, Tick, ClockForward,
           ClockBack
  <2>2. e = d
    BY <2>1 DEF IInv, TypeOK, Add, Rollback, DeleteOk, OperatorAdd, OperatorRemove
  <2> QED
    BY <2>1, <2>2 DEF IInv, TypeOK, StepKnows, EntryKnows, Add, Rollback, DeleteOk,
                      OperatorAdd
<1> QED BY <1>1, InductiveInvariant, PTL DEF Spec, AgentRemovesOnlyItsOwn

=============================================================================
