-------------------------------- MODULE Miner --------------------------------
(***************************************************************************)
(* Starting and stopping block production on one node: the miner API        *)
(* (chain/eth/api.go, backend.go), Miner (chain/miner/miner.go) and the     *)
(* mint loop and update loop of the worker (chain/miner/worker.go), at the  *)
(* granularity of their atomic loads and stores, channel closes and channel *)
(* replacements.  What a mint loop does between two looks at its stopper    *)
(* channel is the subject of the module Dpos.                               *)
(*                                                                          *)
(* A channel is a number; closing one that is closed already panics, which  *)
(* ends the process.                                                        *)
(***************************************************************************)
EXTENDS Integers, FiniteSets

CONSTANTS
    MaxStarts,   \* bound: calls of StartMining by the operator
    MaxStops,    \* bound: calls of StopMining by the operator
    MaxHeads,    \* bound: chain head events
    Syncs,       \* whether the downloader synchronises (Start, Done events)
    Patient      \* whether the operator and the downloader act only once
                 \* everything that was started or stopped before has settled

ASSUME BoundAssumption == {MaxStarts, MaxStops, MaxHeads} \subseteq Nat

VARIABLES
    canStart, shouldStart, mining,   \* Miner.canStart, shouldStart, mining
    working,                         \* worker.mining
    stopper, quitCh,                 \* the channels in worker's fields
    closed,                          \* the channels that were closed
    fresh,                           \* the next new channel
    loop,                            \* the mint loops ever started
    pc,                              \* where each goroutine stands
    heads, stops,
    lockHeld,                        \* Ethereum.lock was taken and not given back
    panicked

minerFlags == <<canStart, shouldStart, mining>>
channels == <<stopper, quitCh, closed, fresh>>
counters == <<heads, stops, lockHeld>>
vars == <<canStart, shouldStart, mining, working, stopper, quitCh, closed, fresh,
          loop, pc, heads, stops, lockHeld, panicked>>

\* StartMining runs Miner.Start in a goroutine of its own.  The other threads
\* are the operator's, Miner.update and worker.update.
Starter == 1 .. MaxStarts
Operator == 0
MinerUpdate == -1
WorkerUpdate == -2
Thread == Starter \union {Operator, MinerUpdate, WorkerUpdate}

\* Each Start that gets through starts one loop: the starters' and update's.
LoopId == 1 .. MaxStarts + 1

Alive == {l \in LoopId : loop[l].pc \notin {"none", "done"}}

Goto(t, label) == pc' = [pc EXCEPT ![t] = label]

\* The label a thread continues at when Miner.Start or Miner.Stop returns.
AfterStart(t) == IF t = MinerUpdate THEN "off" ELSE "end"
AfterStop(t) == IF t = MinerUpdate THEN "shouldRestart" ELSE "idle"

Settled ==
    /\ \A t \in Thread : pc[t] \in {"none", "idle", "wait", "off", "end"}
    /\ \A l \in Alive : loop[l].pc \in {"select", "mint"}
    /\ stopper \notin closed

\* A panic ends the process: nothing happens after it.
Survives == ~panicked /\ UNCHANGED panicked

Close(ch) ==
    /\ ~panicked
    /\ panicked' = (ch \in closed)
    /\ closed' = closed \union {ch}

-----------------------------------------------------------------------------
(* Miner.Start *)

StartFlag(t) ==
    /\ pc[t] = "start"
    /\ shouldStart' = TRUE
    /\ Goto(t, "startCheck")
    /\ UNCHANGED <<canStart, mining, working, channels, loop, counters>>
    /\ Survives

\* "Network syncing, will start miner afterwards"
StartLater(t) ==
    /\ pc[t] = "startCheck"
    /\ ~canStart
    /\ Goto(t, AfterStart(t))
    /\ UNCHANGED <<minerFlags, working, channels, loop, counters>>
    /\ Survives

StartAllowed(t) ==
    /\ pc[t] = "startCheck"
    /\ canStart
    /\ Goto(t, "startNow")
    /\ UNCHANGED <<minerFlags, working, channels, loop, counters>>
    /\ Survives

\* By now a synchronisation may have taken canStart away again.
StartNow(t) ==
    /\ pc[t] = "startNow"
    /\ mining' = TRUE
    /\ Goto(t, "startWorker")
    /\ UNCHANGED <<canStart, shouldStart, working, channels, loop, counters>>
    /\ Survives

\* worker.start, under the worker's lock: a new mint loop, which waits on the
\* stopper it finds.
StartWorker(t) ==
    /\ pc[t] = "startWorker"
    /\ \A u \in Thread : pc[u] # "stopClose"
    /\ working' = TRUE
    /\ LET l == CHOOSE i \in LoopId : loop[i].pc = "none" /\ \A j \in 1 .. i - 1 : loop[j].pc # "none"
       IN  loop' = [loop EXCEPT ![l] = [pc |-> "mint", waitsOn |-> stopper]]
    /\ Goto(t, AfterStart(t))
    /\ UNCHANGED <<minerFlags, channels, counters>>
    /\ Survives

-----------------------------------------------------------------------------
(* Miner.Stop *)

\* worker.stop looks at mining before it takes the lock.
StopCheck(t) ==
    /\ pc[t] = "stop"
    /\ Goto(t, IF working THEN "stopWorker" ELSE "stopMining")
    /\ UNCHANGED <<minerFlags, working, channels, loop, counters>>
    /\ Survives

\* With the lock taken the flag is cleared ...
StopWorker(t) ==
    /\ pc[t] = "stopWorker"
    /\ \A u \in Thread : pc[u] # "stopClose"
    /\ working' = FALSE
    /\ Goto(t, "stopClose")
    /\ UNCHANGED <<minerFlags, channels, loop, counters>>
    /\ Survives

\* Mutant of StopClose: the stopper is left open.
StopCloseForgot(t) ==
    /\ pc[t] = "stopClose"
    /\ Goto(t, "stopMining")
    /\ UNCHANGED <<minerFlags, working, channels, loop, counters>>
    /\ Survives

\* ... and the stopper closed that is in the field by then.
StopClose(t) ==
    /\ pc[t] = "stopClose"
    /\ Close(stopper)
    /\ Goto(t, "stopMining")
    /\ UNCHANGED <<minerFlags, working, stopper, quitCh, fresh, loop, counters>>

\* Mutant of StopMining: the miner goes on saying that it is mining.
StopMiningForgot(t) ==
    /\ pc[t] = "stopMining"
    /\ Goto(t, "stopShould")
    /\ UNCHANGED <<minerFlags, working, channels, loop, counters>>
    /\ Survives

StopMining(t) ==
    /\ pc[t] = "stopMining"
    /\ mining' = FALSE
    /\ Goto(t, "stopShould")
    /\ UNCHANGED <<canStart, shouldStart, working, channels, loop, counters>>
    /\ Survives

StopShould(t) ==
    /\ pc[t] = "stopShould"
    /\ shouldStart' = FALSE
    /\ Goto(t, AfterStop(t))
    /\ UNCHANGED <<canStart, mining, working, channels, loop, counters>>
    /\ Survives

-----------------------------------------------------------------------------
(* The operator *)

\* PrivateMinerAPI.Start: nothing when the miner is mining, else a goroutine.
\* The gas price and the coinbase are read under Ethereum.lock: with the lock
\* held the call never gets further.
ApiStart ==
    /\ pc[Operator] = "idle"
    /\ Patient => Settled
    /\ ~mining
    /\ ~lockHeld
    /\ \E t \in Starter :
         /\ pc[t] = "none"
         /\ \A u \in 1 .. t - 1 : pc[u] # "none"
         /\ Goto(t, "start")
    /\ UNCHANGED <<minerFlags, working, channels, loop, counters>>
    /\ Survives

ApiStop ==
    /\ pc[Operator] = "idle"
    /\ Patient => Settled
    /\ stops < MaxStops
    /\ stops' = stops + 1
    /\ Goto(Operator, "stop")
    /\ UNCHANGED <<minerFlags, working, channels, loop, heads, lockHeld>>
    /\ Survives

\* SetLocalValidator on a chain that has producers or more than the genesis
\* block: the error returns leave Ethereum.lock locked.  (At genesis it notes
\* the validator and unlocks, which nothing here depends on.)
SetLocalValidatorRefused ==
    /\ ~lockHeld
    /\ lockHeld' = TRUE
    /\ UNCHANGED <<minerFlags, working, channels, loop, pc, heads, stops>>
    /\ Survives

-----------------------------------------------------------------------------
(* Miner.update: one synchronisation, then the loop ends *)

SyncStart ==
    /\ Syncs
    /\ pc[MinerUpdate] = "wait"
    /\ canStart
    /\ Patient => Settled
    /\ canStart' = FALSE
    /\ Goto(MinerUpdate, "syncMining")
    /\ UNCHANGED <<shouldStart, mining, working, channels, loop, counters>>
    /\ Survives

SyncMining ==
    /\ pc[MinerUpdate] = "syncMining"
    /\ Goto(MinerUpdate, IF mining THEN "stop" ELSE "wait")
    /\ UNCHANGED <<minerFlags, working, channels, loop, counters>>
    /\ Survives

\* After Stop: mining goes on when the synchronisation is done.
SyncShouldRestart ==
    /\ pc[MinerUpdate] = "shouldRestart"
    /\ shouldStart' = TRUE
    /\ Goto(MinerUpdate, "wait")
    /\ UNCHANGED <<canStart, mining, working, channels, loop, counters>>
    /\ Survives

\* Done or Failed: shouldStart is read first ...
SyncDone ==
    /\ pc[MinerUpdate] = "wait"
    /\ ~canStart
    /\ Patient => Settled
    /\ Goto(MinerUpdate, IF shouldStart THEN "allowAndStart" ELSE "allow")
    /\ UNCHANGED <<minerFlags, working, channels, loop, counters>>
    /\ Survives

\* ... then canStart is set ...
SyncAllow ==
    /\ pc[MinerUpdate] \in {"allow", "allowAndStart"}
    /\ canStart' = TRUE
    /\ Goto(MinerUpdate, IF pc[MinerUpdate] = "allow" THEN "clear" ELSE "clearAndStart")
    /\ UNCHANGED <<shouldStart, mining, working, channels, loop, counters>>
    /\ Survives

\* ... and shouldStart cleared, and what was read decides about Start.
SyncClear ==
    /\ pc[MinerUpdate] \in {"clear", "clearAndStart"}
    /\ shouldStart' = FALSE
    /\ Goto(MinerUpdate, IF pc[MinerUpdate] = "clear" THEN "off" ELSE "start")
    /\ UNCHANGED <<canStart, mining, working, channels, loop, counters>>
    /\ Survives

-----------------------------------------------------------------------------
(* worker.update on a chain head event *)

HeadClose ==
    /\ pc[WorkerUpdate] = "idle"
    /\ heads < MaxHeads
    /\ heads' = heads + 1
    /\ Close(quitCh)
    /\ Goto(WorkerUpdate, "renew")
    /\ UNCHANGED <<minerFlags, working, stopper, quitCh, fresh, loop, stops, lockHeld>>

HeadRenew ==
    /\ pc[WorkerUpdate] = "renew"
    /\ quitCh' = fresh
    /\ fresh' = fresh + 1
    /\ Goto(WorkerUpdate, "idle")
    /\ UNCHANGED <<minerFlags, working, stopper, closed, loop, counters>>
    /\ Survives

-----------------------------------------------------------------------------
(* worker.mintLoop *)

\* A tick: mintBlock, which may take until the next slot.
LoopTick(l) ==
    /\ loop[l].pc = "select"
    /\ loop' = [loop EXCEPT ![l].pc = "mint"]
    /\ UNCHANGED <<minerFlags, working, channels, pc, counters>>
    /\ Survives

\* Back to the select, which reads the stopper field.
LoopSelect(l) ==
    /\ loop[l].pc = "mint"
    /\ loop' = [loop EXCEPT ![l] = [pc |-> "select", waitsOn |-> stopper]]
    /\ UNCHANGED <<minerFlags, working, channels, pc, counters>>
    /\ Survives

LoopStopped(l) ==
    /\ loop[l].pc = "select"
    /\ loop[l].waitsOn \in closed
    /\ Close(quitCh)
    /\ loop' = [loop EXCEPT ![l].pc = "renew"]
    /\ UNCHANGED <<minerFlags, working, stopper, quitCh, fresh, pc, counters>>

LoopRenewQuit(l) ==
    /\ loop[l].pc = "renew"
    /\ quitCh' = fresh
    /\ fresh' = fresh + 1
    /\ loop' = [loop EXCEPT ![l].pc = "renewStopper"]
    /\ UNCHANGED <<minerFlags, working, stopper, closed, pc, counters>>
    /\ Survives

LoopRenewStopper(l) ==
    /\ loop[l].pc = "renewStopper"
    /\ stopper' = fresh
    /\ fresh' = fresh + 1
    /\ loop' = [loop EXCEPT ![l].pc = "done"]
    /\ UNCHANGED <<minerFlags, working, quitCh, closed, pc, counters>>
    /\ Survives

LoopRenew(l) == LoopRenewQuit(l) \/ LoopRenewStopper(l)
Loop(l) == LoopTick(l) \/ LoopSelect(l) \/ LoopStopped(l) \/ LoopRenew(l)

-----------------------------------------------------------------------------
Init ==
    /\ canStart = TRUE /\ shouldStart = FALSE /\ mining = FALSE /\ working = FALSE
    /\ quitCh = 1 /\ stopper = 2 /\ closed = {} /\ fresh = 3
    /\ loop = [l \in LoopId |-> [pc |-> "none", waitsOn |-> 0]]
    /\ pc = [t \in Thread |->
               CASE t = Operator -> "idle"
                 [] t = MinerUpdate -> "wait"
                 [] t = WorkerUpdate -> "idle"
                 [] OTHER -> "none"]
    /\ heads = 0 /\ stops = 0 /\ lockHeld = FALSE
    /\ panicked = FALSE

Start(t) == StartFlag(t) \/ StartLater(t) \/ StartAllowed(t) \/ StartNow(t) \/ StartWorker(t)
Stop(t) == StopCheck(t) \/ StopWorker(t) \/ StopClose(t) \/ StopMining(t) \/ StopShould(t)
SyncHandler == SyncMining \/ SyncShouldRestart \/ SyncAllow \/ SyncClear
Head == HeadClose \/ HeadRenew

Next ==
    \/ ApiStart \/ ApiStop \/ SetLocalValidatorRefused \/ SyncStart \/ SyncDone \/ SyncHandler \/ Head
    \/ \E t \in Thread : Start(t) \/ Stop(t)
    \/ \E l \in LoopId : Loop(l)

Spec == Init /\ [][Next]_vars

\* Goroutines that can go on do, a synchronisation ends, and a loop whose
\* stopper is closed takes that case of its select in the end.
FairSpec ==
    /\ Spec
    /\ \A t \in Thread : WF_vars(Start(t) \/ Stop(t))
    /\ WF_vars(SyncHandler)
    /\ SF_vars(SyncDone)
    /\ WF_vars(HeadRenew)
    /\ \A l \in LoopId :
         /\ WF_vars(LoopSelect(l) \/ LoopRenew(l))
         /\ SF_vars(LoopStopped(l))

-----------------------------------------------------------------------------
\* Once everything has settled, the miner says it is mining exactly when one
\* mint loop runs, and worker and miner agree (Start, Stop, the replacement of
\* the stopper channel by the loop that ends, and Stop and Start by a
\* synchronisation).
FlagsMatchLoops ==
    Settled /\ ~panicked =>
        /\ mining = working
        /\ mining => Cardinality(Alive) = 1
        /\ ~mining => Alive = {}

\* Stopping the miner ends every mint loop, unless the miner is started again:
\* also after a refused SetLocalValidator, when no start gets through any more
\* (ApiStop runs Miner.Stop, which closes the stopper and takes no lock of the
\* node).
StopEnds == (pc[Operator] = "stop") ~> (panicked \/ Alive = {} \/ shouldStart)

\* A start of the miner takes effect: in the end a mint loop runs
\* (miner.go: while a synchronisation runs, Start "will start miner afterwards").
StartTakesEffect == \A t \in Starter : (pc[t] = "start") ~> (panicked \/ Alive # {})

=============================================================================
