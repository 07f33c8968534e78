------------------------------- MODULE Memory -------------------------------
(***************************************************************************)
(* The byte accounting of src/src/util/memory.rs and the global allocator  *)
(* of src/src/main.rs that feeds it, one step per access to a shared       *)
(* atomic or to the system allocator.                                      *)
(*                                                                         *)
(* alloc, alloc_zeroed, realloc and dealloc are one operation on a block:  *)
(* alloc takes its size from 0, dealloc to 0.  The threads are the main    *)
(* thread, which spawns and joins, and the worker that runs the program    *)
(* and sets the ceiling once.  A null allocation aborts the process: the   *)
(* program has no fallible allocation.  The atomics are relaxed; each is   *)
(* used alone, so its own modification order is all that matters.          *)
(***************************************************************************)
EXTENDS Integers, FiniteSetsExt

CONSTANTS
    MemThreads,      \* the threads of the process
    Worker,       \* the one that runs run_main
    Blocks,       \* the blocks of memory that can be live
    Sizes,        \* the sizes they are asked at
    Limits,       \* the ceilings the worker may set (0: unlimited)
    Width,        \* usize is 0 .. Width - 1
    System        \* bound: the bytes the system can give

ASSUME WorkerAssumption == IsFiniteSet(MemThreads) /\ Worker \in MemThreads
ASSUME BlocksAssumption == IsFiniteSet(Blocks) /\ Blocks # {}
ASSUME BytesAssumption == Width \in Nat \ {0} /\ System \in Nat
ASSUME SizesAssumption == Sizes \subseteq 1 .. (Width \div 2 - 1)
ASSUME LimitsAssumption == Limits \subseteq 0 .. Width - 1

VARIABLES
    current,      \* CURRENT
    peak,         \* PEAK
    limit,        \* HARD_LIMIT
    size,         \* size[b]: the bytes of the block b, 0 when it is not live
    memPc,           \* pc[t]: what t does next
    op,           \* op[t]: the block t asks about and the size it asks, or then owes
    lim,          \* lim[t]: the ceiling try_alloc loaded
    now,          \* now[t]: the total try_alloc computed
    seen,         \* seen[t]: the peak it last saw
    started,      \* the worker has applied the ceiling
    allowed,      \* history: what may be live under the ceiling
    aborted       \* an allocation was refused

counters == <<current, peak, limit>>
locals == <<lim, now, seen>>
memVars == <<counters, size, memPc, op, locals, started, allowed, aborted>>

MemPlaces == {"idle", "limit", "charge", "peak", "cas", "system", "refund", "discharge"}

MemTypeOK ==
    /\ current \in 0 .. Width - 1 /\ peak \in 0 .. Width - 1
    /\ limit \in Limits \cup {0}
    /\ size \in [Blocks -> Sizes \cup {0}]
    /\ memPc \in [MemThreads -> MemPlaces]
    /\ op \in [MemThreads -> [block : Blocks, new : 0 .. Width - 1]]
    /\ lim \in [MemThreads -> Limits \cup {0}]
    /\ now \in [MemThreads -> 0 .. Width - 1] /\ seen \in [MemThreads -> 0 .. Width - 1]
    /\ started \in BOOLEAN /\ allowed \in Nat
    /\ aborted \in BOOLEAN

NoOp == [block |-> CHOOSE b \in Blocks : TRUE, new |-> 0]

MemInit ==
    /\ current = 0 /\ peak = 0 /\ limit = 0
    /\ size = [b \in Blocks |-> 0]
    /\ memPc = [t \in MemThreads |-> "idle"]
    /\ op = [t \in MemThreads |-> NoOp]
    /\ lim = [t \in MemThreads |-> 0]
    /\ now = [t \in MemThreads |-> 0] /\ seen = [t \in MemThreads |-> 0]
    /\ started = FALSE /\ allowed = 0 /\ aborted = FALSE

\* A local that is not read again is reset, which tells no states apart.
MemGoto(t, place) == memPc' = [memPc EXCEPT ![t] = place]

Busy == {op[t].block : t \in {u \in MemThreads : memPc[u] # "idle"}}
Old(t) == size[op[t].block]
New(t) == op[t].new
Grows(t) == New(t) > Old(t)
Delta(t) == IF Grows(t) THEN New(t) - Old(t) ELSE Old(t) - New(t)
Live == MapThenSumSet(LAMBDA b : size[b], Blocks)

Add(n) == current' = (current + n) % Width
Subtract(n) == current' = (current - n) % Width

-----------------------------------------------------------------------------
(* GlobalAlloc of main.rs and try_alloc *)

Ask(t) ==
    /\ memPc[t] = "idle"
    /\ \E b \in Blocks \ Busy, n \in Sizes \cup {0} :
        /\ n # size[b]
        /\ op' = [op EXCEPT ![t] = [block |-> b, new |-> n]]
        /\ MemGoto(t, IF n > size[b] THEN "limit" ELSE "system")
    /\ UNCHANGED <<counters, size, locals, started, allowed, aborted>>

LoadLimit(t) ==
    /\ memPc[t] = "limit"
    /\ lim' = [lim EXCEPT ![t] = limit]
    /\ MemGoto(t, "charge")
    /\ UNCHANGED <<counters, size, op, now, seen, started, allowed, aborted>>

Charge(t) ==
    /\ memPc[t] = "charge"
    /\ Add(Delta(t))
    /\ lim' = [lim EXCEPT ![t] = 0]
    /\ IF lim[t] # 0 /\ current' > lim[t] THEN MemGoto(t, "refund") /\ UNCHANGED now
       ELSE MemGoto(t, "peak") /\ now' = [now EXCEPT ![t] = current']
    /\ UNCHANGED <<peak, limit, size, op, seen, started, allowed, aborted>>

PeakDone(t) ==
    /\ now' = [now EXCEPT ![t] = 0] /\ seen' = [seen EXCEPT ![t] = 0]
    /\ MemGoto(t, "system")

\* The total is compared with the peak last seen.
Compare(t, top) ==
    IF now[t] > top THEN seen' = [seen EXCEPT ![t] = top] /\ MemGoto(t, "cas") /\ UNCHANGED now
    ELSE PeakDone(t)

LoadPeak(t) ==
    /\ memPc[t] = "peak"
    /\ Compare(t, peak)
    /\ UNCHANGED <<counters, size, op, lim, started, allowed, aborted>>

\* Slip: a plain store.
RaisePeakSlip(t) ==
    /\ memPc[t] = "cas"
    /\ peak' = now[t]
    /\ PeakDone(t)
    /\ UNCHANGED <<current, limit, size, op, lim, started, allowed, aborted>>

RaisePeak(t) ==
    /\ memPc[t] = "cas"
    /\ peak = seen[t]
    /\ peak' = now[t]
    /\ PeakDone(t)
    /\ UNCHANGED <<current, limit, size, op, lim, started, allowed, aborted>>

\* The peak has moved, or the weak exchange failed spuriously.
RaisePeakFails(t) ==
    /\ memPc[t] = "cas"
    /\ Compare(t, peak)
    /\ UNCHANGED <<counters, size, op, lim, started, allowed, aborted>>

\* The system gives what it has; what it takes back is discharged after.
Gives(t) ==
    /\ memPc[t] = "system"
    /\ Grows(t) => Live + Delta(t) <= System
    /\ size' = [size EXCEPT ![op[t].block] = New(t)]
    /\ IF Grows(t) THEN MemGoto(t, "idle") /\ op' = [op EXCEPT ![t] = NoOp]
       ELSE MemGoto(t, "discharge") /\ op' = [op EXCEPT ![t].new = Delta(t)]
    /\ UNCHANGED <<counters, locals, started, allowed, aborted>>

\* A growth the system refuses is refunded; a refused shrink owes nothing.
GivesNot(t) ==
    /\ memPc[t] = "system"
    /\ New(t) # 0
    /\ IF Grows(t) THEN MemGoto(t, "refund") /\ UNCHANGED aborted
       ELSE MemGoto(t, "idle") /\ aborted' = TRUE
    /\ UNCHANGED <<counters, size, op, locals, started, allowed>>

Refund(t) ==
    /\ memPc[t] = "refund"
    /\ Subtract(Delta(t))
    /\ MemGoto(t, "idle")
    /\ aborted' = TRUE
    /\ UNCHANGED <<peak, limit, size, op, locals, started, allowed>>

Discharge(t) ==
    /\ memPc[t] = "discharge"
    /\ Subtract(New(t))
    /\ MemGoto(t, "idle") /\ op' = [op EXCEPT ![t] = NoOp]
    /\ UNCHANGED <<peak, limit, size, locals, started, allowed, aborted>>

-----------------------------------------------------------------------------
(* The worker *)

\* The allocations whose ceiling was loaded before this one is set.
Early == {t \in MemThreads : memPc[t] = "charge"}

\* apply_memory_limit
SetLimit ==
    /\ ~started
    /\ memPc[Worker] = "idle"
    /\ started' = TRUE
    /\ limit' \in Limits
    /\ allowed' = Max({limit', current}) + MapThenSumSet(Delta, Early)
    /\ UNCHANGED <<current, peak, size, memPc, op, locals, aborted>>

MemStep(t) ==
       \/ LoadLimit(t) \/ Charge(t) \/ LoadPeak(t) \/ RaisePeak(t) \/ RaisePeakFails(t)
       \/ Gives(t) \/ GivesNot(t) \/ Refund(t) \/ Discharge(t)

MemNext == ~aborted /\ (SetLimit \/ \E t \in MemThreads : Ask(t) \/ MemStep(t))

MemSpec == MemInit /\ [][MemNext]_memVars

\* Threads are scheduled, and a weak exchange does not fail forever.
MemFairSpec ==
    /\ MemSpec
    /\ \A t \in MemThreads : WF_memVars(~aborted /\ MemStep(t)) /\ SF_memVars(~aborted /\ RaisePeak(t))

-----------------------------------------------------------------------------
(* Properties *)

\* What t has charged and the system has not given, or given back.
InFlight(t) ==
    CASE memPc[t] = "discharge" -> New(t)
      [] memPc[t] \in {"peak", "cas", "system", "refund"} /\ Grows(t) -> Delta(t)
      [] OTHER -> 0

\* No byte is lost or counted twice, whatever the order of charges, refunds
\* and failures (TrackingAlloc): the counter is the live bytes and those in
\* flight.
Counted == current = (Live + MapThenSumSet(InFlight, MemThreads)) % Width

\* The peak is never behind what is live (memory.rs:33), though it is read
\* and exchanged apart from the counter.
PeakCovers == Live <= peak

\* The hazard of memory.rs:24: a charge tested against a ceiling loaded
\* before the current one.  Only such charges, and what was already counted,
\* can take memory past the ceiling.
CeilingHolds == started /\ limit # 0 => Live <= allowed

\* The books of the allocator.
MemoryExact == Counted /\ PeakCovers /\ CeilingHolds

\* Every allocation returns, or the process aborts (memory.rs:32).
AllocationsEnd == \A t \in MemThreads : memPc[t] # "idle" ~> (memPc[t] = "idle" \/ aborted)
=============================================================================
