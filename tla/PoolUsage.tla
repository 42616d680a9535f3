------------------------------ MODULE PoolUsage ------------------------------
(***************************************************************************)
(* Pool usage as waitforlsn accumulates it (src/metrics.rs): UsageAcc and  *)
(* PoolUsage.  A sample is deadpool's Status: size, available and waiting. *)
(***************************************************************************)
EXTENDS Integers

Larger(a, b) == IF a >= b THEN a ELSE b

\* UsageAcc::default()
NoSamples ==
  [samples |-> 0, sum_in_use |-> 0, max_in_use |-> 0,
   sum_waiting |-> 0, max_waiting |-> 0]

\* UsageAcc::add
AddSample(acc, in_use, waiting) ==
  [samples     |-> acc.samples + 1,
   sum_in_use  |-> acc.sum_in_use + in_use,
   max_in_use  |-> Larger(acc.max_in_use, in_use),
   sum_waiting |-> acc.sum_waiting + waiting,
   max_waiting |-> Larger(acc.max_waiting, waiting)]

\* two accumulators as one: what the samples of both amount to
Combine(a, b) ==
  [samples     |-> a.samples + b.samples,
   sum_in_use  |-> a.sum_in_use + b.sum_in_use,
   max_in_use  |-> Larger(a.max_in_use, b.max_in_use),
   sum_waiting |-> a.sum_waiting + b.sum_waiting,
   max_waiting |-> Larger(a.max_waiting, b.max_waiting)]

\* PoolUsage::new
NewUsage ==
  [now_in_use |-> 0, now_waiting |-> 0, interval |-> NoSamples, run |-> NoSamples]

\* Mutated form of InUse: a plain subtraction.
InUseWraps(status) == status.size - status.available

\* size.saturating_sub(available)
InUse(status) ==
  IF status.available > status.size THEN 0 ELSE status.size - status.available

\* Mutated form of Sample: the run is derived from the interval, which the
\* reporter resets.
SampleRunFromInterval(u, status) ==
  LET interval == AddSample(u.interval, InUse(status), status.waiting)
  IN [now_in_use |-> InUse(status), now_waiting |-> status.waiting,
      interval |-> interval, run |-> interval]

\* PoolUsage::sample
Sample(u, status) ==
  [now_in_use  |-> InUse(status),
   now_waiting |-> status.waiting,
   interval    |-> AddSample(u.interval, InUse(status), status.waiting),
   run         |-> AddSample(u.run, InUse(status), status.waiting)]

\* what progress_reporter does to the interval once it has printed it
ResetInterval(u) == [u EXCEPT !.interval = NoSamples]

Accumulators ==
  [samples : Nat, sum_in_use : Nat, max_in_use : Nat,
   sum_waiting : Nat, max_waiting : Nat]
Usages ==
  [now_in_use : Nat, now_waiting : Nat,
   interval : Accumulators, run : Accumulators]
Statuses == [size : Nat, available : Nat, waiting : Nat]
=============================================================================
