------------------------------- MODULE Metrics -------------------------------
(***************************************************************************)
(* pkg/mahogany/metrics.go: the loop of Collect, which turns what the      *)
(* kernel shows of the CPU's counters, of memory and of the disk into      *)
(* three gauges.  A uint64 has the values below W, and a gauge of percent  *)
(* a numerator and a denominator: the float64 of x / 0 is in them as well. *)
(* The kernel's counters wrap too, and idle may step back a little.        *)
(***************************************************************************)
EXTENDS Integers, SequencesExt

CONSTANTS W,         \* one more than the largest uint64
          CpuInit,   \* the counters at first
          Advance,   \* by how much they change in an interval
          Memory,    \* what /proc/meminfo shows: a number for each label
          Disk,      \* what statfs shows of the file system: [Blocks, Bavail]
          NoStat,    \* a sample that failed: the nil pointer
          NoRecord,  \* and a gauge that is not recorded
          MaxTicks   \* bound: the intervals that are looked at

Counter == {"user", "nice", "system", "idle"}

ASSUME MetricsAssumption ==
  /\ W \in Nat \ {0}
  /\ CpuInit \subseteq [Counter -> 0 .. W - 1]
  /\ Advance \subseteq [Counter -> Int]
  /\ \A m \in Memory : \A label \in DOMAIN m : m[label] \in 0 .. W - 1

VARIABLES
  cpu,      \* the kernel's counters
  last,     \* lastCpuStat
  gauges,   \* what the last tick recorded, of [cpu, mem, disk]
  passed,   \* history: what the counters did in the last interval
  ticks

metricsVars == <<cpu, last, gauges, passed, ticks>>

\* The decimal digits of a number in /proc, the last one first.
Digits[n \in 0 .. W - 1] == IF n < 10 THEN <<n>> ELSE <<n % 10>> \o Digits[n \div 10]

\* Digit by digit, in the arithmetic of uint64.
ParseUint64(raw) == FoldRight(LAMBDA digit, res : (res * 10 + digit) % W, raw, 0)

CpuUsage(counters) == [c \in Counter |-> ParseUint64(Digits[counters[c]])]

TotalBusy(stat) == (stat["user"] + stat["nice"] + stat["system"]) % W

Minus(x, y) == (x - y) % W

\* float64(busy) * 100.0 / float64(busy + idle), the differences of uint64s.
CpuPercent(stat, before) ==
  LET busy == Minus(TotalBusy(stat), TotalBusy(before))
  IN  <<busy, (busy + Minus(stat["idle"], before["idle"])) % W>>

\* The zero value stays for a label the kernel does not show.
MemUsage(meminfo) ==
  [label \in {"MemTotal", "MemFree", "MemAvailable"} |->
     IF label \in DOMAIN meminfo THEN ParseUint64(Digits[meminfo[label]]) ELSE 0]

DiskUsage(statvfs) ==
  [BlocksTotal |-> statvfs.Blocks, BlocksAvailable |-> statvfs.Bavail]

UsedPercent(total, available) == <<Minus(total, available), total>>

MetricsInit ==
  /\ cpu \in CpuInit
  /\ last \in {CpuUsage(cpu), NoStat}
  /\ gauges = [cpu |-> NoRecord, mem |-> NoRecord, disk |-> NoRecord]
  /\ passed = [c \in Counter |-> 0]
  /\ ticks = 0

\* Mutant: a sample that fails leaves the one before it in place.
NextLastKeeping(stat) == IF stat = NoStat THEN last ELSE stat

\* The first sample after one that failed is only kept.
NextLast(stat) == stat

\* One turn of the loop; each of the three samples may fail.
Tick(d, read, m, k) ==
  LET cpus == [c \in Counter |-> (cpu[c] + d[c]) % W]
      stat == IF read THEN CpuUsage(cpus) ELSE NoStat
  IN
  /\ ticks < MaxTicks
  /\ ticks' = ticks + 1
  /\ passed' = d
  /\ cpu' = cpus
  /\ last' = NextLast(stat)
  /\ gauges' =
       [cpu  |-> IF stat = NoStat \/ last = NoStat THEN NoRecord ELSE CpuPercent(stat, last),
        mem  |-> IF m = NoStat THEN NoRecord
                 ELSE UsedPercent(MemUsage(m).MemTotal, MemUsage(m).MemAvailable),
        disk |-> IF k = NoStat THEN NoRecord
                 ELSE UsedPercent(DiskUsage(k).BlocksTotal, DiskUsage(k).BlocksAvailable)]

MetricsNext ==
  \E d \in Advance, read \in BOOLEAN, m \in Memory \cup {NoStat},
     k \in Disk \cup {NoStat} : Tick(d, read, m, k)

MetricsSpec == MetricsInit /\ [][MetricsNext]_metricsVars

-----------------------------------------------------------------------------
Busy == passed["user"] + passed["nice"] + passed["system"]

(* The CPU gauge is the share of busy time of one interval, the last, also *)
(* when counters wrapped in it or a sample before it failed, unless more   *)
(* time went by than a counter holds or idle stepped back by more than the *)
(* CPU was busy; without any time in the interval it is 0/0.               *)
CpuGaugeIsLastInterval ==
  /\ gauges.cpu # NoRecord
  /\ Busy \in 0 .. W - 1
  /\ Busy + passed["idle"] \in 0 .. W - 1
  => gauges.cpu = <<Busy, Busy + passed["idle"]>>
=============================================================================
