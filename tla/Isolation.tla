------------------------------- MODULE Isolation ------------------------------
(***************************************************************************)
(* scripts/isolation: preparing a host for a benchmark.  Root runs         *)
(* setup_core_runtime_isolation.py, possibly twice at a time and again     *)
(* after a failure; it checks the host, backs up each setting it is about  *)
(* to change, makes an isolated cpuset, caps the frequency of its CPUs,    *)
(* and moves the watchdog and the interrupts away.  Any step may fail; on  *)
(* a failure only the irqbalance service is put back.                      *)
(*                                                                         *)
(* A setting is "host" while it has the value the host gave it, and "nemu" *)
(* once the script has written it.                                         *)
(***************************************************************************)
EXTENDS Integers, FiniteSets

CONSTANTS
  CPUs,       \* the possible CPUs
  Setups,     \* the processes that run the script
  Hosts,      \* the hosts: online, siblings, policy (affected_cpus), able,
              \* found (commands and kernel interfaces), writable (by root)
  None

ASSUME IsolationAssumption ==
  \A h \in Hosts :
    /\ h.online \subseteq CPUs /\ h.able \subseteq CPUs
    /\ h.siblings \in [CPUs -> SUBSET CPUs]
    /\ h.policy \in [CPUs -> SUBSET CPUs]
    /\ h.found \subseteq STRING /\ h.writable \in BOOLEAN

(* Where a running script may be: the steps of IsolationSetup.run.         *)
Steps == {"backup", "save", "save.cpus", "cpuset", "cgroup", "partition",
          "verify", "freq", "irq", "smp", "unit", "wait", "summary"}
RuntimeConfig ==
  [pc : Steps, cpus : SUBSET CPUs, irq_setup_started : BOOLEAN]

ASSUME NoneAssumption ==
  None \notin RuntimeConfig \union BOOLEAN \union {"host", "nemu"}

Sys == {"subtree", "watchdog", "smp", "irq"}

VARIABLES
  host,       \* the member of Hosts the scripts run on
  proc,       \* proc[p]: None, or where the script is and its RuntimeConfig
  sys, freq,  \* the settings: of the system, and the cpufreq ones of a CPU
  state,      \* NEMU_STATE: what the backup holds
  cgroup,     \* NEMU_CGROUP
  irqbalance, \* irqbalance.service is active
  unit,       \* NEMU_IRQBALANCE_UNIT is active
  before,     \* history: irqbalance was active when the host booted
  lost        \* history: a script was interrupted or killed since

vars == <<host, proc, sys, freq, state, cgroup, irqbalance, unit, before, lost>>
machine == <<sys, freq, cgroup, irqbalance, unit>>

NoState == [exists |-> FALSE, cpus |-> {}, irqbalance |-> None,
            sys |-> [s \in Sys |-> None], freq |-> [c \in CPUs |-> None]]
NoCgroup == [exists |-> FALSE, cpus |-> {}, partition |-> "member"]

------------------------------------------------------------------------------
(* load_runtime_config: at least one online CPU must be left over.         *)
load_runtime_config(cpus) == cpus # {} /\ host.online \ cpus # {}

(* cpuset.cpus.isolated of the root cgroup.                                *)
SystemIsolated ==
  IF cgroup.partition = "isolated" THEN cgroup.cpus ELSE {}

(* What each script looks for on the host; "irqbalance" is the executable, *)
(* "cgroup2" the file system, "cpuset" the controller.                     *)
SetupNeeds ==
  {"cat", "findmnt", "grep", "install", "mkdir", "systemctl", "systemd-run",
   "sleep", "irqbalance", "cgroup2", "cpuset"}

PrecheckNeeds ==
  {"awk", "cat", "lscpu", "findmnt", "systemctl", "systemd-run",
   "irqbalance", "cgroup2", "cpuset"}

(* What the root script asks of a CPU.  The siblings are separated by      *)
(* commas, which parse_cpu_list and parse_kernel_cpu_list read alike.      *)
CheckCpuAlone(cpu, cpus) ==      \* variant: affected_cpus is not looked at
  /\ cpu \in host.online
  /\ \A s \in host.siblings[cpu] : s \in host.online => s \in cpus
  /\ cpu \in host.able /\ host.writable

CheckCpu(cpu, cpus) ==
  /\ cpu \in host.online
  /\ \A s \in host.siblings[cpu] : s \in host.online => s \in cpus
  /\ cpu \in host.able            \* core_id, scaling_driver, cpuinfo_max_freq
  /\ cpu \in host.policy[cpu] /\ host.policy[cpu] \subseteq cpus
  /\ host.writable                \* the four settings of its policy

(* IsolationSetup.check_prerequisites: it dies at the first that fails.    *)
check_prerequisites(cpus) ==
  /\ SetupNeeds \subseteq host.found
  /\ SystemIsolated = {}
  /\ ~ cgroup.exists
  /\ ~ state.exists
  /\ ~ unit
  /\ \A cpu \in cpus : CheckCpu(cpu, cpus)
  /\ host.writable                \* subtree_control, watchdog, smp_affinity

(* precheck_core_runtime_isolation.main, run by another user: every check  *)
(* is made and counted.  It can only see whether a setting is there.       *)
PrecheckCpu(cpu, cpus) ==
  /\ cpu \in host.online
  /\ \A s \in host.siblings[cpu] : s \in host.online => s \in cpus
  /\ cpu \in host.able
  /\ cpu \in host.policy[cpu] /\ host.policy[cpu] \subseteq cpus

precheckNoState(cpus) ==         \* variant: no look for a residual backup
  /\ cpus # {} /\ host.online \ cpus # {}
  /\ PrecheckNeeds \subseteq host.found
  /\ \A cpu \in cpus : PrecheckCpu(cpu, cpus)
  /\ SystemIsolated = {} /\ ~ cgroup.exists
  /\ ~ unit

precheck(cpus) ==
  /\ cpus # {} /\ host.online \ cpus # {}
  /\ PrecheckNeeds \subseteq host.found
  /\ \A cpu \in cpus : PrecheckCpu(cpu, cpus)
  /\ SystemIsolated = {} /\ ~ cgroup.exists /\ ~ state.exists
  /\ ~ unit

------------------------------------------------------------------------------
Init ==
  /\ host \in Hosts
  /\ proc = [p \in Setups |-> None]
  /\ sys = [s \in Sys |-> "host"]
  /\ freq = [c \in CPUs |-> "host"]
  /\ state = NoState
  /\ cgroup = NoCgroup
  /\ irqbalance \in BOOLEAN
  /\ unit = FALSE
  /\ before = irqbalance
  /\ lost = FALSE

At(p, pc) == proc[p] # None /\ proc[p].pc = pc
Goto(p, pc) == proc' = [proc EXCEPT ![p].pc = pc]
Cpus(p) == proc[p].cpus
Exit(p) == proc' = [proc EXCEPT ![p] = None]

CheckPrerequisites(p) ==
  /\ proc[p] = None
  /\ \E cpus \in SUBSET CPUs :
       /\ load_runtime_config(cpus)
       /\ check_prerequisites(cpus)
       /\ proc' = [proc EXCEPT ![p] =
            [pc |-> "backup", cpus |-> cpus, irq_setup_started |-> FALSE]]
  /\ UNCHANGED <<host, machine, state, before, lost>>

(* backup_state: the directory, which must be new, and one file a setting. *)
BackupDirExistOk(p) ==           \* variant: mkdir(exist_ok=True)
  /\ At(p, "backup")
  /\ state' = [state EXCEPT !.exists = TRUE, !.cpus = Cpus(p)]
  /\ Goto(p, "save")
  /\ UNCHANGED <<host, machine, before, lost>>

BackupDir(p) ==
  /\ At(p, "backup")
  /\ ~ state.exists
  /\ state' = [state EXCEPT !.exists = TRUE, !.cpus = Cpus(p)]
  /\ Goto(p, "save")
  /\ UNCHANGED <<host, machine, before, lost>>

SaveSettings(p) ==
  /\ At(p, "save")
  /\ state' = [state EXCEPT !.sys = sys, !.irqbalance = irqbalance]
  /\ Goto(p, "save.cpus")
  /\ UNCHANGED <<host, machine, before, lost>>

SaveCpus(p) ==
  /\ At(p, "save.cpus")
  /\ state' = [state EXCEPT
       !.freq = [c \in CPUs |-> IF c \in Cpus(p) THEN freq[c] ELSE None]]
  /\ Goto(p, "cpuset")
  /\ UNCHANGED <<host, machine, before, lost>>

(* create_cpuset                                                           *)
EnableController(p) ==
  /\ At(p, "cpuset")
  /\ sys' = [sys EXCEPT !["subtree"] = "nemu"]
  /\ Goto(p, "cgroup")
  /\ UNCHANGED <<host, freq, state, cgroup, irqbalance, unit, before, lost>>

MakeCgroup(p) ==
  /\ At(p, "cgroup")
  /\ ~ cgroup.exists
  /\ cgroup' = [NoCgroup EXCEPT !.exists = TRUE]
  /\ Goto(p, "partition")
  /\ UNCHANGED <<host, sys, freq, state, irqbalance, unit, before, lost>>

(* The kernel may refuse the partition: it then reads "isolated invalid",  *)
(* and the script dies at the values it reads back.                        *)
WritePartition(p) ==
  /\ At(p, "partition")
  /\ \E result \in {"isolated", "invalid"} :
       cgroup' = [cgroup EXCEPT !.cpus = Cpus(p), !.partition = result]
  /\ Goto(p, "verify")
  /\ UNCHANGED <<host, sys, freq, state, irqbalance, unit, before, lost>>

VerifyCpuset(p) ==
  /\ At(p, "verify")
  /\ cgroup.cpus = Cpus(p) /\ SystemIsolated = Cpus(p)
  /\ Goto(p, "freq")
  /\ UNCHANGED <<host, machine, state, before, lost>>

(* configure_frequency_and_watchdog: a write to one CPU's policy reaches   *)
(* every CPU of it.                                                        *)
CapFrequency(p) ==
  /\ At(p, "freq")
  /\ \E cpu \in Cpus(p) :
       /\ freq[cpu] = "host"
       /\ freq' = [c \in CPUs |-> IF c \in host.policy[cpu] \union {cpu}
                                  THEN "nemu" ELSE freq[c]]
  /\ UNCHANGED <<host, proc, sys, state, cgroup, irqbalance, unit, before, lost>>

WriteWatchdog(p) ==
  /\ At(p, "freq")
  /\ \A c \in Cpus(p) : freq[c] = "nemu"
  /\ sys' = [sys EXCEPT !["watchdog"] = "nemu"]
  /\ Goto(p, "irq")
  /\ UNCHANGED <<host, freq, state, cgroup, irqbalance, unit, before, lost>>

(* configure_irq: from here to the end of it a failure puts irqbalance     *)
(* back.                                                                   *)
StopIrqbalance(p) ==
  /\ At(p, "irq")
  /\ irqbalance' = FALSE
  /\ proc' = [proc EXCEPT ![p].pc = "smp", ![p].irq_setup_started = TRUE]
  /\ UNCHANGED <<host, sys, freq, state, cgroup, unit, before, lost>>

WriteDefaultAffinity(p) ==
  /\ At(p, "smp")
  /\ sys' = [sys EXCEPT !["smp"] = "nemu"]
  /\ Goto(p, "unit")
  /\ UNCHANGED <<host, freq, state, cgroup, irqbalance, unit, before, lost>>

StartUnit(p) ==                  \* systemd-run
  /\ At(p, "unit")
  /\ unit' = TRUE
  /\ Goto(p, "wait")
  /\ UNCHANGED <<host, sys, freq, state, cgroup, irqbalance, before, lost>>

(* The twelve seconds in which the transient irqbalance moves interrupts.  *)
Rebalance(p) ==
  /\ At(p, "wait")
  /\ unit
  /\ sys' = [sys EXCEPT !["irq"] = "nemu"]
  /\ proc' = [proc EXCEPT ![p].pc = "summary", ![p].irq_setup_started = FALSE]
  /\ UNCHANGED <<host, freq, state, cgroup, irqbalance, unit, before, lost>>

PrintSummary(p) ==
  /\ At(p, "summary")
  /\ Exit(p)
  /\ UNCHANGED <<host, machine, state, before, lost>>

(* Any step may raise: report_failure, with restore_irqbalance_after_error.*)
(* The unit is stopped; irqbalance is started if the backup says so.       *)
FailNoStop(p) ==                 \* variant: the transient unit is left
  /\ proc[p] # None
  /\ irqbalance' = (irqbalance \/ (proc[p].irq_setup_started
                                   /\ state.irqbalance = TRUE))
  /\ Exit(p)
  /\ UNCHANGED <<host, sys, freq, state, cgroup, unit, before, lost>>

Fail(p) ==
  /\ proc[p] # None
  /\ IF proc[p].irq_setup_started
       THEN /\ unit' = FALSE
            /\ irqbalance' = (irqbalance \/ state.irqbalance = TRUE)
       ELSE UNCHANGED <<unit, irqbalance>>
  /\ Exit(p)
  /\ UNCHANGED <<host, sys, freq, state, cgroup, before, lost>>

(* KeyboardInterrupt is not caught by main, and nothing catches SIGKILL.   *)
Interrupt(p) ==
  /\ proc[p] # None
  /\ Exit(p)
  /\ lost' = TRUE
  /\ UNCHANGED <<host, machine, state, before>>

(* The manual rollback from the backup, and a reboot, which clears /run    *)
(* and the cgroups.                                                        *)
Saved(old, now) == IF old = None THEN now ELSE old

Rollback ==
  /\ state.exists /\ \A p \in Setups : proc[p] = None
  /\ sys' = [s \in Sys |-> Saved(state.sys[s], sys[s])]
  /\ freq' = [c \in CPUs |-> Saved(state.freq[c], freq[c])]
  /\ irqbalance' = Saved(state.irqbalance, irqbalance)
  /\ unit' = FALSE /\ cgroup' = NoCgroup /\ state' = NoState
  /\ UNCHANGED <<host, proc, before, lost>>

Reboot ==
  /\ proc' = [p \in Setups |-> None]
  /\ sys' = [s \in Sys |-> "host"] /\ freq' = [c \in CPUs |-> "host"]
  /\ state' = NoState /\ cgroup' = NoCgroup
  /\ irqbalance' = before /\ unit' = FALSE /\ lost' = FALSE
  /\ UNCHANGED <<host, before>>

Execute(p) ==
  \/ CheckPrerequisites(p) \/ BackupDir(p) \/ SaveSettings(p) \/ SaveCpus(p)
  \/ EnableController(p) \/ MakeCgroup(p) \/ WritePartition(p)
  \/ VerifyCpuset(p) \/ CapFrequency(p) \/ WriteWatchdog(p)
  \/ StopIrqbalance(p) \/ WriteDefaultAffinity(p) \/ StartUnit(p)
  \/ Rebalance(p) \/ PrintSummary(p)

Next ==
  \/ \E p \in Setups : Execute(p) \/ Fail(p) \/ Interrupt(p)
  \/ Rollback
  \/ Reboot

Spec == Init /\ [][Next]_vars

------------------------------------------------------------------------------
(* Whatever failed, was interrupted or ran twice: a setting that is not    *)
(* the host's own has the host's own value in the backup, so the manual    *)
(* rollback the error message sends the user to can restore it.            *)
BackupCovers ==
  /\ \A s \in Sys : sys[s] = "nemu" => state.sys[s] = "host"
  /\ \A c \in CPUs : freq[c] = "nemu" => state.freq[c] = "host"
  /\ irqbalance # before => state.irqbalance = before

(* No CPU outside the list given to the script ever has its frequency      *)
(* changed, though a cpufreq policy may span several CPUs.                 *)
OutsideUntouched ==
  \A c \in CPUs : freq[c] = "nemu" => c \in state.cpus

(* Two irqbalance daemons never run at once, and a host that had one has   *)
(* one again when the script has ended, with success or with an error      *)
(* (but not when it was interrupted).                                      *)
BalancerKept ==
  /\ ~ (irqbalance /\ unit)
  /\ (before /\ ~ lost /\ \A p \in Setups : proc[p] = None)
       => irqbalance \/ unit

(* When the unprivileged precheck passes any list, every setting is the    *)
(* one the host booted with, and no root shell has got beyond its checks:  *)
(* wherever earlier runs failed, were killed or were rolled back, what     *)
(* they changed shows in one of the four residues it looks for.            *)
PrecheckFindsResidue ==
  (\E cpus \in SUBSET CPUs : precheck(cpus)) =>
    /\ \A s \in Sys : sys[s] = "host"
    /\ \A c \in CPUs : freq[c] = "host"
    /\ irqbalance = before
    /\ \A p \in Setups : proc[p] # None => proc[p].pc = "backup"
=============================================================================
