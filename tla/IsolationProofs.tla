---------------------------- MODULE IsolationProofs ----------------------------
(***************************************************************************)
(* The isolation scripts, for every host, every set of CPUs and any number *)
(* of root shells.                                                         *)
(*                                                                         *)
(* What makes BackupCovers inductive is that the backup directory is a     *)
(* lock: the process that made it owns the machine until the directory is  *)
(* gone, and until then the backup is complete before anything it holds is *)
(* changed.  The lock outlives its owner, and that is what keeps a second  *)
(* run from saving settings the first has changed.                         *)
(***************************************************************************)
EXTENDS Isolation, TLAPS

Early == {"save", "save.cpus", "cpuset", "cgroup", "partition", "verify",
          "freq", "irq"}
Late == {"smp", "unit", "wait", "summary"}

(* What a backup may hold: a setting that is saved is the host's own.      *)
Backups == [exists : BOOLEAN, cpus : SUBSET CPUs, irqbalance : {before, None},
            sys : [Sys -> {"host", None}], freq : [CPUs -> {"host", None}]]
Cgroups == [exists : BOOLEAN, cpus : SUBSET CPUs,
            partition : {"member", "isolated", "invalid"}]

IsolationTypeOK ==
  /\ host \in Hosts
  /\ proc \in [Setups -> RuntimeConfig \union {None}]
  /\ sys \in [Sys -> {"host", "nemu"}]
  /\ freq \in [CPUs -> {"host", "nemu"}]
  /\ state \in Backups
  /\ cgroup \in Cgroups
  /\ irqbalance \in BOOLEAN /\ unit \in BOOLEAN
  /\ before \in BOOLEAN /\ lost \in BOOLEAN

(* The process made the backup directory.                                  *)
In(p, pcs) == proc[p] # None /\ proc[p].pc \in pcs
Owns(p) == In(p, Early \union Late)

Untouched ==
  /\ \A s \in Sys : sys[s] = "host"
  /\ \A c \in CPUs : freq[c] = "host"
  /\ irqbalance = before /\ ~ unit

SysSaved == (\A s \in Sys : state.sys[s] = "host") /\ state.irqbalance = before
FreqSaved == \A c \in state.cpus : state.freq[c] = "host"

(* No policy reaches out of the list a process was given.                  *)
Checked(p) ==
  proc[p] # None => \A cpu \in Cpus(p) : host.policy[cpu] \subseteq Cpus(p)

Locked(p) ==
  Owns(p) => /\ state.exists /\ state.cpus = Cpus(p)
             /\ \A q \in Setups : Owns(q) => q = p

BackedUp(p) ==
  /\ In(p, {"save", "save.cpus"}) => Untouched
  /\ Owns(p) /\ ~ In(p, {"save"}) => SysSaved
  /\ Owns(p) /\ ~ In(p, {"save", "save.cpus"}) => FreqSaved

Balanced(p) ==
  /\ In(p, Early) => irqbalance = before /\ ~ unit
  /\ In(p, Late) => ~ irqbalance
  /\ In(p, {"wait", "summary"}) => unit
  /\ proc[p] # None =>
       (proc[p].irq_setup_started <=> proc[p].pc \in {"smp", "unit", "wait"})

Unlocked == ~ state.exists => state = NoState /\ Untouched

Restored ==
  /\ ~ (irqbalance /\ unit)
  /\ before /\ ~ lost /\ (\A p \in Setups : ~ In(p, {"smp", "unit"}))
       => irqbalance \/ unit

IsolationInv ==
  /\ IsolationTypeOK
  /\ \A p \in Setups : Checked(p)
  /\ \A p \in Setups : Locked(p)
  /\ \A p \in Setups : BackedUp(p)
  /\ \A p \in Setups : Balanced(p)
  /\ Unlocked
  /\ Restored
  /\ BackupCovers
  /\ OutsideUntouched

------------------------------------------------------------------------------
LEMMA NoneIsNoConfig == None \notin RuntimeConfig
BY NoneAssumption DEF RuntimeConfig, Steps, Early, Late

LEMMA CheckPrerequisitesInv ==
  ASSUME IsolationInv, NEW p \in Setups, CheckPrerequisites(p)
  PROVE  IsolationInv'
<1>. USE NoneAssumption DEF CheckPrerequisites, At, Goto, Exit, machine,
   IsolationInv
<1>1. IsolationTypeOK'
  BY DEF IsolationTypeOK, Backups, Cgroups, RuntimeConfig, Steps, Early, Late,
     Sys, Cpus, check_prerequisites, load_runtime_config, CheckCpu
<1>2. (\A q \in Setups : Checked(q))'
  BY IsolationAssumption DEF Checked, Cpus, IsolationTypeOK, Backups, Cgroups,
     RuntimeConfig, Steps, Early, Late, check_prerequisites,
     load_runtime_config, CheckCpu
<1>3. (\A q \in Setups : Locked(q))'
  BY DEF Locked, Cpus, Owns, In, IsolationTypeOK, Backups, Cgroups,
     RuntimeConfig, Steps, Early, Late
<1>4. (\A q \in Setups : BackedUp(q))'
  BY DEF BackedUp, Locked, Unlocked, Untouched, SysSaved, FreqSaved, Cpus,
     Owns, In, IsolationTypeOK, Backups, Cgroups, RuntimeConfig, Steps, Early,
     Late
<1>5. (\A q \in Setups : Balanced(q))'
  BY DEF Balanced, Locked, Unlocked, Untouched, Owns, In, IsolationTypeOK,
     Backups, Cgroups, RuntimeConfig, Steps, Early, Late
<1>6. (Unlocked /\ BackupCovers /\ OutsideUntouched)'
  BY DEF Unlocked, Untouched, BackupCovers, OutsideUntouched, Locked, Checked,
     BackedUp, SysSaved, FreqSaved, NoState, Cpus, Owns, In, IsolationTypeOK,
     Backups, Cgroups, RuntimeConfig, Steps, Early, Late
<1>7. Restored'
  BY DEF Restored, Balanced, Locked, BackedUp, SysSaved, Owns, In,
     IsolationTypeOK, Backups, Cgroups, RuntimeConfig, Steps, Early, Late
<1>. QED BY <1>1, <1>2, <1>3, <1>4, <1>5, <1>6, <1>7

LEMMA BackupDirInv ==
  ASSUME IsolationInv, NEW p \in Setups, BackupDir(p)
  PROVE  IsolationInv'
<1>. USE NoneAssumption DEF BackupDir, At, Goto, Exit, machine, IsolationInv
<1>1. IsolationTypeOK'
  <2>1. (proc \in [Setups -> RuntimeConfig \union {None}])'
    BY DEF IsolationTypeOK, Backups, Cgroups, RuntimeConfig, Steps, Early,
       Late
  <2>2. (state \in Backups)'
    BY DEF Cpus, IsolationTypeOK, Backups, Cgroups, RuntimeConfig, Steps,
       Early, Late
  <2>. QED BY <2>1, <2>2 DEF IsolationTypeOK, Backups, Cgroups
<1>2. (\A q \in Setups : Checked(q))'
  BY IsolationAssumption DEF Checked, Cpus, IsolationTypeOK, Backups, Cgroups,
     RuntimeConfig, Steps, Early, Late
<1>3. (\A q \in Setups : Locked(q))'
  BY DEF Locked, Cpus, Owns, In, IsolationTypeOK, Backups, Cgroups,
     RuntimeConfig, Steps, Early, Late
<1>4. (\A q \in Setups : BackedUp(q))'
  BY DEF BackedUp, Locked, Unlocked, Untouched, SysSaved, FreqSaved, Cpus,
     Owns, In, IsolationTypeOK, Backups, Cgroups, RuntimeConfig, Steps, Early,
     Late
<1>5. (\A q \in Setups : Balanced(q))'
  BY DEF Balanced, Locked, Unlocked, Untouched, Owns, In, IsolationTypeOK,
     Backups, Cgroups, RuntimeConfig, Steps, Early, Late
<1>6. (Unlocked /\ BackupCovers /\ OutsideUntouched)'
  BY DEF Unlocked, Untouched, BackupCovers, OutsideUntouched, Locked, Checked,
     BackedUp, SysSaved, FreqSaved, NoState, Cpus, Owns, In, IsolationTypeOK,
     Backups, Cgroups, RuntimeConfig, Steps, Early, Late
<1>7. Restored'
  BY DEF Restored, Balanced, Locked, BackedUp, SysSaved, Owns, In,
     IsolationTypeOK, Backups, Cgroups, RuntimeConfig, Steps, Early, Late
<1>. QED BY <1>1, <1>2, <1>3, <1>4, <1>5, <1>6, <1>7

LEMMA SaveSettingsInv ==
  ASSUME IsolationInv, NEW p \in Setups, SaveSettings(p)
  PROVE  IsolationInv'
<1>. USE NoneAssumption DEF SaveSettings, At, Goto, Exit, machine,
   IsolationInv
<1>1. IsolationTypeOK'
  <2>1. (proc \in [Setups -> RuntimeConfig \union {None}])'
    BY DEF IsolationTypeOK, Backups, Cgroups, RuntimeConfig, Steps, Early,
       Late
  <2>2. (state \in Backups)'
    BY DEF BackedUp, Untouched, In, IsolationTypeOK, Backups, Cgroups,
       RuntimeConfig, Steps, Early, Late
  <2>. QED BY <2>1, <2>2 DEF IsolationTypeOK, Backups, Cgroups
<1>2. (\A q \in Setups : Checked(q))'
  BY IsolationAssumption DEF Checked, Cpus, IsolationTypeOK, Backups, Cgroups,
     RuntimeConfig, Steps, Early, Late
<1>3. (\A q \in Setups : Locked(q))'
  BY DEF Locked, Cpus, Owns, In, IsolationTypeOK, Backups, Cgroups,
     RuntimeConfig, Steps, Early, Late
<1>4. (\A q \in Setups : BackedUp(q))'
  BY DEF BackedUp, Locked, Unlocked, Untouched, SysSaved, FreqSaved, Cpus,
     Owns, In, IsolationTypeOK, Backups, Cgroups, RuntimeConfig, Steps, Early,
     Late
<1>5. (\A q \in Setups : Balanced(q))'
  BY DEF Balanced, Locked, Unlocked, Untouched, Owns, In, IsolationTypeOK,
     Backups, Cgroups, RuntimeConfig, Steps, Early, Late
<1>6. (Unlocked /\ BackupCovers /\ OutsideUntouched)'
  BY DEF Unlocked, Untouched, BackupCovers, OutsideUntouched, Locked, Checked,
     BackedUp, SysSaved, FreqSaved, NoState, Cpus, Owns, In, IsolationTypeOK,
     Backups, Cgroups, RuntimeConfig, Steps, Early, Late
<1>7. Restored'
  BY DEF Restored, Balanced, Locked, BackedUp, SysSaved, Owns, In,
     IsolationTypeOK, Backups, Cgroups, RuntimeConfig, Steps, Early, Late
<1>. QED BY <1>1, <1>2, <1>3, <1>4, <1>5, <1>6, <1>7

LEMMA SaveCpusInv ==
  ASSUME IsolationInv, NEW p \in Setups, SaveCpus(p)
  PROVE  IsolationInv'
<1>. USE NoneAssumption DEF SaveCpus, At, Goto, Exit, machine, IsolationInv
<1>1. IsolationTypeOK'
  <2>1. (proc \in [Setups -> RuntimeConfig \union {None}])'
    BY DEF IsolationTypeOK, Backups, Cgroups, RuntimeConfig, Steps, Early,
       Late
  <2>2. (state \in Backups)'
    BY DEF BackedUp, Untouched, In, Cpus, IsolationTypeOK, Backups, Cgroups,
       RuntimeConfig, Steps, Early, Late
  <2>. QED BY <2>1, <2>2 DEF IsolationTypeOK, Backups, Cgroups
<1>2. (\A q \in Setups : Checked(q))'
  BY IsolationAssumption DEF Checked, Cpus, IsolationTypeOK, Backups, Cgroups,
     RuntimeConfig, Steps, Early, Late
<1>3. (\A q \in Setups : Locked(q))'
  BY DEF Locked, Cpus, Owns, In, IsolationTypeOK, Backups, Cgroups,
     RuntimeConfig, Steps, Early, Late
<1>4. (\A q \in Setups : BackedUp(q))'
  BY DEF BackedUp, Locked, Unlocked, Untouched, SysSaved, FreqSaved, Cpus,
     Owns, In, IsolationTypeOK, Backups, Cgroups, RuntimeConfig, Steps, Early,
     Late
<1>5. (\A q \in Setups : Balanced(q))'
  BY DEF Balanced, Locked, Unlocked, Untouched, Owns, In, IsolationTypeOK,
     Backups, Cgroups, RuntimeConfig, Steps, Early, Late
<1>6. (Unlocked /\ BackupCovers /\ OutsideUntouched)'
  BY DEF Unlocked, Untouched, BackupCovers, OutsideUntouched, Locked, Checked,
     BackedUp, SysSaved, FreqSaved, NoState, Cpus, Owns, In, IsolationTypeOK,
     Backups, Cgroups, RuntimeConfig, Steps, Early, Late
<1>7. Restored'
  BY DEF Restored, Balanced, Locked, BackedUp, SysSaved, Owns, In,
     IsolationTypeOK, Backups, Cgroups, RuntimeConfig, Steps, Early, Late
<1>. QED BY <1>1, <1>2, <1>3, <1>4, <1>5, <1>6, <1>7

LEMMA EnableControllerInv ==
  ASSUME IsolationInv, NEW p \in Setups, EnableController(p)
  PROVE  IsolationInv'
<1>. USE NoneAssumption DEF EnableController, At, Goto, Exit, machine,
   IsolationInv
<1>1. IsolationTypeOK'
  BY DEF IsolationTypeOK, Backups, Cgroups, RuntimeConfig, Steps, Early, Late,
     Sys, Cpus
<1>2. (\A q \in Setups : Checked(q))'
  BY IsolationAssumption DEF Checked, Cpus, IsolationTypeOK, Backups, Cgroups,
     RuntimeConfig, Steps, Early, Late
<1>3. (\A q \in Setups : Locked(q))'
  BY DEF Locked, Cpus, Owns, In, IsolationTypeOK, Backups, Cgroups,
     RuntimeConfig, Steps, Early, Late
<1>4. (\A q \in Setups : BackedUp(q))'
  BY DEF BackedUp, Locked, Unlocked, Untouched, SysSaved, FreqSaved, Cpus,
     Owns, In, IsolationTypeOK, Backups, Cgroups, RuntimeConfig, Steps, Early,
     Late
<1>5. (\A q \in Setups : Balanced(q))'
  BY DEF Balanced, Locked, Unlocked, Untouched, Owns, In, IsolationTypeOK,
     Backups, Cgroups, RuntimeConfig, Steps, Early, Late
<1>6. (Unlocked /\ BackupCovers /\ OutsideUntouched)'
  BY DEF Unlocked, Untouched, BackupCovers, OutsideUntouched, Locked, Checked,
     BackedUp, SysSaved, FreqSaved, NoState, Cpus, Owns, In, IsolationTypeOK,
     Backups, Cgroups, RuntimeConfig, Steps, Early, Late
<1>7. Restored'
  BY DEF Restored, Balanced, Locked, BackedUp, SysSaved, Owns, In,
     IsolationTypeOK, Backups, Cgroups, RuntimeConfig, Steps, Early, Late
<1>. QED BY <1>1, <1>2, <1>3, <1>4, <1>5, <1>6, <1>7

LEMMA MakeCgroupInv ==
  ASSUME IsolationInv, NEW p \in Setups, MakeCgroup(p)
  PROVE  IsolationInv'
<1>. USE NoneAssumption DEF MakeCgroup, At, Goto, Exit, machine, IsolationInv
<1>1. IsolationTypeOK'
  <2>1. (proc \in [Setups -> RuntimeConfig \union {None}])'
    BY DEF IsolationTypeOK, Backups, Cgroups, RuntimeConfig, Steps, Early,
       Late
  <2>2. (cgroup \in Cgroups)'
    BY DEF NoCgroup, IsolationTypeOK, Backups, Cgroups
  <2>. QED BY <2>1, <2>2 DEF IsolationTypeOK, Backups, Cgroups
<1>2. (\A q \in Setups : Checked(q))'
  BY IsolationAssumption DEF Checked, Cpus, IsolationTypeOK, Backups, Cgroups,
     RuntimeConfig, Steps, Early, Late
<1>3. (\A q \in Setups : Locked(q))'
  BY DEF Locked, Cpus, Owns, In, IsolationTypeOK, Backups, Cgroups,
     RuntimeConfig, Steps, Early, Late
<1>4. (\A q \in Setups : BackedUp(q))'
  BY DEF BackedUp, Locked, Unlocked, Untouched, SysSaved, FreqSaved, Cpus,
     Owns, In, IsolationTypeOK, Backups, Cgroups, RuntimeConfig, Steps, Early,
     Late
<1>5. (\A q \in Setups : Balanced(q))'
  BY DEF Balanced, Locked, Unlocked, Untouched, Owns, In, IsolationTypeOK,
     Backups, Cgroups, RuntimeConfig, Steps, Early, Late
<1>6. (Unlocked /\ BackupCovers /\ OutsideUntouched)'
  BY DEF Unlocked, Untouched, BackupCovers, OutsideUntouched, Locked, Checked,
     BackedUp, SysSaved, FreqSaved, NoState, Cpus, Owns, In, IsolationTypeOK,
     Backups, Cgroups, RuntimeConfig, Steps, Early, Late
<1>7. Restored'
  BY DEF Restored, Balanced, Locked, BackedUp, SysSaved, Owns, In,
     IsolationTypeOK, Backups, Cgroups, RuntimeConfig, Steps, Early, Late
<1>. QED BY <1>1, <1>2, <1>3, <1>4, <1>5, <1>6, <1>7

LEMMA WritePartitionInv ==
  ASSUME IsolationInv, NEW p \in Setups, WritePartition(p)
  PROVE  IsolationInv'
<1>. USE NoneAssumption DEF WritePartition, At, Goto, Exit, machine,
   IsolationInv
<1>1. IsolationTypeOK'
  <2>1. (proc \in [Setups -> RuntimeConfig \union {None}])'
    BY DEF IsolationTypeOK, Backups, Cgroups, RuntimeConfig, Steps, Early,
       Late
  <2>2. (cgroup \in Cgroups)'
    BY DEF Cpus, IsolationTypeOK, Backups, Cgroups, RuntimeConfig, Steps,
       Early, Late
  <2>. QED BY <2>1, <2>2 DEF IsolationTypeOK, Backups, Cgroups
<1>2. (\A q \in Setups : Checked(q))'
  BY IsolationAssumption DEF Checked, Cpus, IsolationTypeOK, Backups, Cgroups,
     RuntimeConfig, Steps, Early, Late
<1>3. (\A q \in Setups : Locked(q))'
  BY DEF Locked, Cpus, Owns, In, IsolationTypeOK, Backups, Cgroups,
     RuntimeConfig, Steps, Early, Late
<1>4. (\A q \in Setups : BackedUp(q))'
  BY DEF BackedUp, Locked, Unlocked, Untouched, SysSaved, FreqSaved, Cpus,
     Owns, In, IsolationTypeOK, Backups, Cgroups, RuntimeConfig, Steps, Early,
     Late
<1>5. (\A q \in Setups : Balanced(q))'
  BY DEF Balanced, Locked, Unlocked, Untouched, Owns, In, IsolationTypeOK,
     Backups, Cgroups, RuntimeConfig, Steps, Early, Late
<1>6. (Unlocked /\ BackupCovers /\ OutsideUntouched)'
  BY DEF Unlocked, Untouched, BackupCovers, OutsideUntouched, Locked, Checked,
     BackedUp, SysSaved, FreqSaved, NoState, Cpus, Owns, In, IsolationTypeOK,
     Backups, Cgroups, RuntimeConfig, Steps, Early, Late
<1>7. Restored'
  BY DEF Restored, Balanced, Locked, BackedUp, SysSaved, Owns, In,
     IsolationTypeOK, Backups, Cgroups, RuntimeConfig, Steps, Early, Late
<1>. QED BY <1>1, <1>2, <1>3, <1>4, <1>5, <1>6, <1>7

LEMMA VerifyCpusetInv ==
  ASSUME IsolationInv, NEW p \in Setups, VerifyCpuset(p)
  PROVE  IsolationInv'
<1>. USE NoneAssumption DEF VerifyCpuset, At, Goto, Exit, machine,
   IsolationInv
<1>1. IsolationTypeOK'
  BY DEF IsolationTypeOK, Backups, Cgroups, RuntimeConfig, Steps, Early, Late,
     Sys, Cpus
<1>2. (\A q \in Setups : Checked(q))'
  BY IsolationAssumption DEF Checked, Cpus, IsolationTypeOK, Backups, Cgroups,
     RuntimeConfig, Steps, Early, Late
<1>3. (\A q \in Setups : Locked(q))'
  BY DEF Locked, Cpus, Owns, In, IsolationTypeOK, Backups, Cgroups,
     RuntimeConfig, Steps, Early, Late
<1>4. (\A q \in Setups : BackedUp(q))'
  BY DEF BackedUp, Locked, Unlocked, Untouched, SysSaved, FreqSaved, Cpus,
     Owns, In, IsolationTypeOK, Backups, Cgroups, RuntimeConfig, Steps, Early,
     Late
<1>5. (\A q \in Setups : Balanced(q))'
  BY DEF Balanced, Locked, Unlocked, Untouched, Owns, In, IsolationTypeOK,
     Backups, Cgroups, RuntimeConfig, Steps, Early, Late
<1>6. (Unlocked /\ BackupCovers /\ OutsideUntouched)'
  BY DEF Unlocked, Untouched, BackupCovers, OutsideUntouched, Locked, Checked,
     BackedUp, SysSaved, FreqSaved, NoState, Cpus, Owns, In, IsolationTypeOK,
     Backups, Cgroups, RuntimeConfig, Steps, Early, Late
<1>7. Restored'
  BY DEF Restored, Balanced, Locked, BackedUp, SysSaved, Owns, In,
     IsolationTypeOK, Backups, Cgroups, RuntimeConfig, Steps, Early, Late
<1>. QED BY <1>1, <1>2, <1>3, <1>4, <1>5, <1>6, <1>7

LEMMA CapFrequencyInv ==
  ASSUME IsolationInv, NEW p \in Setups, CapFrequency(p)
  PROVE  IsolationInv'
<1>. USE NoneAssumption DEF CapFrequency, At, Goto, Exit, machine,
   IsolationInv
<1>1. IsolationTypeOK'
  BY DEF IsolationTypeOK, Backups, Cgroups, RuntimeConfig, Steps, Early, Late,
     Sys, Cpus
<1>2. (\A q \in Setups : Checked(q))'
  BY IsolationAssumption DEF Checked, Cpus, IsolationTypeOK, Backups, Cgroups,
     RuntimeConfig, Steps, Early, Late
<1>3. (\A q \in Setups : Locked(q))'
  BY DEF Locked, Cpus, Owns, In, IsolationTypeOK, Backups, Cgroups,
     RuntimeConfig, Steps, Early, Late
<1>4. (\A q \in Setups : BackedUp(q))'
  BY DEF BackedUp, Locked, Unlocked, Untouched, SysSaved, FreqSaved, Cpus,
     Owns, In, IsolationTypeOK, Backups, Cgroups, RuntimeConfig, Steps, Early,
     Late
<1>5. (\A q \in Setups : Balanced(q))'
  BY DEF Balanced, Locked, Unlocked, Untouched, Owns, In, IsolationTypeOK,
     Backups, Cgroups, RuntimeConfig, Steps, Early, Late
<1>6. (Unlocked /\ BackupCovers /\ OutsideUntouched)'
  BY DEF Unlocked, Untouched, BackupCovers, OutsideUntouched, Locked, Checked,
     BackedUp, SysSaved, FreqSaved, NoState, Cpus, Owns, In, IsolationTypeOK,
     Backups, Cgroups, RuntimeConfig, Steps, Early, Late
<1>7. Restored'
  BY DEF Restored, Balanced, Locked, BackedUp, SysSaved, Owns, In,
     IsolationTypeOK, Backups, Cgroups, RuntimeConfig, Steps, Early, Late
<1>. QED BY <1>1, <1>2, <1>3, <1>4, <1>5, <1>6, <1>7

LEMMA WriteWatchdogInv ==
  ASSUME IsolationInv, NEW p \in Setups, WriteWatchdog(p)
  PROVE  IsolationInv'
<1>. USE NoneAssumption DEF WriteWatchdog, At, Goto, Exit, machine,
   IsolationInv
<1>1. IsolationTypeOK'
  BY DEF IsolationTypeOK, Backups, Cgroups, RuntimeConfig, Steps, Early, Late,
     Sys, Cpus
<1>2. (\A q \in Setups : Checked(q))'
  BY IsolationAssumption DEF Checked, Cpus, IsolationTypeOK, Backups, Cgroups,
     RuntimeConfig, Steps, Early, Late
<1>3. (\A q \in Setups : Locked(q))'
  BY DEF Locked, Cpus, Owns, In, IsolationTypeOK, Backups, Cgroups,
     RuntimeConfig, Steps, Early, Late
<1>4. (\A q \in Setups : BackedUp(q))'
  BY DEF BackedUp, Locked, Unlocked, Untouched, SysSaved, FreqSaved, Cpus,
     Owns, In, IsolationTypeOK, Backups, Cgroups, RuntimeConfig, Steps, Early,
     Late
<1>5. (\A q \in Setups : Balanced(q))'
  BY DEF Balanced, Locked, Unlocked, Untouched, Owns, In, IsolationTypeOK,
     Backups, Cgroups, RuntimeConfig, Steps, Early, Late
<1>6. (Unlocked /\ BackupCovers /\ OutsideUntouched)'
  BY DEF Unlocked, Untouched, BackupCovers, OutsideUntouched, Locked, Checked,
     BackedUp, SysSaved, FreqSaved, NoState, Cpus, Owns, In, IsolationTypeOK,
     Backups, Cgroups, RuntimeConfig, Steps, Early, Late
<1>7. Restored'
  BY DEF Restored, Balanced, Locked, BackedUp, SysSaved, Owns, In,
     IsolationTypeOK, Backups, Cgroups, RuntimeConfig, Steps, Early, Late
<1>. QED BY <1>1, <1>2, <1>3, <1>4, <1>5, <1>6, <1>7

LEMMA StopIrqbalanceInv ==
  ASSUME IsolationInv, NEW p \in Setups, StopIrqbalance(p)
  PROVE  IsolationInv'
<1>. USE NoneAssumption DEF StopIrqbalance, At, Goto, Exit, machine,
   IsolationInv
<1>1. IsolationTypeOK'
  <2>1. (proc \in [Setups -> RuntimeConfig \union {None}])'
    <3>1. proc[p] \in RuntimeConfig
      BY DEF IsolationTypeOK, Backups, Cgroups
    <3>2. [proc[p] EXCEPT !.pc = "smp",
       !.irq_setup_started = TRUE] \in RuntimeConfig
      BY <3>1 DEF RuntimeConfig, Steps, Early, Late
    <3>. QED BY <3>2 DEF IsolationTypeOK, Backups, Cgroups
  <2>. QED BY <2>1 DEF IsolationTypeOK, Backups, Cgroups
<1>2. (\A q \in Setups : Checked(q))'
  BY IsolationAssumption DEF Checked, Cpus, IsolationTypeOK, Backups, Cgroups,
     RuntimeConfig, Steps, Early, Late
<1>3. (\A q \in Setups : Locked(q))'
  BY DEF Locked, Cpus, Owns, In, IsolationTypeOK, Backups, Cgroups,
     RuntimeConfig, Steps, Early, Late
<1>4. (\A q \in Setups : BackedUp(q))'
  BY DEF BackedUp, Locked, Unlocked, Untouched, SysSaved, FreqSaved, Cpus,
     Owns, In, IsolationTypeOK, Backups, Cgroups, RuntimeConfig, Steps, Early,
     Late
<1>5. (\A q \in Setups : Balanced(q))'
  BY DEF Balanced, Locked, Unlocked, Untouched, Owns, In, IsolationTypeOK,
     Backups, Cgroups, RuntimeConfig, Steps, Early, Late
<1>6. (Unlocked /\ BackupCovers /\ OutsideUntouched)'
  BY DEF Unlocked, Untouched, BackupCovers, OutsideUntouched, Locked, Checked,
     BackedUp, SysSaved, FreqSaved, NoState, Cpus, Owns, In, IsolationTypeOK,
     Backups, Cgroups, RuntimeConfig, Steps, Early, Late
<1>7. Restored'
  BY DEF Restored, Balanced, Locked, BackedUp, SysSaved, Owns, In,
     IsolationTypeOK, Backups, Cgroups, RuntimeConfig, Steps, Early, Late
<1>. QED BY <1>1, <1>2, <1>3, <1>4, <1>5, <1>6, <1>7

LEMMA WriteDefaultAffinityInv ==
  ASSUME IsolationInv, NEW p \in Setups, WriteDefaultAffinity(p)
  PROVE  IsolationInv'
<1>. USE NoneAssumption DEF WriteDefaultAffinity, At, Goto, Exit, machine,
   IsolationInv
<1>1. IsolationTypeOK'
  BY DEF IsolationTypeOK, Backups, Cgroups, RuntimeConfig, Steps, Early, Late,
     Sys, Cpus
<1>2. (\A q \in Setups : Checked(q))'
  BY IsolationAssumption DEF Checked, Cpus, IsolationTypeOK, Backups, Cgroups,
     RuntimeConfig, Steps, Early, Late
<1>3. (\A q \in Setups : Locked(q))'
  BY DEF Locked, Cpus, Owns, In, IsolationTypeOK, Backups, Cgroups,
     RuntimeConfig, Steps, Early, Late
<1>4. (\A q \in Setups : BackedUp(q))'
  BY DEF BackedUp, Locked, Unlocked, Untouched, SysSaved, FreqSaved, Cpus,
     Owns, In, IsolationTypeOK, Backups, Cgroups, RuntimeConfig, Steps, Early,
     Late
<1>5. (\A q \in Setups : Balanced(q))'
  BY DEF Balanced, Locked, Unlocked, Untouched, Owns, In, IsolationTypeOK,
     Backups, Cgroups, RuntimeConfig, Steps, Early, Late
<1>6. (Unlocked /\ BackupCovers /\ OutsideUntouched)'
  BY DEF Unlocked, Untouched, BackupCovers, OutsideUntouched, Locked, Checked,
     BackedUp, SysSaved, FreqSaved, NoState, Cpus, Owns, In, IsolationTypeOK,
     Backups, Cgroups, RuntimeConfig, Steps, Early, Late
<1>7. Restored'
  <2>1. In(p, {"smp", "unit"})'
    <3>1. proc[p] \in RuntimeConfig
      BY DEF IsolationTypeOK, Backups, Cgroups
    <3>2. [proc[p] EXCEPT !.pc = "unit"] \in RuntimeConfig
      BY <3>1 DEF RuntimeConfig, Steps, Early, Late
    <3>. QED BY <3>1, <3>2, NoneIsNoConfig DEF In, IsolationTypeOK, Backups,
       Cgroups, RuntimeConfig, Steps
  <2>. QED BY <2>1 DEF Restored
<1>. QED BY <1>1, <1>2, <1>3, <1>4, <1>5, <1>6, <1>7

LEMMA StartUnitInv ==
  ASSUME IsolationInv, NEW p \in Setups, StartUnit(p)
  PROVE  IsolationInv'
<1>. USE NoneAssumption DEF StartUnit, At, Goto, Exit, machine, IsolationInv
<1>1. IsolationTypeOK'
  BY DEF IsolationTypeOK, Backups, Cgroups, RuntimeConfig, Steps, Early, Late,
     Sys, Cpus
<1>2. (\A q \in Setups : Checked(q))'
  BY IsolationAssumption DEF Checked, Cpus, IsolationTypeOK, Backups, Cgroups,
     RuntimeConfig, Steps, Early, Late
<1>3. (\A q \in Setups : Locked(q))'
  BY DEF Locked, Cpus, Owns, In, IsolationTypeOK, Backups, Cgroups,
     RuntimeConfig, Steps, Early, Late
<1>4. (\A q \in Setups : BackedUp(q))'
  BY DEF BackedUp, Locked, Unlocked, Untouched, SysSaved, FreqSaved, Cpus,
     Owns, In, IsolationTypeOK, Backups, Cgroups, RuntimeConfig, Steps, Early,
     Late
<1>5. (\A q \in Setups : Balanced(q))'
  BY DEF Balanced, Locked, Unlocked, Untouched, Owns, In, IsolationTypeOK,
     Backups, Cgroups, RuntimeConfig, Steps, Early, Late
<1>6. (Unlocked /\ BackupCovers /\ OutsideUntouched)'
  BY DEF Unlocked, Untouched, BackupCovers, OutsideUntouched, Locked, Checked,
     BackedUp, SysSaved, FreqSaved, NoState, Cpus, Owns, In, IsolationTypeOK,
     Backups, Cgroups, RuntimeConfig, Steps, Early, Late
<1>7. Restored'
  BY DEF Restored, Balanced, Locked, BackedUp, SysSaved, Owns, In,
     IsolationTypeOK, Backups, Cgroups, RuntimeConfig, Steps, Early, Late
<1>. QED BY <1>1, <1>2, <1>3, <1>4, <1>5, <1>6, <1>7

LEMMA RebalanceInv ==
  ASSUME IsolationInv, NEW p \in Setups, Rebalance(p)
  PROVE  IsolationInv'
<1>. USE NoneAssumption DEF Rebalance, At, Goto, Exit, machine, IsolationInv
<1>1. IsolationTypeOK'
  <2>1. (proc \in [Setups -> RuntimeConfig \union {None}])'
    <3>1. proc[p] \in RuntimeConfig
      BY DEF IsolationTypeOK, Backups, Cgroups
    <3>2. [proc[p] EXCEPT !.pc = "summary",
       !.irq_setup_started = FALSE] \in RuntimeConfig
      BY <3>1 DEF RuntimeConfig, Steps, Early, Late
    <3>. QED BY <3>2 DEF IsolationTypeOK, Backups, Cgroups
  <2>2. (sys \in [Sys -> {"host", "nemu"}])'
    BY DEF IsolationTypeOK, Backups, Cgroups, Sys
  <2>. QED BY <2>1, <2>2 DEF IsolationTypeOK, Backups, Cgroups
<1>2. (\A q \in Setups : Checked(q))'
  BY IsolationAssumption DEF Checked, Cpus, IsolationTypeOK, Backups, Cgroups,
     RuntimeConfig, Steps, Early, Late
<1>3. (\A q \in Setups : Locked(q))'
  BY DEF Locked, Cpus, Owns, In, IsolationTypeOK, Backups, Cgroups,
     RuntimeConfig, Steps, Early, Late
<1>4. (\A q \in Setups : BackedUp(q))'
  BY DEF BackedUp, Locked, Unlocked, Untouched, SysSaved, FreqSaved, Cpus,
     Owns, In, IsolationTypeOK, Backups, Cgroups, RuntimeConfig, Steps, Early,
     Late
<1>5. (\A q \in Setups : Balanced(q))'
  BY DEF Balanced, Locked, Unlocked, Untouched, Owns, In, IsolationTypeOK,
     Backups, Cgroups, RuntimeConfig, Steps, Early, Late
<1>6. (Unlocked /\ BackupCovers /\ OutsideUntouched)'
  BY DEF Unlocked, Untouched, BackupCovers, OutsideUntouched, Locked, Checked,
     BackedUp, SysSaved, FreqSaved, NoState, Cpus, Owns, In, IsolationTypeOK,
     Backups, Cgroups, RuntimeConfig, Steps, Early, Late
<1>7. Restored'
  BY DEF Restored, Balanced, Locked, BackedUp, SysSaved, Owns, In,
     IsolationTypeOK, Backups, Cgroups, RuntimeConfig, Steps, Early, Late
<1>. QED BY <1>1, <1>2, <1>3, <1>4, <1>5, <1>6, <1>7

LEMMA PrintSummaryInv ==
  ASSUME IsolationInv, NEW p \in Setups, PrintSummary(p)
  PROVE  IsolationInv'
<1>. USE NoneAssumption DEF PrintSummary, At, Goto, Exit, machine,
   IsolationInv
<1>1. IsolationTypeOK'
  BY DEF IsolationTypeOK, Backups, Cgroups, RuntimeConfig, Steps, Early, Late,
     Sys, Cpus
<1>2. (\A q \in Setups : Checked(q))'
  BY IsolationAssumption DEF Checked, Cpus, IsolationTypeOK, Backups, Cgroups,
     RuntimeConfig, Steps, Early, Late
<1>3. (\A q \in Setups : Locked(q))'
  BY DEF Locked, Cpus, Owns, In, IsolationTypeOK, Backups, Cgroups,
     RuntimeConfig, Steps, Early, Late
<1>4. (\A q \in Setups : BackedUp(q))'
  BY DEF BackedUp, Locked, Unlocked, Untouched, SysSaved, FreqSaved, Cpus,
     Owns, In, IsolationTypeOK, Backups, Cgroups, RuntimeConfig, Steps, Early,
     Late
<1>5. (\A q \in Setups : Balanced(q))'
  BY DEF Balanced, Locked, Unlocked, Untouched, Owns, In, IsolationTypeOK,
     Backups, Cgroups, RuntimeConfig, Steps, Early, Late
<1>6. (Unlocked /\ BackupCovers /\ OutsideUntouched)'
  BY DEF Unlocked, Untouched, BackupCovers, OutsideUntouched, Locked, Checked,
     BackedUp, SysSaved, FreqSaved, NoState, Cpus, Owns, In, IsolationTypeOK,
     Backups, Cgroups, RuntimeConfig, Steps, Early, Late
<1>7. Restored'
  BY DEF Restored, Balanced, Locked, BackedUp, SysSaved, Owns, In,
     IsolationTypeOK, Backups, Cgroups, RuntimeConfig, Steps, Early, Late
<1>. QED BY <1>1, <1>2, <1>3, <1>4, <1>5, <1>6, <1>7

LEMMA FailInv ==
  ASSUME IsolationInv, NEW p \in Setups, Fail(p)
  PROVE  IsolationInv'
<1>. USE NoneAssumption DEF Fail, At, Goto, Exit, machine, IsolationInv
<1>1. IsolationTypeOK'
  BY DEF IsolationTypeOK, Backups, Cgroups, RuntimeConfig, Steps, Early, Late,
     Sys, Cpus
<1>2. (\A q \in Setups : Checked(q))'
  BY IsolationAssumption DEF Checked, Cpus, IsolationTypeOK, Backups, Cgroups,
     RuntimeConfig, Steps, Early, Late
<1>3. (\A q \in Setups : Locked(q))'
  BY DEF Locked, Cpus, Owns, In, IsolationTypeOK, Backups, Cgroups,
     RuntimeConfig, Steps, Early, Late
<1>4. (\A q \in Setups : BackedUp(q))'
  <2>1. \A q \in Setups : Owns(q)' => Owns(q) /\ ~ Owns(p)
    BY DEF Locked, Owns, In, IsolationTypeOK, Backups, Cgroups
  <2>2. ~ Owns(p) => UNCHANGED <<irqbalance, unit>>
    BY DEF Balanced, Owns, In, IsolationTypeOK, Backups, Cgroups,
       RuntimeConfig, Steps, Early, Late
  <2>3. \A q \in Setups : q # p => proc'[q] = proc[q]
    BY DEF IsolationTypeOK, Backups, Cgroups
  <2>. QED
    BY <2>1, <2>2, <2>3 DEF BackedUp, Untouched, SysSaved, FreqSaved, Owns,
       In, Early, Late
<1>5. (\A q \in Setups : Balanced(q))'
  BY DEF Balanced, Locked, Unlocked, Untouched, Owns, In, IsolationTypeOK,
     Backups, Cgroups, RuntimeConfig, Steps, Early, Late
<1>6. (Unlocked /\ BackupCovers /\ OutsideUntouched)'
  <2>1. proc[p].irq_setup_started => state.exists /\ SysSaved
    BY DEF Balanced, Locked, BackedUp, Owns, In, IsolationTypeOK, Backups,
       Cgroups, RuntimeConfig, Steps, Early, Late
  <2>2. CASE proc[p].irq_setup_started
    BY <2>1, <2>2 DEF Unlocked, BackupCovers, OutsideUntouched, SysSaved,
       IsolationTypeOK, Backups, Cgroups
  <2>3. CASE ~ proc[p].irq_setup_started
    BY <2>3 DEF Unlocked, Untouched, BackupCovers, OutsideUntouched, NoState
  <2>. QED BY <2>2, <2>3
<1>7. Restored'
  BY DEF Restored, Balanced, Locked, BackedUp, SysSaved, Owns, In,
     IsolationTypeOK, Backups, Cgroups, RuntimeConfig, Steps, Early, Late
<1>. QED BY <1>1, <1>2, <1>3, <1>4, <1>5, <1>6, <1>7

LEMMA InterruptInv ==
  ASSUME IsolationInv, NEW p \in Setups, Interrupt(p)
  PROVE  IsolationInv'
<1>. USE NoneAssumption DEF Interrupt, At, Goto, Exit, machine, IsolationInv
<1>1. IsolationTypeOK'
  BY DEF IsolationTypeOK, Backups, Cgroups, RuntimeConfig, Steps, Early, Late,
     Sys, Cpus
<1>2. (\A q \in Setups : Checked(q))'
  BY IsolationAssumption DEF Checked, Cpus, IsolationTypeOK, Backups, Cgroups,
     RuntimeConfig, Steps, Early, Late
<1>3. (\A q \in Setups : Locked(q))'
  BY DEF Locked, Cpus, Owns, In, IsolationTypeOK, Backups, Cgroups,
     RuntimeConfig, Steps, Early, Late
<1>4. (\A q \in Setups : BackedUp(q))'
  BY DEF BackedUp, Locked, Unlocked, Untouched, SysSaved, FreqSaved, Cpus,
     Owns, In, IsolationTypeOK, Backups, Cgroups, RuntimeConfig, Steps, Early,
     Late
<1>5. (\A q \in Setups : Balanced(q))'
  BY DEF Balanced, Locked, Unlocked, Untouched, Owns, In, IsolationTypeOK,
     Backups, Cgroups, RuntimeConfig, Steps, Early, Late
<1>6. (Unlocked /\ BackupCovers /\ OutsideUntouched)'
  BY DEF Unlocked, Untouched, BackupCovers, OutsideUntouched, Locked, Checked,
     BackedUp, SysSaved, FreqSaved, NoState, Cpus, Owns, In, IsolationTypeOK,
     Backups, Cgroups, RuntimeConfig, Steps, Early, Late
<1>7. Restored'
  BY DEF Restored, Balanced, Locked, BackedUp, SysSaved, Owns, In,
     IsolationTypeOK, Backups, Cgroups, RuntimeConfig, Steps, Early, Late
<1>. QED BY <1>1, <1>2, <1>3, <1>4, <1>5, <1>6, <1>7

LEMMA RollbackInv ==
  ASSUME IsolationInv, Rollback
  PROVE  IsolationInv'
<1>. USE NoneAssumption DEF Rollback, IsolationInv
<1>1. Untouched'
  <2>1. \A s \in Sys : sys'[s] = "host"
    BY DEF Saved, BackupCovers, IsolationTypeOK, Backups, Cgroups
  <2>2. \A c \in CPUs : freq'[c] = "host"
    BY DEF Saved, BackupCovers, IsolationTypeOK, Backups, Cgroups
  <2>3. irqbalance' = before
    BY DEF Saved, BackupCovers, IsolationTypeOK, Backups, Cgroups
  <2>. QED BY <2>1, <2>2, <2>3 DEF Untouched
<1>2. IsolationTypeOK'
  <2>1. sys' \in [Sys -> {"host", "nemu"}] /\ freq' \in [CPUs -> {"host",
     "nemu"}]
    BY <1>1 DEF Untouched
  <2>. QED BY <1>1, <2>1 DEF Untouched, NoState, NoCgroup, IsolationTypeOK,
     Backups, Cgroups
<1>3. \A p \in Setups : proc'[p] = None
  OBVIOUS
<1>4. (\A p \in Setups : Checked(p) /\ Locked(p) /\ BackedUp(p) /\ Balanced(p))'
  BY <1>3 DEF Checked, Locked, BackedUp, Balanced, Owns, In
<1>5. (Unlocked /\ BackupCovers /\ OutsideUntouched)'
  BY <1>1 DEF Unlocked, Untouched, BackupCovers, OutsideUntouched
<1>6. Restored'
  BY <1>1, <1>3 DEF Restored, Untouched, In, IsolationTypeOK, Backups, Cgroups
<1>. QED BY <1>2, <1>4, <1>5, <1>6

LEMMA RebootInv ==
  ASSUME IsolationInv, Reboot
  PROVE  IsolationInv'
<1>. USE NoneAssumption DEF Reboot, IsolationInv
<1>1. Untouched'
  BY DEF Untouched
<1>2. IsolationTypeOK'
  BY DEF NoState, NoCgroup, IsolationTypeOK, Backups, Cgroups
<1>3. \A p \in Setups : proc'[p] = None
  OBVIOUS
<1>4. (\A p \in Setups : Checked(p) /\ Locked(p) /\ BackedUp(p) /\ Balanced(p))'
  BY <1>3 DEF Checked, Locked, BackedUp, Balanced, Owns, In
<1>5. (Unlocked /\ BackupCovers /\ OutsideUntouched)'
  BY <1>1 DEF Unlocked, Untouched, BackupCovers, OutsideUntouched
<1>6. Restored'
  BY <1>1 DEF Restored, Untouched
<1>. QED BY <1>2, <1>4, <1>5, <1>6

LEMMA StutterInv ==
  ASSUME IsolationInv, UNCHANGED vars
  PROVE  IsolationInv'
<1>. USE DEF vars, IsolationInv
<1>1. (/\ IsolationTypeOK /\ Unlocked /\ Restored
      /\ BackupCovers /\ OutsideUntouched)'
  BY DEF IsolationTypeOK, Backups, Cgroups, Unlocked, Untouched, Restored, In,
     BackupCovers, OutsideUntouched
<1>2. (\A p \in Setups : Checked(p) /\ Locked(p) /\ BackedUp(p) /\ Balanced(p))'
  BY DEF Checked, Locked, BackedUp, Balanced, Untouched, SysSaved, FreqSaved,
     Owns, In, Cpus
<1>. QED BY <1>1, <1>2

LEMMA InitInv == Init => IsolationInv
<1>. SUFFICES ASSUME Init PROVE IsolationInv
  OBVIOUS
<1>. USE NoneAssumption DEF Init
<1>1. IsolationTypeOK
  BY DEF IsolationTypeOK, Backups, Cgroups, NoState, NoCgroup
<1>2. Untouched
  BY DEF Untouched
<1>3. \A p \in Setups : proc[p] = None
  OBVIOUS
<1>4. \A p \in Setups : Checked(p) /\ Locked(p) /\ BackedUp(p) /\ Balanced(p)
  BY <1>3 DEF Checked, Locked, BackedUp, Balanced, Owns, In
<1>5. Unlocked /\ BackupCovers /\ OutsideUntouched /\ Restored
  BY <1>2 DEF Unlocked, Untouched, BackupCovers, OutsideUntouched, Restored
<1>. QED BY <1>1, <1>4, <1>5 DEF IsolationInv

LEMMA NextInv == IsolationInv /\ [Next]_vars => IsolationInv'
<1>. SUFFICES ASSUME IsolationInv, [Next]_vars PROVE IsolationInv'
  OBVIOUS
<1>1. ASSUME NEW p \in Setups, Execute(p) PROVE IsolationInv'
  BY <1>1, CheckPrerequisitesInv, BackupDirInv, SaveSettingsInv, SaveCpusInv,
     EnableControllerInv, MakeCgroupInv, WritePartitionInv, VerifyCpusetInv,
     CapFrequencyInv, WriteWatchdogInv, StopIrqbalanceInv,
     WriteDefaultAffinityInv, StartUnitInv, RebalanceInv, PrintSummaryInv DEF
     Execute
<1>2. ASSUME NEW p \in Setups, Fail(p) \/ Interrupt(p) PROVE IsolationInv'
  BY <1>2, FailInv, InterruptInv
<1>. QED BY <1>1, <1>2, RollbackInv, RebootInv, StutterInv DEF Next

------------------------------------------------------------------------------
(* The strengthening holds of every reachable state.                       *)
THEOREM IsolationInvariant == Spec => []IsolationInv
BY InitInv, NextInv, PTL DEF Spec

(* Whatever fails, is interrupted or runs twice, on any host: what differs *)
(* from the host's own setting has that setting in the backup.             *)
THEOREM IsolationBackupCovers == Spec => []BackupCovers
<1>1. IsolationInv => BackupCovers
  BY DEF IsolationInv
<1>. QED BY <1>1, IsolationInvariant, PTL

(* No CPU outside the list given to the script is ever changed.            *)
THEOREM IsolationOutsideUntouched == Spec => []OutsideUntouched
<1>1. IsolationInv => OutsideUntouched
  BY DEF IsolationInv
<1>. QED BY <1>1, IsolationInvariant, PTL

(* There are never two irqbalance daemons, and none is lost by a failure.  *)
THEOREM IsolationBalancerKept == Spec => []BalancerKept
<1>1. IsolationInv => BalancerKept
  BY DEF IsolationInv, Restored, BalancerKept, In
<1>. QED BY <1>1, IsolationInvariant, PTL

(* When the precheck passes, nothing is left of an earlier run, and none   *)
(* has begun to change the host.                                           *)
THEOREM IsolationPrecheckFindsResidue == Spec => []PrecheckFindsResidue
<1>1. IsolationInv => PrecheckFindsResidue
  <2>1. SUFFICES ASSUME IsolationInv, NEW cpus \in SUBSET CPUs, precheck(cpus)
                 PROVE  /\ Untouched
                        /\ \A p \in Setups : proc[p] # None => proc[p].pc = "backup"
    BY DEF PrecheckFindsResidue, Untouched
  <2>2. ~ state.exists
    BY <2>1 DEF precheck
  <2>3. Untouched
    BY <2>1, <2>2 DEF IsolationInv, Unlocked
  <2>4. ASSUME NEW p \in Setups, proc[p] # None
        PROVE  proc[p].pc = "backup"
    <3>1. ~ Owns(p)
      BY <2>1, <2>2 DEF IsolationInv, Locked
    <3>2. proc[p] \in RuntimeConfig
      BY <2>1, <2>4 DEF IsolationInv, IsolationTypeOK
    <3>. QED BY <2>4, <3>1, <3>2 DEF RuntimeConfig, Steps, Owns, In, Early, Late
  <2>. QED BY <2>3, <2>4
<1>. QED BY <1>1, IsolationInvariant, PTL
================================================================================
