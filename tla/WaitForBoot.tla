---------------------------- MODULE WaitForBoot ----------------------------
(***************************************************************************)
(* wait_for_boot() of pxeboot.py with check_host_is_booted(), over the     *)
(* tries of a run.  On the network are the DPU, which installs and reboots *)
(* as it likes, and other machines; the host only sees who answers a ping  *)
(* and who lets it in with the key of the run.                             *)
(***************************************************************************)
EXTENDS Naturals

CONSTANTS
  MaxTry,
  Static,       \* dpu_ip4addr
  DhcpRange,    \* DPU_DHCPRANGE
  NoAddr

ASSUME TriesAssumption == MaxTry \in Nat \ {0}
ASSUME AddrsAssumption == Static \notin DhcpRange /\ NoAddr \notin DhcpRange \cup {Static}

Addrs == DhcpRange \cup {Static}
Systems == {"off", "installer", "installed", "old"}

VARIABLES
  iso_kind, dhcp_restricted, console_wait,  \* options; console_wait > 0 or not
  key_reused,      \* the run uses a key that it found (HostSetup)
  pc, try_count,
  sigusr1_received, has_ser,
  waited, late,    \* console_wait is over, the timeout is over
  ips, ip,         \* check_host_is_booted(): addresses left to try, the one in hand
  sys, disk,       \* what runs on the DPU, what its disk starts
  up, sshd,        \* the addresses it answers on, and whether ssh does
  others,          \* addresses other machines answer on
  answered,        \* history: the system that let the host in
  steady           \* history: the DPU was ready on Static since the poll began

optVars == <<iso_kind, dhcp_restricted, console_wait, key_reused>>
netVars == <<sys, disk, up, sshd, others>>
timeVars == <<waited, late>>
pollVars == <<ips, ip, answered, steady>>
vars == <<optVars, pc, try_count, sigusr1_received, has_ser, timeVars, pollVars, netVars>>

\* RHEL is installed on the disk; RHCOS runs from memory.
Goal == IF iso_kind = "rhcos" THEN "installer" ELSE "installed"

LetsIn(s) == s = Goal \/ (s = "old" /\ key_reused)
Pings(a) == a \in up \cup others
Ready(a) == a \in up /\ sshd /\ LetsIn(sys)

Waiting == {"wait", "ping", "ssh", "ping_static", "ssh_static", "check", "sleep"}

TypeOK ==
  /\ iso_kind \in {"rhel", "rhcos"}
  /\ {dhcp_restricted, console_wait, key_reused, sigusr1_received, has_ser, waited, late, sshd, steady}
       \subseteq BOOLEAN
  /\ pc \in Waiting \cup {"boot", "except", "returned", "failed"}
  /\ try_count \in 1..MaxTry
  /\ ips \subseteq Addrs /\ ip \in Addrs \cup {NoAddr}
  /\ sys \in Systems /\ disk \in {"old", "installed"}
  /\ up \subseteq Addrs /\ others \subseteq DhcpRange
  /\ answered \in Systems \cup {"nobody"}

Init ==
  /\ iso_kind \in {"rhel", "rhcos"}
  /\ dhcp_restricted \in BOOLEAN /\ console_wait \in BOOLEAN /\ key_reused \in BOOLEAN
  /\ pc = "boot" /\ try_count = 1
  /\ sigusr1_received = FALSE /\ has_ser = FALSE
  /\ waited = FALSE /\ late = FALSE
  /\ ips = {} /\ ip = NoAddr /\ answered = "nobody" /\ steady = FALSE
  /\ sys = "old" /\ disk = "old" /\ up = {} /\ sshd = FALSE /\ others = {}

-----------------------------------------------------------------------------
(* A try: the DPU is reset and its PXE entry selected, or something fails *)

BootEntry ==
  /\ pc = "boot"
  /\ sys' = "off" /\ up' = {} /\ sshd' = FALSE
  /\ has_ser' = TRUE /\ waited' = FALSE /\ late' = FALSE
  /\ pc' = "wait"
  /\ UNCHANGED <<optVars, try_count, sigusr1_received, pollVars, disk, others>>

BootFails ==
  /\ pc = "boot"
  /\ pc' = "except"
  /\ UNCHANGED <<optVars, try_count, sigusr1_received, has_ser, timeVars, pollVars, netVars>>

\* Mutant: only the time counts.
ReleaseConsoleInTime ==
  /\ pc = "wait"
  /\ has_ser' = (has_ser /\ ~waited)
  /\ pc' = "ping" /\ ips' = Addrs /\ steady' = Ready(Static)
  /\ UNCHANGED <<optVars, try_count, sigusr1_received, timeVars, ip, answered, netVars>>

\* Mutant: the static address is left out, as if it were one of the range.
ReleaseConsoleRange ==
  /\ pc = "wait"
  /\ has_ser' = (has_ser /\ ~sigusr1_received /\ ~waited)
  /\ pc' = "ping" /\ ips' = DhcpRange /\ steady' = Ready(Static)
  /\ UNCHANGED <<optVars, try_count, sigusr1_received, timeVars, ip, answered, netVars>>

\* The top of the loop; the poll starts with all addresses.
ReleaseConsole ==
  /\ pc = "wait"
  /\ has_ser' = (has_ser /\ ~sigusr1_received /\ ~waited)
  /\ pc' = "ping" /\ ips' = Addrs /\ steady' = Ready(Static)
  /\ UNCHANGED <<optVars, try_count, sigusr1_received, timeVars, ip, answered, netVars>>

\* wait_ping() names any of the addresses that answer.
Ping ==
  /\ pc = "ping"
  /\ \E a \in ips : Pings(a) /\ ip' = a
  /\ pc' = "ssh"
  /\ UNCHANGED <<optVars, try_count, sigusr1_received, has_ser, timeVars, ips, answered, steady, netVars>>

NoPing ==
  /\ pc = "ping"
  /\ \A a \in ips : ~Pings(a)
  /\ pc' = "check" /\ ips' = {}
  /\ UNCHANGED <<optVars, try_count, sigusr1_received, has_ser, timeVars, ip, answered, steady, netVars>>

\* Mutant: who answers a ping is taken for ready.
SshAnswersPing ==
  /\ pc = "ssh"
  /\ answered' = sys
  /\ pc' = IF ip = Static THEN "returned" ELSE "ping_static"
  /\ UNCHANGED <<optVars, try_count, sigusr1_received, has_ser, timeVars, ips, ip, steady, netVars>>

\* Mutant: any address will do.
SshTakesFirst ==
  /\ pc = "ssh" /\ Ready(ip)
  /\ answered' = sys
  /\ pc' = "returned"
  /\ UNCHANGED <<optVars, try_count, sigusr1_received, has_ser, timeVars, ips, ip, steady, netVars>>

Ssh ==
  /\ pc = "ssh" /\ Ready(ip)
  /\ answered' = sys
  /\ pc' = IF ip = Static THEN "returned" ELSE "ping_static"
  /\ UNCHANGED <<optVars, try_count, sigusr1_received, has_ser, timeVars, ips, ip, steady, netVars>>

\* Mutant: the address is tried again until ssh is ready.
SshRefusedAgain ==
  /\ pc = "ssh" /\ ~Ready(ip)
  /\ pc' = "ping"
  /\ UNCHANGED <<optVars, try_count, sigusr1_received, has_ser, timeVars, pollVars, netVars>>

\* The address is not tried again in this poll.
SshRefused ==
  /\ pc = "ssh" /\ ~Ready(ip)
  /\ ips' = ips \ {ip} /\ ip' = NoAddr
  /\ pc' = "ping"
  /\ UNCHANGED <<optVars, try_count, sigusr1_received, has_ser, timeVars, answered, steady, netVars>>

PingStatic ==
  /\ pc = "ping_static"
  /\ pc' = IF Pings(Static) THEN "ssh_static" ELSE "returned"
  /\ UNCHANGED <<optVars, try_count, sigusr1_received, has_ser, timeVars, pollVars, netVars>>

\* The static address is preferred if it is ready as well.
SshStatic ==
  /\ pc = "ssh_static"
  /\ IF Ready(Static)
     THEN ip' = Static /\ answered' = sys
     ELSE UNCHANGED <<ip, answered>>
  /\ pc' = "returned"
  /\ UNCHANGED <<optVars, try_count, sigusr1_received, has_ser, timeVars, ips, steady, netVars>>

\* The timeout is looked at after a poll that found nobody.
CheckTimeout ==
  /\ pc = "check"
  /\ pc' = IF late THEN "except" ELSE "sleep"
  /\ UNCHANGED <<optVars, try_count, sigusr1_received, has_ser, timeVars, pollVars, netVars>>

Sleep ==
  /\ pc = "sleep"
  /\ pc' = "wait"
  /\ UNCHANGED <<optVars, try_count, sigusr1_received, has_ser, timeVars, pollVars, netVars>>

\* Mutant: the tries are not limited.
RetryOnceMore ==
  /\ pc = "except"
  /\ pc' = "boot" /\ try_count' = try_count + 1
  /\ UNCHANGED <<optVars, sigusr1_received, has_ser, timeVars, pollVars, netVars>>

\* main(): the next try.
Retry ==
  /\ pc = "except"
  /\ IF try_count >= MaxTry
     THEN pc' = "failed" /\ UNCHANGED try_count
     ELSE pc' = "boot" /\ try_count' = try_count + 1
  /\ UNCHANGED <<optVars, sigusr1_received, has_ser, timeVars, pollVars, netVars>>

Program ==
  \/ BootEntry \/ BootFails
  \/ ReleaseConsole
  \/ Ping \/ NoPing \/ Ssh \/ SshRefused \/ PingStatic \/ SshStatic
  \/ CheckTimeout \/ Sleep
  \/ Retry

-----------------------------------------------------------------------------
(* The user, the clock, the DPU and the network *)

SignalHandler ==
  /\ pc \notin {"returned", "failed"}
  /\ sigusr1_received' = TRUE
  /\ UNCHANGED <<optVars, pc, try_count, has_ser, timeVars, pollVars, netVars>>

\* The timeout is at least 100 seconds longer than console_wait.
Clock ==
  /\ pc \in Waiting
  /\ IF console_wait /\ ~waited
     THEN waited' = TRUE /\ UNCHANGED late
     ELSE late' = TRUE /\ UNCHANGED waited
  /\ UNCHANGED <<optVars, pc, try_count, sigusr1_received, has_ser, pollVars, netVars>>

\* PXE boots the installer; without it the disk is next.
DpuBoots ==
  /\ sys = "off"
  /\ sys' \in {"installer", disk}
  /\ UNCHANGED <<disk, up, sshd, others>>

\* A crash, or the end of an installation.
DpuReboots ==
  /\ sys # "off"
  /\ sys' = "off" /\ up' = {} /\ sshd' = FALSE
  /\ disk' \in IF sys = "installer" /\ iso_kind = "rhel" THEN {disk, "installed"} ELSE {disk}
  /\ UNCHANGED others

DpuStartsSshd ==
  /\ sys # "off"
  /\ sshd' = TRUE
  /\ UNCHANGED <<sys, disk, up, others>>

\* A restricted dhcpd gives the DPU, installer or not, the static address, and
\* knows no other client.
DpuGetsAddress(a) ==
  /\ sys # "off"
  /\ a \notin others
  /\ IF a = Static THEN dhcp_restricted \/ sys # "installer" \/ iso_kind = "rhcos"
                   ELSE ~dhcp_restricted
  /\ up' = up \cup {a}
  /\ UNCHANGED <<sys, disk, sshd, others>>

DpuLosesAddress(a) ==
  /\ a \in up
  /\ up' = up \ {a}
  /\ UNCHANGED <<sys, disk, sshd, others>>

OtherMachine(a) ==
  /\ a \notin up
  /\ \/ others' = others \cup {a}
     \/ others' = others \ {a}
  /\ UNCHANGED <<sys, disk, up, sshd>>

\* Once the run has ended nobody looks any more.
Network ==
  /\ pc \notin {"returned", "failed"}
  /\ \/ DpuBoots \/ DpuReboots \/ DpuStartsSshd
     \/ \E a \in Addrs : DpuGetsAddress(a) \/ DpuLosesAddress(a)
     \/ \E a \in DhcpRange : OtherMachine(a)
  /\ UNCHANGED <<optVars, pc, try_count, sigusr1_received, has_ser, timeVars, ips, ip, answered>>
  /\ steady' = (steady /\ Ready(Static)')

Next == Program \/ SignalHandler \/ Clock \/ Network

Spec == Init /\ [][Next]_vars /\ WF_vars(Program)

-----------------------------------------------------------------------------
\* What is reported as booted is the system of this run, never the installer of
\* RHEL that has the static address already, another machine with an address of
\* the range, or the old system; unless the run uses a key it found.
BootedIsInstalled ==
  pc = "returned" => answered = Goal \/ key_reused

\* If the DPU is ready on its static address from the beginning of a poll to its
\* end, the poll returns that address, whoever else answers in the meantime.
PollFindsStatic ==
  steady => pc # "check" /\ (pc = "returned" => ip = Static)

\* With SIGUSR1 the console is released, or there is nothing left to wait for: also
\* if console_wait is not over, in whatever try the signal came.
SignalReleases ==
  sigusr1_received /\ pc \in Waiting ~> ~has_ser \/ pc \in {"returned", "failed"}

\* If time passes the wait ends, whatever comes and goes on the network.
WaitEnds == WF_vars(Clock) => (pc = "boot" ~> pc \in {"returned", "failed"})

-----------------------------------------------------------------------------
\* Why the static address is found: it is struck off only when it was not ready.
PollInv ==
  /\ steady => Ready(Static)
  /\ steady /\ pc \in {"ping", "ssh"} => Static \in ips
  /\ steady => pc \in {"ping", "ssh", "ping_static", "ssh_static", "returned"}
  /\ steady /\ pc = "returned" => ip = Static
  /\ pc \in {"ssh", "ping_static", "ssh_static"} => ip # NoAddr
  /\ pc \in {"ping_static", "ssh_static", "returned"} => LetsIn(answered)
=============================================================================
