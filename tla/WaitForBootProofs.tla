------------------------- MODULE WaitForBootProofs -------------------------
(***************************************************************************)
(* What wait_for_boot() may report, for any range of addresses and any     *)
(* number of tries.                                                        *)
(***************************************************************************)
EXTENDS WaitForBoot, TLAPS

USE TriesAssumption, AddrsAssumption

Inv == TypeOK /\ PollInv

LEMMA InitInv == Init => Inv
<1> SUFFICES ASSUME Init PROVE Inv
  OBVIOUS
<1>1. TypeOK
  <2>1. try_count \in 1..MaxTry
    BY DEF Init
  <2>2. sys \in Systems
    BY DEF Init, Systems
  <2>3. {dhcp_restricted, console_wait, key_reused, sigusr1_received, has_ser, waited, late,
         sshd, steady} \subseteq BOOLEAN
    BY DEF Init
  <2>4. QED
    BY <2>1, <2>2, <2>3 DEF Init, TypeOK
<1>2. PollInv
  BY DEF Init, PollInv
<1>3. QED
  BY <1>1, <1>2 DEF Inv

\* What comes and goes on the network changes neither the options nor the poll.
LEMMA NetworkStep ==
  ASSUME Network
  PROVE  /\ UNCHANGED <<optVars, pc, try_count, sigusr1_received, has_ser, timeVars, ips, ip, answered>>
         /\ steady' = (steady /\ Ready(Static)')
BY DEF Network

LEMMA NetworkType ==
  ASSUME TypeOK, Network
  PROVE  /\ sys' \in Systems /\ disk' \in {"old", "installed"}
         /\ up' \subseteq Addrs /\ others' \subseteq DhcpRange /\ sshd' \in BOOLEAN
<1> USE DEF TypeOK, Systems
<1>1. CASE DpuBoots
  BY <1>1 DEF DpuBoots
<1>2. CASE DpuReboots
  BY <1>2 DEF DpuReboots
<1>3. CASE DpuStartsSshd
  BY <1>3 DEF DpuStartsSshd
<1>4. CASE \E a \in Addrs : DpuGetsAddress(a) \/ DpuLosesAddress(a)
  BY <1>4 DEF DpuGetsAddress, DpuLosesAddress
<1>5. CASE \E a \in DhcpRange : OtherMachine(a)
  BY <1>5 DEF OtherMachine
<1>6. QED
  BY <1>1, <1>2, <1>3, <1>4, <1>5 DEF Network

\* One step per action: what it assigns has its type.
LEMMA TypeStep ==
  ASSUME Inv, [Next]_vars
  PROVE  TypeOK'
<1> USE DEF Inv, TypeOK, Waiting, optVars, timeVars, pollVars, netVars
<1>1. CASE BootEntry
  BY <1>1 DEF Systems, BootEntry
<1>2. CASE BootFails
  BY <1>2 DEF BootFails
<1>3. CASE ReleaseConsole
  BY <1>3 DEF Ready, Addrs, ReleaseConsole
<1>4. CASE Ping
  BY <1>4 DEF Addrs, Ping
<1>5. CASE NoPing
  BY <1>5 DEF NoPing
<1>6. CASE Ssh
  BY <1>6 DEF Ssh
<1>7. CASE SshRefused
  BY <1>7 DEF SshRefused
<1>8. CASE PingStatic
  BY <1>8 DEF PingStatic
<1>9. CASE SshStatic
  BY <1>9 DEF Addrs, SshStatic
<1>10. CASE CheckTimeout
  BY <1>10 DEF CheckTimeout
<1>11. CASE Sleep
  BY <1>11 DEF Sleep
<1>12. CASE Retry
  BY <1>12 DEF Retry
<1>13. CASE SignalHandler
  BY <1>13 DEF SignalHandler
<1>14. CASE Clock
  BY <1>14 DEF Clock
<1>15. CASE Network
  <2>1. steady' \in BOOLEAN
    BY <1>15, NetworkStep DEF Ready
  <2>2. QED
    BY <1>15, <2>1, NetworkStep, NetworkType
<1>16. CASE UNCHANGED vars
  BY <1>16 DEF vars, Ready, LetsIn, Goal
<1>17. QED
  BY <1>1, <1>2, <1>3, <1>4, <1>5, <1>6, <1>7, <1>8, <1>9, <1>10, <1>11, <1>12, <1>13,
     <1>14, <1>15, <1>16
  DEF Next, Program

\* The poll: a step of the program strikes off nobody who is ready, and a step of
\* the network ends the readiness if it takes it away.
LEMMA PollStep ==
  ASSUME Inv, [Next]_vars
  PROVE  PollInv'
<1> USE DEF Inv, TypeOK, PollInv, Waiting, Ready, LetsIn, Goal, optVars, timeVars, pollVars, netVars
<1>1. CASE BootEntry
  BY <1>1 DEF BootEntry
<1>2. CASE BootFails
  BY <1>2 DEF BootFails
<1>3. CASE ReleaseConsole
  BY <1>3 DEF Addrs, ReleaseConsole
<1>4. CASE Ping
  BY <1>4 DEF Pings, Addrs, Ping
<1>5. CASE NoPing
  BY <1>5 DEF Pings, NoPing
<1>6. CASE Ssh
  BY <1>6 DEF Ssh
<1>7. CASE SshRefused
  BY <1>7 DEF SshRefused
<1>8. CASE PingStatic
  BY <1>8 DEF Pings, PingStatic
<1>9. CASE SshStatic
  BY <1>9 DEF SshStatic
<1>10. CASE CheckTimeout
  BY <1>10 DEF CheckTimeout
<1>11. CASE Sleep
  BY <1>11 DEF Sleep
<1>12. CASE Retry
  BY <1>12 DEF Retry
<1>13. CASE SignalHandler
  BY <1>13 DEF SignalHandler
<1>14. CASE Clock
  BY <1>14 DEF Clock
<1>15. CASE Network
  BY <1>15, NetworkStep
<1>16. CASE UNCHANGED vars
  BY <1>16 DEF vars, Ready, LetsIn, Goal
<1>17. QED
  BY <1>1, <1>2, <1>3, <1>4, <1>5, <1>6, <1>7, <1>8, <1>9, <1>10, <1>11, <1>12, <1>13,
     <1>14, <1>15, <1>16
  DEF Next, Program

-----------------------------------------------------------------------------
\* Every reachable state has its types, and a poll is on its way to the static
\* address as long as that is ready.
THEOREM PollInvariant == Spec => [](TypeOK /\ PollInv)
<1>1. Inv /\ [Next]_vars => Inv'
  BY TypeStep, PollStep DEF Inv
<1>2. QED
  BY InitInv, <1>1, PTL DEF Spec, Inv

\* Every variable keeps its type: try_count stays within the number of tries, and
\* only addresses of the DHCP range or the static one are ever polled.
THEOREM TypeCorrect == Spec => []TypeOK
BY PollInvariant, PTL

\* Only the system of this run is reported as booted, or the run uses an old key.
THEOREM ReportsInstalled == Spec => []BootedIsInstalled
<1>1. TypeOK /\ PollInv => BootedIsInstalled
  BY DEF PollInv, BootedIsInstalled, LetsIn
<1>2. QED
  BY <1>1, PollInvariant, PTL

\* A DPU that is ready on its static address during a whole poll is found there.
THEOREM FindsStatic == Spec => []PollFindsStatic
<1>1. TypeOK /\ PollInv => PollFindsStatic
  BY DEF PollInv, PollFindsStatic
<1>2. QED
  BY <1>1, PollInvariant, PTL
=============================================================================
