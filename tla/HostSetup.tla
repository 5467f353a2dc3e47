----------------------------- MODULE HostSetup -----------------------------
(***************************************************************************)
(* main() of pxeboot.py as far as it changes the host: the ISO (IsoCache),  *)
(* the ssh keys, the address and the NAT of the interface to the DPU, the   *)
(* three services, and the cleanup list.  Runs follow each other, with      *)
(* whatever options; a run may fail, be interrupted or killed at any point, *)
(* and the host may be rebooted before the next one.                       *)
(***************************************************************************)
EXTENDS IsoCache

CONSTANT MaxRuns
ASSUME MaxRunsAssumption == MaxRuns \in Nat \ {0}

Services == {"dhcpd", "tftp", "httpd"}
Modes == {"persist", "ephemeral"}   \* "rhel" and "coreos" are both "persist"
Handlers == {"threads", "key", "addr", "nat"}

VARIABLES
  run,               \* the number of the run; 0 stands for no run
  host_setup_only, cfg_host_mode,
  host_mode,         \* "none" until it is set
  ssh_privkey_file,  \* the run that made the key this run uses
  tmp_key,           \* the run that made /tmp/marvell-tools/id_ed25519
  addr, nat,         \* the run that gave the interface its address, its NAT
  profile, hosts,    \* the run that wrote the profile, the entry in /etc/hosts
  serves,            \* the run whose process has the port of a service
  running,           \* the services of this run that did not end
  global_cleanup,    \* the cleanup list
  result,            \* "success" or "failure" once it is known
  unclean            \* history: a run was killed, or failed between the keys

hostArgs == <<host_setup_only, cfg_host_mode>>
keyVars == <<ssh_privkey_file, tmp_key>>
netVars == <<addr, nat, profile, hosts>>
serviceVars == <<serves, running>>
endVars == <<global_cleanup, result, unclean>>
hostVars == <<run, hostArgs, host_mode, keyVars, netVars, serviceVars, endVars>>
vars == <<isoVars, pc, hostVars>>

Points == IsoPoints \cup
  {"mounted", "failed", "skip", "skipped", "keys", "hostkey", "prepare", "addr", "nat",
   "masquerade", "dhcpd", "tftp", "httpd", "settle", "prompt", "install",
   "post", "cleanup", "end", "killed"}
Stopped == {"end", "killed"}

Runs == 0..MaxRuns

HostTypeOK ==
  /\ IsoTypeOK
  /\ pc \in Points
  /\ {run, ssh_privkey_file, tmp_key, addr, nat, profile, hosts} \subseteq Runs
  /\ run # 0
  /\ host_setup_only \in BOOLEAN
  /\ cfg_host_mode \in Modes \cup {"auto"}
  /\ host_mode \in Modes \cup {"none"}
  /\ serves \in [Services -> Runs]
  /\ running \subseteq Services
  /\ global_cleanup \subseteq Handlers
  /\ result \in {"none", "success", "failure"}
  /\ unclean \in BOOLEAN

HostInit ==
  /\ IsoInit
  /\ run = 1
  /\ host_setup_only \in BOOLEAN
  /\ cfg_host_mode \in Modes \cup {"auto"}
  /\ pc = IF host_setup_only THEN "skip" ELSE "iso"
  /\ host_mode = "none"
  /\ ssh_privkey_file = 0 /\ tmp_key = 0
  /\ addr = 0 /\ nat = 0 /\ profile = 0 /\ hosts = 0
  /\ serves = [s \in Services |-> 0] /\ running = {}
  /\ global_cleanup = {"threads", "key"}
  /\ result = "none" /\ unclean = FALSE

-----------------------------------------------------------------------------
(* main() after the ISO; an exception runs the cleanup list *)

Raise ==
  /\ pc' = "cleanup"
  /\ result' = "failure"

\* -H neither mounts an ISO nor looks at one.
SkipIso ==
  /\ pc = "skip"
  /\ iso_kind' = IF cfg_iso_kind = "auto" THEN "rhel" ELSE cfg_iso_kind
  /\ pc' = "skipped"
  /\ UNCHANGED <<argVars, is_retry, cached_http_file, diskVars, mountVars, downloads, hostVars>>

SetHostMode ==
  /\ pc \in {"mounted", "skipped"}
  /\ host_mode' = CASE cfg_host_mode # "auto" -> cfg_host_mode
                    [] iso_kind = "rhcos" -> "ephemeral"
                    [] OTHER -> "persist"
  /\ pc' = "keys"
  /\ UNCHANGED <<isoVars, run, hostArgs, keyVars, netVars, serviceVars, endVars>>

\* A key that is there is used, whoever made it.
GenerateKey ==
  /\ pc = "keys"
  /\ tmp_key' = IF tmp_key = 0 THEN run ELSE tmp_key
  /\ pc' = "hostkey"
  /\ UNCHANGED <<isoVars, run, hostArgs, host_mode, ssh_privkey_file, netVars, serviceVars, endVars>>

\* The host's own key is there or generated; then the context learns both.
AddHostKey ==
  /\ pc = "hostkey"
  /\ ssh_privkey_file' = tmp_key
  /\ pc' = "prepare"
  /\ UNCHANGED <<isoVars, run, hostArgs, host_mode, tmp_key, netVars, serviceVars, endVars>>

\* ssh-keygen fails.  The cleanup does not know of a key that was made before.
KeygenFails ==
  /\ pc \in {"keys", "hostkey"}
  /\ Raise
  /\ unclean' = (unclean \/ pc = "hostkey")
  /\ UNCHANGED <<isoVars, run, hostArgs, host_mode, keyVars, netVars, serviceVars, global_cleanup>>

NmcliSetup ==
  /\ pc = "prepare" /\ host_mode = "persist"
  /\ profile' = run /\ addr' = run
  /\ pc' = "masquerade"
  /\ UNCHANGED <<isoVars, run, hostArgs, host_mode, keyVars, nat, hosts, serviceVars, endVars>>

\* nmcli dies before or after it has written the profile.
NmcliFails ==
  /\ pc = "prepare" /\ host_mode = "persist"
  /\ profile' \in {profile, run}
  /\ Raise
  /\ UNCHANGED <<isoVars, run, hostArgs, host_mode, keyVars, addr, nat, hosts, serviceVars,
                 global_cleanup, unclean>>

\* Mutant: what is to be undone is noted after it is done.
EphemeralAddressLate ==
  /\ host_mode = "ephemeral"
  /\ \/ /\ pc = "prepare"
        /\ addr' \in {addr, IF addr = 0 THEN run ELSE addr}
        /\ pc' = "addr"
        /\ UNCHANGED global_cleanup
     \/ /\ pc = "addr"
        /\ global_cleanup' = global_cleanup \cup {"addr"}
        /\ pc' = "nat"
        /\ UNCHANGED addr
  /\ UNCHANGED <<isoVars, run, hostArgs, host_mode, keyVars, nat, profile, hosts, serviceVars,
                 result, unclean>>

\* Nobody looks at the result of "ip addr add".
EphemeralAddress ==
  /\ host_mode = "ephemeral"
  /\ \/ /\ pc = "prepare"
        /\ global_cleanup' = global_cleanup \cup {"addr"}
        /\ pc' = "addr"
        /\ UNCHANGED addr
     \/ /\ pc = "addr"
        /\ addr' \in {addr, IF addr = 0 THEN run ELSE addr}
        /\ pc' = "nat"
        /\ UNCHANGED global_cleanup
  /\ UNCHANGED <<isoVars, run, hostArgs, host_mode, keyVars, nat, profile, hosts, serviceVars,
                 result, unclean>>

RegisterNat ==
  /\ pc = "nat"
  /\ global_cleanup' = global_cleanup \cup {"nat"}
  /\ pc' = "masquerade"
  /\ UNCHANGED <<isoVars, run, hostArgs, host_mode, keyVars, netVars, serviceVars, result, unclean>>

\* nft replaces the table, or fails and changes nothing.
Masquerade ==
  /\ pc = "masquerade"
  /\ nat' = run
  /\ pc' = IF host_setup_only THEN "post" ELSE "dhcpd"
  /\ UNCHANGED <<isoVars, run, hostArgs, host_mode, keyVars, addr, profile, hosts, serviceVars, endVars>>

-----------------------------------------------------------------------------
(* The services *)

NextPoint(s) == CASE s = "dhcpd" -> "tftp" [] s = "tftp" -> "httpd" [] s = "httpd" -> "settle"

\* killall is not waited for: of an old dhcpd or in.tftpd the port may be free
\* when the new one binds, or later.  An old http server is not killed.  Who
\* cannot bind ends.
StartService(s) ==
  /\ pc = s
  /\ \E free \in BOOLEAN :
       /\ serves[s] = 0 => free
       /\ serves[s] # 0 /\ s = "httpd" => ~free
       /\ serves' = [serves EXCEPT ![s] = IF free THEN run ELSE IF s = "httpd" THEN @ ELSE 0]
       /\ running' = IF free THEN running \cup {s} ELSE running
  /\ pc' = NextPoint(s)
  /\ UNCHANGED <<isoVars, run, hostArgs, host_mode, keyVars, netVars, endVars>>

\* Copying the boot files, or filling in the templates.
ServiceSetupFails ==
  /\ pc \in {"masquerade", "dhcpd", "tftp", "httpd"}
  /\ Raise
  /\ UNCHANGED <<isoVars, run, hostArgs, host_mode, keyVars, netVars, serviceVars,
                 global_cleanup, unclean>>

\* Mutant: only the services that serve files are looked at.
CheckTftpRunning ==
  /\ pc = "settle"
  /\ IF "tftp" \in running
     THEN pc' \in {"prompt", "install"} /\ UNCHANGED result
     ELSE Raise
  /\ UNCHANGED <<isoVars, run, hostArgs, host_mode, keyVars, netVars, serviceVars,
                 global_cleanup, unclean>>

\* Three seconds are enough to bind or to end.  With --prompt the user is asked next.
CheckServicesRunning ==
  /\ pc = "settle"
  /\ IF Services \subseteq running
     THEN pc' \in {"prompt", "install"} /\ UNCHANGED result
     ELSE Raise
  /\ UNCHANGED <<isoVars, run, hostArgs, host_mode, keyVars, netVars, serviceVars,
                 global_cleanup, unclean>>

ServiceEnds(s) ==
  /\ pc \notin Stopped
  /\ s \in running
  /\ running' = running \ {s}
  /\ serves' = [serves EXCEPT ![s] = 0]
  /\ UNCHANGED <<isoVars, pc, run, hostArgs, host_mode, keyVars, netVars, endVars>>

-----------------------------------------------------------------------------
(* The installation, which Pxeboot models, and the end of the run *)

\* The user presses ENTER; ^C is an Interrupt here as everywhere.
Prompt ==
  /\ pc = "prompt" /\ pc' = "install"
  /\ UNCHANGED <<isoVars, hostVars>>

Install ==
  /\ pc = "install"
  /\ \/ pc' = "post" /\ UNCHANGED result
     \/ Raise
  /\ UNCHANGED <<isoVars, run, hostArgs, host_mode, keyVars, netVars, serviceVars,
                 global_cleanup, unclean>>

PostPxeboot ==
  /\ pc = "post"
  /\ hosts' = IF host_mode = "persist" THEN run ELSE hosts
  /\ result' = "success"
  /\ pc' = "cleanup"
  /\ UNCHANGED <<isoVars, run, hostArgs, host_mode, keyVars, addr, nat, profile, serviceVars,
                 global_cleanup, unclean>>

IsoFails ==
  /\ pc = "failed"
  /\ Raise
  /\ UNCHANGED <<isoVars, run, hostArgs, host_mode, keyVars, netVars, serviceVars,
                 global_cleanup, unclean>>

\* ^C.  Between the two keys it leaves the first one behind.
Interrupt ==
  /\ pc \in Points \ (Stopped \cup {"cleanup"})
  /\ Raise
  /\ unclean' = (unclean \/ pc = "hostkey")
  /\ UNCHANGED <<isoVars, run, hostArgs, host_mode, keyVars, netVars, serviceVars, global_cleanup>>

\* Mutant: the key is kept if the run failed.
HandlerKeyOnSuccess(h) ==
  /\ tmp_key' = IF h = "key" /\ ssh_privkey_file # 0 /\ result = "success" THEN 0 ELSE tmp_key
  /\ addr' = IF h = "addr" THEN 0 ELSE addr
  /\ nat' = IF h = "nat" THEN 0 ELSE nat
  /\ running' = IF h = "threads" THEN {} ELSE running
  /\ serves' = [s \in Services |-> IF h = "threads" /\ s \in running THEN 0 ELSE serves[s]]

\* Mutant: the rules of the NAT are taken back with the services.
HandlerThreadsAndNat(h) ==
  /\ tmp_key' = IF h = "key" /\ ssh_privkey_file # 0 THEN 0 ELSE tmp_key
  /\ addr' = IF h = "addr" THEN 0 ELSE addr
  /\ nat' = IF h \in {"nat", "threads"} THEN 0 ELSE nat
  /\ running' = IF h = "threads" THEN {} ELSE running
  /\ serves' = [s \in Services |-> IF h = "threads" /\ s \in running THEN 0 ELSE serves[s]]

\* What a handler does.  The address and the NAT go whoever set them up.
Handler(h) ==
  /\ tmp_key' = IF h = "key" /\ ssh_privkey_file # 0 THEN 0 ELSE tmp_key
  /\ addr' = IF h = "addr" THEN 0 ELSE addr
  /\ nat' = IF h = "nat" THEN 0 ELSE nat
  /\ running' = IF h = "threads" THEN {} ELSE running
  /\ serves' = [s \in Services |-> IF h = "threads" /\ s \in running THEN 0 ELSE serves[s]]

\* Mutant: the services are waited for, and not told to end.
CleanupJoins(h) ==
  /\ pc = "cleanup"
  /\ h \in global_cleanup
  /\ h = "threads" => running = {}
  /\ Handler(h)
  /\ global_cleanup' = global_cleanup \ {h}
  /\ UNCHANGED <<isoVars, pc, run, hostArgs, host_mode, ssh_privkey_file, profile, hosts, result, unclean>>

\* The order of the list is left open.
Cleanup(h) ==
  /\ pc = "cleanup"
  /\ h \in global_cleanup
  /\ Handler(h)
  /\ global_cleanup' = global_cleanup \ {h}
  /\ UNCHANGED <<isoVars, pc, run, hostArgs, host_mode, ssh_privkey_file, profile, hosts, result, unclean>>

Exit ==
  /\ pc = "cleanup" /\ global_cleanup = {}
  /\ pc' = "end"
  /\ UNCHANGED <<isoVars, hostVars>>

Program ==
  \/ IsoNext /\ UNCHANGED hostVars
  \/ SkipIso \/ SetHostMode \/ GenerateKey \/ AddHostKey
  \/ NmcliSetup \/ EphemeralAddress \/ RegisterNat \/ Masquerade
  \/ \E s \in Services : StartService(s)
  \/ CheckServicesRunning \/ Install \/ PostPxeboot
  \/ IsoFails
  \/ \E h \in Handlers : Cleanup(h)
  \/ Exit

Failures ==
  \/ KeygenFails \/ NmcliFails \/ ServiceSetupFails \/ Interrupt
  \/ \E s \in Services : ServiceEnds(s)

-----------------------------------------------------------------------------
(* Between the runs *)

\* SIGKILL, also by a second "podman run --replace": no cleanup.
Kill ==
  /\ pc \notin Stopped
  /\ pc' = "killed"
  /\ unclean' = TRUE
  /\ UNCHANGED <<isoVars, run, hostArgs, host_mode, keyVars, netVars, serviceVars, global_cleanup, result>>

\* Another ISO.  The bound: it comes from where the first one came from, is on disk
\* already, and is a good one of either kind.
OtherIso == file' \in IsoKinds /\ tmp' = "none"

\* In the same container, in a new one, or after a reboot.  The profile gives the
\* interface its address back.
NextRun ==
  /\ pc \in Stopped
  /\ run < MaxRuns
  /\ run' = run + 1
  /\ host_setup_only' \in BOOLEAN
  /\ cfg_host_mode' \in Modes \cup {"auto"}
  /\ pc' = IF host_setup_only' THEN "skip" ELSE "iso"
  /\ is_retry' = FALSE /\ cached_http_file' = FALSE /\ iso_kind' = "none" /\ downloads' = 0
  /\ host_mode' = "none" /\ ssh_privkey_file' = 0
  /\ global_cleanup' = {"threads", "key"} /\ result' = "none"
  /\ running' = {}
  /\ \E container \in {"same", "new", "rebooted"} :
       /\ mnt' = IF container = "same" THEN mnt ELSE "none"
       /\ efi' = (container = "same" /\ efi)
       /\ tmp_key' = IF container = "same" THEN tmp_key ELSE 0
       /\ serves' = [s \in Services |-> IF container = "same" THEN serves[s] ELSE 0]
       /\ addr' = IF container = "rebooted" THEN profile ELSE addr
       /\ nat' = IF container = "rebooted" THEN 0 ELSE nat
  /\ UNCHANGED diskVars \/ OtherIso
  /\ UNCHANGED <<argVars, profile, hosts, unclean>>

\* The program is fair: all that it waits for ends, but for the user's answer.
Next == Program \/ Prompt \/ Failures \/ Kill \/ NextRun

Spec == HostInit /\ [][Next]_vars /\ WF_vars(Program)

-----------------------------------------------------------------------------
\* Wherever an ephemeral run fails or is interrupted, its address and its NAT
\* are gone when it has ended; only a killed one leaves them.
EphemeralLeavesNothing ==
  pc = "end" /\ host_mode = "ephemeral" => addr # run /\ nat # run

\* After a successful run that is to persist, whatever earlier runs left, the
\* DPU's name, the address, its profile and the NAT are there.
PersistReady ==
  pc = "end" /\ result = "success" /\ host_mode = "persist" =>
    0 \notin {addr, nat, profile, hosts}

\* A DPU that accepts the key of this run was installed by this run, as long as
\* no run was killed or failed between its two keys: only then is a key found.
KeyOfThisRun ==
  ssh_privkey_file \in {0, run} \/ unclean

\* While the DPU is installed no service of an earlier run answers it.
ServesOwn ==
  pc \in {"prompt", "install"} => \A s \in Services : serves[s] \in {0, run}

\* Every run ends, and its services with it, unless it is killed, or waits for the
\* user, who need not answer.
RunEnds == pc # "end" ~> pc \in {"killed", "prompt"} \/ (pc = "end" /\ running = {})

(* Why these hold *)

\* A file that is moved into place is whole; what is mounted is the file on disk;
\* a file that was found on disk was not downloaded.
IsoInv ==
  /\ CacheWhole /\ DownloadsOnce /\ MountedIsFile
  /\ pc = "mv" => tmp # "partial"
  /\ pc \in {"iso", "create"} \/ cached_http_file => downloads = 0
  /\ pc \in {"detect", "nested"} => mnt = file
  /\ pc = "nested" => iso_kind = "rhcos"
  /\ pc \in {"create", "curl", "mv", "mount", "detect", "nested", "broken"} => ~efi

\* What is to be undone is on the cleanup list before it is done, and what is to
\* stay never is.
NetInv ==
  /\ {addr, nat, profile, hosts, tmp_key} \subseteq 0..run
  /\ pc \in IsoPoints \cup {"mounted", "skip", "skipped"} => host_mode = "none"
  /\ pc \in {"addr", "nat"} => host_mode = "ephemeral"
  /\ pc = "addr" => "addr" \in global_cleanup
  /\ pc = "masquerade" => host_mode = "persist" \/ "nat" \in global_cleanup
  /\ host_mode # "ephemeral" => global_cleanup \subseteq {"threads", "key"}
  /\ host_mode # "persist" /\ addr = run => "addr" \in global_cleanup
  /\ host_mode # "persist" /\ nat = run => "nat" \in global_cleanup
  /\ pc \notin {"cleanup", "end", "killed"} => {"threads", "key"} \subseteq global_cleanup
  /\ pc = "end" => global_cleanup = {}

\* A run that is to persist has its host ready from one step to the next.
ReadyInv ==
  /\ result = "success" => pc \in {"cleanup", "end", "killed"}
  /\ host_mode = "persist" =>
       /\ pc = "masquerade" => 0 \notin {addr, profile}
       /\ pc \in {"dhcpd", "tftp", "httpd", "settle", "prompt", "install", "post"} =>
            0 \notin {addr, profile, nat}
       /\ result = "success" => 0 \notin {addr, profile, nat, hosts}

\* A key that nobody will remove is never unnoticed.
KeyInv ==
  unclean \/ /\ pc # "killed"
             /\ {tmp_key, ssh_privkey_file} \subseteq {0, run}
             /\ tmp_key = 0 \/ pc = "hostkey" \/ (ssh_privkey_file # 0 /\ "key" \in global_cleanup)

ServiceInv ==
  /\ \A s \in running : serves[s] = run
  /\ pc \notin {"tftp", "httpd", "settle", "prompt", "install", "post", "cleanup", "killed"} =>
       running = {}
  /\ pc = "tftp" => running \subseteq {"dhcpd"}
  /\ pc = "httpd" => running \subseteq {"dhcpd", "tftp"}
  /\ pc = "cleanup" /\ "threads" \notin global_cleanup => running = {}
  /\ ServesOwn

HostInv == IsoInv /\ NetInv /\ ReadyInv /\ KeyInv /\ ServiceInv

\* -H recreates the configuration that a reboot loses.
SetupOnlyRecreates ==
  pc = "end" /\ host_setup_only /\ result = "success" => addr # 0 /\ nat # 0
=============================================================================
