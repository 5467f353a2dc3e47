-------------------------- MODULE HostSetupProofs --------------------------
(***************************************************************************)
(* What holds of the host, whatever number of runs follow each other.      *)
(***************************************************************************)
EXTENDS HostSetup, TLAPS

USE MaxRunsAssumption

Inv == HostTypeOK /\ HostInv

LEMMA InitInv == HostInit => Inv
<1> SUFFICES ASSUME HostInit PROVE Inv
  OBVIOUS
<1>1. HostTypeOK
  <2>1. IsoTypeOK
    BY DEF HostInit, IsoInit, IsoTypeOK, IsoKinds, Contents
  <2>2. run \in Runs /\ run # 0 /\ 0 \in Runs
    BY DEF HostInit, Runs
  <2>3. pc \in Points
    BY DEF HostInit, Points, IsoPoints
  <2>4. serves \in [Services -> Runs]
    BY <2>2 DEF HostInit
  <2>5. QED
    BY <2>1, <2>2, <2>3, <2>4 DEF HostInit, HostTypeOK, Handlers, Modes
<1>2. IsoInv
  BY DEF HostInit, IsoInit, IsoInv, CacheWhole, DownloadsOnce, MountedIsFile
<1>3. NetInv
  BY DEF HostInit, NetInv, IsoPoints
<1>4. ReadyInv /\ KeyInv /\ ServiceInv
  BY DEF HostInit, ReadyInv, KeyInv, ServiceInv, ServesOwn
<1>5. QED
  BY <1>1, <1>2, <1>3, <1>4 DEF Inv, HostInv

\* One step per action: what it assigns has its type.
LEMMA TypeStep ==
  ASSUME Inv, [Next]_vars
  PROVE  HostTypeOK'
<1> USE DEF Inv, HostTypeOK, IsoTypeOK, Runs, Points, IsoPoints, Modes,
        isoVars, argVars, diskVars, mountVars, hostVars, hostArgs, keyVars, netVars, serviceVars, endVars
<1>1. CASE UmountEfiboot /\ UNCHANGED hostVars
  BY <1>1 DEF UmountEfiboot
<1>2. CASE UrlUnknown /\ UNCHANGED hostVars
  BY <1>2 DEF UrlUnknown
<1>3. CASE UseCached /\ UNCHANGED hostVars
  BY <1>3 DEF UseCached
<1>4. CASE Curl /\ UNCHANGED hostVars
  <2>1. tmp' \in Contents /\ downloads' \in Nat
    BY <1>4 DEF Curl, Contents
  <2>2. QED
    BY <1>4, <2>1 DEF Curl
<1>5. CASE CurlDone /\ UNCHANGED hostVars
  BY <1>5 DEF Contents, CurlDone
<1>6. CASE CurlFails /\ UNCHANGED hostVars
  BY <1>6 DEF CurlFails
<1>7. CASE Mv /\ UNCHANGED hostVars
  BY <1>7 DEF Mv
<1>8. CASE UsePath /\ UNCHANGED hostVars
  BY <1>8 DEF UsePath
<1>9. CASE Mount /\ UNCHANGED hostVars
  BY <1>9 DEF Contents, Mount
<1>10. CASE Detect /\ UNCHANGED hostVars
  BY <1>10 DEF KindsFound, IsoKinds, Detect
<1>11. CASE DetectNothing /\ UNCHANGED hostVars
  BY <1>11 DEF DetectNothing
<1>12. CASE MountNested /\ UNCHANGED hostVars
  BY <1>12 DEF MountNested
<1>13. CASE NestedFails /\ UNCHANGED hostVars
  BY <1>13 DEF NestedFails
<1>14. CASE RetryIso /\ UNCHANGED hostVars
  <2>1. is_retry' \in BOOLEAN /\ pc' \in {"failed", "create"}
    BY <1>14 DEF RetryIso
  <2>2. QED
    BY <1>14, <2>1 DEF RetryIso
<1>15. CASE SkipIso
  BY <1>15 DEF IsoKinds, SkipIso
<1>16. CASE SetHostMode
  BY <1>16 DEF SetHostMode
<1>17. CASE GenerateKey
  BY <1>17 DEF GenerateKey
<1>18. CASE AddHostKey
  BY <1>18 DEF AddHostKey
<1>19. CASE NmcliSetup
  BY <1>19 DEF NmcliSetup
<1>20. CASE EphemeralAddress
  <2>1. addr' \in {addr, run} /\ pc' \in {"addr", "nat"}
    BY <1>20 DEF EphemeralAddress
  <2>2. global_cleanup' \subseteq Handlers
    BY <1>20 DEF EphemeralAddress, Handlers
  <2>3. QED
    BY <1>20, <2>1, <2>2 DEF EphemeralAddress
<1>21. CASE RegisterNat
  BY <1>21 DEF Handlers, RegisterNat
<1>22. CASE Masquerade
  BY <1>22 DEF Masquerade
<1>23. CASE \E s \in Services : StartService(s)
  BY <1>23 DEF StartService, NextPoint, Services
<1>24. CASE CheckServicesRunning
  BY <1>24 DEF CheckServicesRunning, Raise, Services
<1>25. CASE Install
  BY <1>25 DEF Install, Raise
<1>26. CASE PostPxeboot
  BY <1>26 DEF PostPxeboot
<1>27. CASE IsoFails
  BY <1>27 DEF IsoFails, Raise
<1>28. CASE \E h \in Handlers : Cleanup(h)
  BY <1>28 DEF Cleanup, Handler, Handlers
<1>29. CASE Exit
  BY <1>29 DEF Exit
<1>30. CASE KeygenFails
  BY <1>30 DEF KeygenFails, Raise
<1>31. CASE NmcliFails
  BY <1>31 DEF NmcliFails, Raise
<1>32. CASE ServiceSetupFails
  BY <1>32 DEF ServiceSetupFails, Raise
<1>33. CASE Interrupt
  BY <1>33 DEF Interrupt, Raise, Stopped
<1>34. CASE \E s \in Services : ServiceEnds(s)
  BY <1>34 DEF ServiceEnds, Services
<1>35. CASE Kill
  BY <1>35 DEF Kill
<1>36. CASE NextRun
  <2>1. run' \in Runs /\ run' # 0 /\ 0 \in Runs
    BY <1>36 DEF NextRun
  <2>2. addr' \in {addr, profile} /\ nat' \in {nat, 0} /\ tmp_key' \in {tmp_key, 0}
    BY <1>36 DEF NextRun
  <2>3. serves' \in [Services -> Runs]
    BY <1>36, <2>1 DEF NextRun
  <2>4. IsoTypeOK'
    <3>1. mnt' \in {mnt, "none"} /\ efi' \in BOOLEAN
      BY <1>36 DEF NextRun
    <3>2. file' \in Contents \cup {"none"} /\ tmp' \in Contents \cup {"none"}
      BY <1>36 DEF NextRun, OtherIso, IsoKinds, Contents
    <3>3. QED
      BY <1>36, <3>1, <3>2 DEF NextRun
  <2>5. pc' \in Points
    BY <1>36 DEF NextRun
  <2>6. global_cleanup' \subseteq Handlers /\ running' \subseteq Services
    BY <1>36 DEF NextRun, Handlers
  <2>7. QED
    BY <1>36, <2>1, <2>2, <2>3, <2>4, <2>5, <2>6 DEF NextRun
<1>37. CASE UNCHANGED vars
  BY <1>37 DEF vars
<1>38. CASE Prompt
  BY <1>38 DEF Prompt
<1>39. QED
  BY <1>1, <1>2, <1>3, <1>4, <1>5, <1>6, <1>7, <1>8, <1>9, <1>10, <1>11, <1>12, <1>13,
     <1>14, <1>15, <1>16, <1>17, <1>18, <1>19, <1>20, <1>21, <1>22, <1>23, <1>24, <1>25,
     <1>26, <1>27, <1>28, <1>29, <1>30, <1>31, <1>32, <1>33, <1>34, <1>35, <1>36, <1>37,
     <1>38
  DEF Next, Program, IsoNext, Failures

\* The file, its copy and the mount: only IsoCache's actions and the next run
\* touch them.
LEMMA IsoStep ==
  ASSUME Inv, [Next]_vars
  PROVE  IsoInv'
<1> USE DEF Inv, HostTypeOK, IsoTypeOK, HostInv, IsoInv, CacheWhole, DownloadsOnce, MountedIsFile,
        Points, IsoPoints, isoVars, argVars, diskVars, mountVars, hostVars
<1>1. CASE UmountEfiboot /\ UNCHANGED hostVars
  BY <1>1 DEF UmountEfiboot
<1>2. CASE UrlUnknown /\ UNCHANGED hostVars
  BY <1>2 DEF UrlUnknown
<1>3. CASE UseCached /\ UNCHANGED hostVars
  BY <1>3 DEF UseCached
<1>4. CASE Curl /\ UNCHANGED hostVars
  BY <1>4 DEF Curl
<1>5. CASE CurlDone /\ UNCHANGED hostVars
  BY <1>5 DEF Contents, CurlDone
<1>6. CASE CurlFails /\ UNCHANGED hostVars
  BY <1>6 DEF CurlFails
<1>7. CASE Mv /\ UNCHANGED hostVars
  BY <1>7 DEF Mv
<1>8. CASE UsePath /\ UNCHANGED hostVars
  BY <1>8 DEF UsePath
<1>9. CASE Mount /\ UNCHANGED hostVars
  BY <1>9 DEF Mount
<1>10. CASE Detect /\ UNCHANGED hostVars
  BY <1>10 DEF KindsFound, IsoKinds, Detect
<1>11. CASE DetectNothing /\ UNCHANGED hostVars
  BY <1>11 DEF DetectNothing
<1>12. CASE MountNested /\ UNCHANGED hostVars
  BY <1>12 DEF MountNested
<1>13. CASE NestedFails /\ UNCHANGED hostVars
  BY <1>13 DEF NestedFails
<1>14. CASE RetryIso /\ UNCHANGED hostVars
  BY <1>14 DEF RetryIso
<1>15. CASE SkipIso
  BY <1>15 DEF SkipIso
<1>16. CASE SetHostMode
  BY <1>16 DEF SetHostMode
<1>17. CASE GenerateKey
  BY <1>17 DEF GenerateKey
<1>18. CASE AddHostKey
  BY <1>18 DEF AddHostKey
<1>19. CASE NmcliSetup
  BY <1>19 DEF NmcliSetup
<1>20. CASE EphemeralAddress
  BY <1>20 DEF EphemeralAddress
<1>21. CASE RegisterNat
  BY <1>21 DEF RegisterNat
<1>22. CASE Masquerade
  BY <1>22 DEF Masquerade
<1>23. CASE \E s \in Services : StartService(s)
  BY <1>23 DEF StartService, NextPoint, Services
<1>24. CASE CheckServicesRunning
  BY <1>24 DEF CheckServicesRunning, Raise, Services
<1>25. CASE Install
  BY <1>25 DEF Install, Raise
<1>26. CASE PostPxeboot
  BY <1>26 DEF PostPxeboot
<1>27. CASE IsoFails
  BY <1>27 DEF IsoFails, Raise
<1>28. CASE \E h \in Handlers : Cleanup(h)
  BY <1>28 DEF Cleanup, Handler, Handlers
<1>29. CASE Exit
  BY <1>29 DEF Exit
<1>30. CASE KeygenFails
  BY <1>30 DEF KeygenFails, Raise
<1>31. CASE NmcliFails
  BY <1>31 DEF NmcliFails, Raise
<1>32. CASE ServiceSetupFails
  BY <1>32 DEF ServiceSetupFails, Raise
<1>33. CASE Interrupt
  BY <1>33 DEF Interrupt, Raise, Stopped
<1>34. CASE \E s \in Services : ServiceEnds(s)
  BY <1>34 DEF ServiceEnds, Services
<1>35. CASE Kill
  BY <1>35 DEF Kill
<1>36. CASE NextRun
  BY <1>36 DEF NextRun, OtherIso, IsoKinds
<1>37. CASE UNCHANGED vars
  BY <1>37 DEF vars
<1>38. CASE Prompt
  BY <1>38 DEF Prompt
<1>39. QED
  BY <1>1, <1>2, <1>3, <1>4, <1>5, <1>6, <1>7, <1>8, <1>9, <1>10, <1>11, <1>12, <1>13,
     <1>14, <1>15, <1>16, <1>17, <1>18, <1>19, <1>20, <1>21, <1>22, <1>23, <1>24, <1>25,
     <1>26, <1>27, <1>28, <1>29, <1>30, <1>31, <1>32, <1>33, <1>34, <1>35, <1>36, <1>37,
     <1>38
  DEF Next, Program, IsoNext, Failures

\* The cleanup list knows what this run has set up.
LEMMA NetStep ==
  ASSUME Inv, [Next]_vars
  PROVE  NetInv'
<1> USE DEF Inv, HostTypeOK, HostInv, NetInv, Runs, Points, IsoPoints, Modes,
        isoVars, hostVars, hostArgs, keyVars, netVars, serviceVars, endVars
<1>1. CASE UmountEfiboot /\ UNCHANGED hostVars
  BY <1>1 DEF UmountEfiboot
<1>2. CASE UrlUnknown /\ UNCHANGED hostVars
  BY <1>2 DEF UrlUnknown
<1>3. CASE UseCached /\ UNCHANGED hostVars
  BY <1>3 DEF UseCached
<1>4. CASE Curl /\ UNCHANGED hostVars
  BY <1>4 DEF Curl
<1>5. CASE CurlDone /\ UNCHANGED hostVars
  BY <1>5 DEF CurlDone
<1>6. CASE CurlFails /\ UNCHANGED hostVars
  BY <1>6 DEF CurlFails
<1>7. CASE Mv /\ UNCHANGED hostVars
  BY <1>7 DEF Mv
<1>8. CASE UsePath /\ UNCHANGED hostVars
  BY <1>8 DEF UsePath
<1>9. CASE Mount /\ UNCHANGED hostVars
  BY <1>9 DEF Mount
<1>10. CASE Detect /\ UNCHANGED hostVars
  BY <1>10 DEF Detect
<1>11. CASE DetectNothing /\ UNCHANGED hostVars
  BY <1>11 DEF DetectNothing
<1>12. CASE MountNested /\ UNCHANGED hostVars
  BY <1>12 DEF MountNested
<1>13. CASE NestedFails /\ UNCHANGED hostVars
  BY <1>13 DEF NestedFails
<1>14. CASE RetryIso /\ UNCHANGED hostVars
  BY <1>14 DEF RetryIso
<1>15. CASE SkipIso
  BY <1>15 DEF SkipIso
<1>16. CASE SetHostMode
  BY <1>16 DEF SetHostMode
<1>17. CASE GenerateKey
  BY <1>17 DEF GenerateKey
<1>18. CASE AddHostKey
  BY <1>18 DEF AddHostKey
<1>19. CASE NmcliSetup
  BY <1>19 DEF NmcliSetup
<1>20. CASE EphemeralAddress
  BY <1>20 DEF EphemeralAddress
<1>21. CASE RegisterNat
  BY <1>21 DEF RegisterNat
<1>22. CASE Masquerade
  BY <1>22 DEF Masquerade
<1>23. CASE \E s \in Services : StartService(s)
  BY <1>23 DEF StartService, NextPoint, Services
<1>24. CASE CheckServicesRunning
  BY <1>24 DEF CheckServicesRunning, Raise, Services
<1>25. CASE Install
  BY <1>25 DEF Install, Raise
<1>26. CASE PostPxeboot
  BY <1>26 DEF PostPxeboot
<1>27. CASE IsoFails
  BY <1>27 DEF IsoFails, Raise
<1>28. CASE \E h \in Handlers : Cleanup(h)
  BY <1>28 DEF Cleanup, Handler, Handlers
<1>29. CASE Exit
  BY <1>29 DEF Exit
<1>30. CASE KeygenFails
  BY <1>30 DEF KeygenFails, Raise
<1>31. CASE NmcliFails
  BY <1>31 DEF NmcliFails, Raise
<1>32. CASE ServiceSetupFails
  BY <1>32 DEF ServiceSetupFails, Raise
<1>33. CASE Interrupt
  BY <1>33 DEF Interrupt, Raise, Stopped
<1>34. CASE \E s \in Services : ServiceEnds(s)
  BY <1>34 DEF ServiceEnds, Services
<1>35. CASE Kill
  BY <1>35 DEF Kill
<1>36. CASE NextRun
  BY <1>36 DEF NextRun
<1>37. CASE UNCHANGED vars
  BY <1>37 DEF vars
<1>38. CASE Prompt
  BY <1>38 DEF Prompt
<1>39. QED
  BY <1>1, <1>2, <1>3, <1>4, <1>5, <1>6, <1>7, <1>8, <1>9, <1>10, <1>11, <1>12, <1>13,
     <1>14, <1>15, <1>16, <1>17, <1>18, <1>19, <1>20, <1>21, <1>22, <1>23, <1>24, <1>25,
     <1>26, <1>27, <1>28, <1>29, <1>30, <1>31, <1>32, <1>33, <1>34, <1>35, <1>36, <1>37,
     <1>38
  DEF Next, Program, IsoNext, Failures

\* What a run that is to persist has set up stays.
LEMMA ReadyStep ==
  ASSUME Inv, [Next]_vars
  PROVE  ReadyInv'
<1> USE DEF Inv, HostTypeOK, HostInv, NetInv, ReadyInv, Runs, Points, IsoPoints, Modes,
        isoVars, hostVars, hostArgs, keyVars, netVars, serviceVars, endVars
<1>1. CASE UmountEfiboot /\ UNCHANGED hostVars
  BY <1>1 DEF UmountEfiboot
<1>2. CASE UrlUnknown /\ UNCHANGED hostVars
  BY <1>2 DEF UrlUnknown
<1>3. CASE UseCached /\ UNCHANGED hostVars
  BY <1>3 DEF UseCached
<1>4. CASE Curl /\ UNCHANGED hostVars
  BY <1>4 DEF Curl
<1>5. CASE CurlDone /\ UNCHANGED hostVars
  BY <1>5 DEF CurlDone
<1>6. CASE CurlFails /\ UNCHANGED hostVars
  BY <1>6 DEF CurlFails
<1>7. CASE Mv /\ UNCHANGED hostVars
  BY <1>7 DEF Mv
<1>8. CASE UsePath /\ UNCHANGED hostVars
  BY <1>8 DEF UsePath
<1>9. CASE Mount /\ UNCHANGED hostVars
  BY <1>9 DEF Mount
<1>10. CASE Detect /\ UNCHANGED hostVars
  BY <1>10 DEF Detect
<1>11. CASE DetectNothing /\ UNCHANGED hostVars
  BY <1>11 DEF DetectNothing
<1>12. CASE MountNested /\ UNCHANGED hostVars
  BY <1>12 DEF MountNested
<1>13. CASE NestedFails /\ UNCHANGED hostVars
  BY <1>13 DEF NestedFails
<1>14. CASE RetryIso /\ UNCHANGED hostVars
  BY <1>14 DEF RetryIso
<1>15. CASE SkipIso
  BY <1>15 DEF SkipIso
<1>16. CASE SetHostMode
  BY <1>16 DEF SetHostMode
<1>17. CASE GenerateKey
  BY <1>17 DEF GenerateKey
<1>18. CASE AddHostKey
  BY <1>18 DEF AddHostKey
<1>19. CASE NmcliSetup
  BY <1>19 DEF NmcliSetup
<1>20. CASE EphemeralAddress
  BY <1>20 DEF EphemeralAddress
<1>21. CASE RegisterNat
  BY <1>21 DEF RegisterNat
<1>22. CASE Masquerade
  BY <1>22 DEF Masquerade
<1>23. CASE \E s \in Services : StartService(s)
  BY <1>23 DEF StartService, NextPoint, Services
<1>24. CASE CheckServicesRunning
  BY <1>24 DEF CheckServicesRunning, Raise, Services
<1>25. CASE Install
  BY <1>25 DEF Install, Raise
<1>26. CASE PostPxeboot
  BY <1>26 DEF PostPxeboot
<1>27. CASE IsoFails
  BY <1>27 DEF IsoFails, Raise
<1>28. CASE \E h \in Handlers : Cleanup(h)
  BY <1>28 DEF Cleanup, Handler, Handlers
<1>29. CASE Exit
  BY <1>29 DEF Exit
<1>30. CASE KeygenFails
  BY <1>30 DEF KeygenFails, Raise
<1>31. CASE NmcliFails
  BY <1>31 DEF NmcliFails, Raise
<1>32. CASE ServiceSetupFails
  BY <1>32 DEF ServiceSetupFails, Raise
<1>33. CASE Interrupt
  BY <1>33 DEF Interrupt, Raise, Stopped
<1>34. CASE \E s \in Services : ServiceEnds(s)
  BY <1>34 DEF ServiceEnds, Services
<1>35. CASE Kill
  BY <1>35 DEF Kill
<1>36. CASE NextRun
  BY <1>36 DEF NextRun
<1>37. CASE UNCHANGED vars
  BY <1>37 DEF vars
<1>38. CASE Prompt
  BY <1>38 DEF Prompt
<1>39. QED
  BY <1>1, <1>2, <1>3, <1>4, <1>5, <1>6, <1>7, <1>8, <1>9, <1>10, <1>11, <1>12, <1>13,
     <1>14, <1>15, <1>16, <1>17, <1>18, <1>19, <1>20, <1>21, <1>22, <1>23, <1>24, <1>25,
     <1>26, <1>27, <1>28, <1>29, <1>30, <1>31, <1>32, <1>33, <1>34, <1>35, <1>36, <1>37,
     <1>38
  DEF Next, Program, IsoNext, Failures

\* Who makes a key removes it, or the history knows.
LEMMA KeyStep ==
  ASSUME Inv, [Next]_vars
  PROVE  KeyInv'
<1> USE DEF Inv, HostTypeOK, HostInv, NetInv, KeyInv, Runs, Points, IsoPoints,
        isoVars, hostVars, hostArgs, keyVars, netVars, serviceVars, endVars
<1>1. CASE UmountEfiboot /\ UNCHANGED hostVars
  BY <1>1 DEF UmountEfiboot
<1>2. CASE UrlUnknown /\ UNCHANGED hostVars
  BY <1>2 DEF UrlUnknown
<1>3. CASE UseCached /\ UNCHANGED hostVars
  BY <1>3 DEF UseCached
<1>4. CASE Curl /\ UNCHANGED hostVars
  BY <1>4 DEF Curl
<1>5. CASE CurlDone /\ UNCHANGED hostVars
  BY <1>5 DEF CurlDone
<1>6. CASE CurlFails /\ UNCHANGED hostVars
  BY <1>6 DEF CurlFails
<1>7. CASE Mv /\ UNCHANGED hostVars
  BY <1>7 DEF Mv
<1>8. CASE UsePath /\ UNCHANGED hostVars
  BY <1>8 DEF UsePath
<1>9. CASE Mount /\ UNCHANGED hostVars
  BY <1>9 DEF Mount
<1>10. CASE Detect /\ UNCHANGED hostVars
  BY <1>10 DEF Detect
<1>11. CASE DetectNothing /\ UNCHANGED hostVars
  BY <1>11 DEF DetectNothing
<1>12. CASE MountNested /\ UNCHANGED hostVars
  BY <1>12 DEF MountNested
<1>13. CASE NestedFails /\ UNCHANGED hostVars
  BY <1>13 DEF NestedFails
<1>14. CASE RetryIso /\ UNCHANGED hostVars
  BY <1>14 DEF RetryIso
<1>15. CASE SkipIso
  BY <1>15 DEF SkipIso
<1>16. CASE SetHostMode
  BY <1>16 DEF SetHostMode
<1>17. CASE GenerateKey
  BY <1>17 DEF GenerateKey
<1>18. CASE AddHostKey
  BY <1>18 DEF AddHostKey
<1>19. CASE NmcliSetup
  BY <1>19 DEF NmcliSetup
<1>20. CASE EphemeralAddress
  BY <1>20 DEF EphemeralAddress
<1>21. CASE RegisterNat
  BY <1>21 DEF RegisterNat
<1>22. CASE Masquerade
  BY <1>22 DEF Masquerade
<1>23. CASE \E s \in Services : StartService(s)
  BY <1>23 DEF StartService, NextPoint, Services
<1>24. CASE CheckServicesRunning
  BY <1>24 DEF CheckServicesRunning, Raise, Services
<1>25. CASE Install
  BY <1>25 DEF Install, Raise
<1>26. CASE PostPxeboot
  BY <1>26 DEF PostPxeboot
<1>27. CASE IsoFails
  BY <1>27 DEF IsoFails, Raise
<1>28. CASE \E h \in Handlers : Cleanup(h)
  BY <1>28 DEF Cleanup, Handler, Handlers
<1>29. CASE Exit
  BY <1>29 DEF Exit
<1>30. CASE KeygenFails
  BY <1>30 DEF KeygenFails, Raise
<1>31. CASE NmcliFails
  BY <1>31 DEF NmcliFails, Raise
<1>32. CASE ServiceSetupFails
  BY <1>32 DEF ServiceSetupFails, Raise
<1>33. CASE Interrupt
  BY <1>33 DEF Interrupt, Raise, Stopped
<1>34. CASE \E s \in Services : ServiceEnds(s)
  BY <1>34 DEF ServiceEnds, Services
<1>35. CASE Kill
  BY <1>35 DEF Kill
<1>36. CASE NextRun
  <2>1. unclean' = unclean /\ tmp_key' \in {tmp_key, 0} /\ ssh_privkey_file' = 0
    BY <1>36 DEF NextRun
  <2>2. unclean \/ tmp_key = 0
    BY <1>36 DEF NextRun, Stopped
  <2>3. pc' # "killed"
    BY <1>36 DEF NextRun
  <2>4. QED
    BY <2>1, <2>2, <2>3
<1>37. CASE UNCHANGED vars
  BY <1>37 DEF vars
<1>38. CASE Prompt
  BY <1>38 DEF Prompt
<1>39. QED
  BY <1>1, <1>2, <1>3, <1>4, <1>5, <1>6, <1>7, <1>8, <1>9, <1>10, <1>11, <1>12, <1>13,
     <1>14, <1>15, <1>16, <1>17, <1>18, <1>19, <1>20, <1>21, <1>22, <1>23, <1>24, <1>25,
     <1>26, <1>27, <1>28, <1>29, <1>30, <1>31, <1>32, <1>33, <1>34, <1>35, <1>36, <1>37,
     <1>38
  DEF Next, Program, IsoNext, Failures

\* A service that runs has its port.
LEMMA ServiceStep ==
  ASSUME Inv, [Next]_vars
  PROVE  ServiceInv'
<1> USE DEF Inv, HostTypeOK, HostInv, NetInv, ServiceInv, ServesOwn, Runs, Points, IsoPoints,
        isoVars, hostVars, hostArgs, keyVars, netVars, serviceVars, endVars
<1>1. CASE UmountEfiboot /\ UNCHANGED hostVars
  BY <1>1 DEF UmountEfiboot
<1>2. CASE UrlUnknown /\ UNCHANGED hostVars
  BY <1>2 DEF UrlUnknown
<1>3. CASE UseCached /\ UNCHANGED hostVars
  BY <1>3 DEF UseCached
<1>4. CASE Curl /\ UNCHANGED hostVars
  BY <1>4 DEF Curl
<1>5. CASE CurlDone /\ UNCHANGED hostVars
  BY <1>5 DEF CurlDone
<1>6. CASE CurlFails /\ UNCHANGED hostVars
  BY <1>6 DEF CurlFails
<1>7. CASE Mv /\ UNCHANGED hostVars
  BY <1>7 DEF Mv
<1>8. CASE UsePath /\ UNCHANGED hostVars
  BY <1>8 DEF UsePath
<1>9. CASE Mount /\ UNCHANGED hostVars
  BY <1>9 DEF Mount
<1>10. CASE Detect /\ UNCHANGED hostVars
  BY <1>10 DEF Detect
<1>11. CASE DetectNothing /\ UNCHANGED hostVars
  BY <1>11 DEF DetectNothing
<1>12. CASE MountNested /\ UNCHANGED hostVars
  BY <1>12 DEF MountNested
<1>13. CASE NestedFails /\ UNCHANGED hostVars
  BY <1>13 DEF NestedFails
<1>14. CASE RetryIso /\ UNCHANGED hostVars
  BY <1>14 DEF RetryIso
<1>15. CASE SkipIso
  BY <1>15 DEF SkipIso
<1>16. CASE SetHostMode
  BY <1>16 DEF SetHostMode
<1>17. CASE GenerateKey
  BY <1>17 DEF GenerateKey
<1>18. CASE AddHostKey
  BY <1>18 DEF AddHostKey
<1>19. CASE NmcliSetup
  BY <1>19 DEF NmcliSetup
<1>20. CASE EphemeralAddress
  BY <1>20 DEF EphemeralAddress
<1>21. CASE RegisterNat
  BY <1>21 DEF RegisterNat
<1>22. CASE Masquerade
  BY <1>22 DEF Masquerade
<1>23. CASE \E s \in Services : StartService(s)
  <2> SUFFICES ASSUME NEW s \in Services, StartService(s) PROVE ServiceInv'
    BY <1>23
  <2>1. pc' \in {"tftp", "httpd", "settle"}
    BY DEF StartService, NextPoint, Services
  <2>2. \A t \in running' : serves'[t] = run'
    <3>1. PICK free \in BOOLEAN :
            /\ free => serves'[s] = run /\ running' = running \cup {s}
            /\ ~free => running' = running
            /\ run' = run
            /\ serves' = [serves EXCEPT ![s] = serves'[s]]
      BY DEF StartService
    <3>2. s \notin running
      BY DEF StartService, Services
    <3>3. QED
      BY <3>1, <3>2
  <2>3. pc' = "tftp" => running' \subseteq {"dhcpd"}
    BY DEF StartService, NextPoint, Services
  <2>4. pc' = "httpd" => running' \subseteq {"dhcpd", "tftp"}
    BY DEF StartService, NextPoint, Services
  <2>5. QED
    BY <2>1, <2>2, <2>3, <2>4
<1>24. CASE CheckServicesRunning
  BY <1>24 DEF CheckServicesRunning, Raise, Services
<1>25. CASE Install
  BY <1>25 DEF Install, Raise
<1>26. CASE PostPxeboot
  BY <1>26 DEF PostPxeboot
<1>27. CASE IsoFails
  BY <1>27 DEF IsoFails, Raise
<1>28. CASE \E h \in Handlers : Cleanup(h)
  BY <1>28 DEF Cleanup, Handler, Handlers
<1>29. CASE Exit
  BY <1>29 DEF Exit
<1>30. CASE KeygenFails
  BY <1>30 DEF KeygenFails, Raise
<1>31. CASE NmcliFails
  BY <1>31 DEF NmcliFails, Raise
<1>32. CASE ServiceSetupFails
  BY <1>32 DEF ServiceSetupFails, Raise
<1>33. CASE Interrupt
  BY <1>33 DEF Interrupt, Raise, Stopped
<1>34. CASE \E s \in Services : ServiceEnds(s)
  BY <1>34 DEF ServiceEnds, Services
<1>35. CASE Kill
  BY <1>35 DEF Kill
<1>36. CASE NextRun
  BY <1>36 DEF NextRun
<1>37. CASE UNCHANGED vars
  BY <1>37 DEF vars
<1>38. CASE Prompt
  BY <1>38 DEF Prompt
<1>39. QED
  BY <1>1, <1>2, <1>3, <1>4, <1>5, <1>6, <1>7, <1>8, <1>9, <1>10, <1>11, <1>12, <1>13,
     <1>14, <1>15, <1>16, <1>17, <1>18, <1>19, <1>20, <1>21, <1>22, <1>23, <1>24, <1>25,
     <1>26, <1>27, <1>28, <1>29, <1>30, <1>31, <1>32, <1>33, <1>34, <1>35, <1>36, <1>37,
     <1>38
  DEF Next, Program, IsoNext, Failures

-----------------------------------------------------------------------------
\* Every reachable state has its types and the invariant.
THEOREM HostInvariant == Spec => [](HostTypeOK /\ HostInv)
<1>1. HostInit => Inv
  BY InitInv
<1>2. Inv /\ [Next]_vars => Inv'
  BY TypeStep, IsoStep, NetStep, ReadyStep, KeyStep, ServiceStep DEF Inv, HostInv
<1>3. QED
  BY <1>1, <1>2, PTL DEF Spec, Inv

\* Every variable keeps its type, whatever a run is killed in.
THEOREM HostTypes == Spec => []HostTypeOK
BY HostInvariant, PTL

\* However often runs are killed, no partial download is taken for an ISO ...
THEOREM IsoIsWhole == Spec => []CacheWhole
<1>1. HostTypeOK /\ HostInv => CacheWhole
  BY DEF HostInv, IsoInv
<1>2. QED
  BY <1>1, HostInvariant, PTL

\* ... a run downloads its ISO once at most, though a broken one is tried again ...
THEOREM IsoDownloadedOnce == Spec => []DownloadsOnce
<1>1. HostTypeOK /\ HostInv => DownloadsOnce
  BY DEF HostInv, IsoInv
<1>2. QED
  BY <1>1, HostInvariant, PTL

\* ... and what it mounts is the file on disk, with the second mount exactly for
\* the kind of ISO that has an image within.
THEOREM IsoMountedIsFile == Spec => []MountedIsFile
<1>1. HostTypeOK /\ HostInv => MountedIsFile
  BY DEF HostInv, IsoInv
<1>2. QED
  BY <1>1, HostInvariant, PTL

\* An ephemeral run that ends has taken back its address and its NAT, however it
\* ended.
THEOREM EphemeralUndone == Spec => []EphemeralLeavesNothing
<1>1. HostTypeOK /\ HostInv => EphemeralLeavesNothing
  BY DEF HostInv, NetInv, EphemeralLeavesNothing
<1>2. QED
  BY <1>1, HostInvariant, PTL

\* A successful run that is to persist leaves address, profile, NAT and name.
THEOREM PersistIsReady == Spec => []PersistReady
<1>1. HostTypeOK /\ HostInv => PersistReady
  BY DEF HostInv, ReadyInv, PersistReady
<1>2. QED
  BY <1>1, HostInvariant, PTL

\* The key of an earlier run is used only after one that was killed or failed
\* between the keys.
THEOREM KeyIsOwn == Spec => []KeyOfThisRun
<1>1. HostTypeOK /\ HostInv => KeyOfThisRun
  BY DEF HostInv, KeyInv, KeyOfThisRun
<1>2. QED
  BY <1>1, HostInvariant, PTL

\* No service of an earlier run answers a DPU that is being installed.
THEOREM ServicesAreOwn == Spec => []ServesOwn
<1>1. HostTypeOK /\ HostInv => ServesOwn
  BY DEF HostInv, ServiceInv
<1>2. QED
  BY <1>1, HostInvariant, PTL
=============================================================================
