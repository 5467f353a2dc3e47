---------------------------- MODULE MenuPromise ----------------------------
(***************************************************************************)
(* What uefi_boot_menu_process() promises its callers, with no serial line *)
(* in sight: asked for nothing in particular it answers with the MAC       *)
(* addresses of the PXE entries in menu order, asked for one of them it    *)
(* boots that entry, and it fails only if the menu has no such answer.     *)
(***************************************************************************)
EXTENDS Integers, Sequences

CONSTANTS N,      \* number of entries of the UEFI boot menu
          Macs,   \* MAC addresses of the DPU's network interfaces
          Misc,   \* the entry "UEFI Misc Device", the start marker
          Other,  \* any other entry
          NoMac   \* Python's None where a MAC address may be missing

VARIABLES menu,    \* the entries, from top to bottom
          request, \* the MAC address to boot, NoMac to list them all
          answer,  \* the MAC addresses returned
          booted,  \* the entry that was started
          state

vars == <<menu, request, answer, booted, state>>

Position == 0..(N - 1)
Entries == Macs \cup {Misc, Other}

\* The start marker and every PXE entry appear at most once in a menu.
Menus == {m \in [Position -> Entries] :
            \A p, q \in Position : m[p] = m[q] /\ p # q => m[p] = Other}

\* How many times DOWN leads from mk to p; the menu wraps around.
Dist(mk, p) == IF p >= mk THEN p - mk ELSE p - mk + N

\* The PXE entries are recognised behind the start marker only.
PxeEntries(m) == IF \E p \in Position : m[p] = Misc
                 THEN {m[p] : p \in Position} \cap Macs
                 ELSE {}

\* Once around the menu, e comes before f.
Before(m, e, f) == \E mk, p, q \in Position : /\ m[mk] = Misc /\ m[p] = e /\ m[q] = f
                                              /\ Dist(mk, p) < Dist(mk, q)

\* s lists the PXE entries of the menu, each once and in menu order.
InPxeOrder(m, s) == /\ {s[i] : i \in DOMAIN s} = PxeEntries(m)
                    /\ \A i, j \in DOMAIN s : i < j => Before(m, s[i], s[j])

Lists == UNION {[1..k -> Macs] : k \in 0..N}

Answerable == IF request = NoMac
              THEN PxeEntries(menu) # {}
              ELSE request \in PxeEntries(menu)

Init == /\ menu \in Menus
        /\ request \in Macs \cup {NoMac}
        /\ answer = <<>>
        /\ booted = NoMac
        /\ state = "working"

List == /\ state = "working" /\ request = NoMac /\ Answerable
        /\ \E s \in Lists : InPxeOrder(menu, s) /\ answer' = s
        /\ state' = "returned"
        /\ UNCHANGED <<menu, request, booted>>

Ask == /\ state = "returned"
       /\ \E i \in DOMAIN answer : request' = answer[i]
       /\ answer' = <<>>
       /\ state' = "working"
       /\ UNCHANGED <<menu, booted>>

Choose == /\ state = "working" /\ request # NoMac /\ Answerable
          /\ state' = "booting"
          /\ UNCHANGED <<menu, request, answer, booted>>

Boot == /\ state = "booting" /\ booted = NoMac
        /\ booted' = request
        /\ UNCHANGED <<menu, request, answer, state>>

Fail == /\ state = "working" /\ ~Answerable
        /\ state' = "failed"
        /\ UNCHANGED <<menu, request, answer, booted>>

Next == List \/ Ask \/ Choose \/ Boot \/ Fail

\* Every request is eventually served; asking again is up to the caller.
Spec == Init /\ [][Next]_vars /\ WF_vars(List \/ Choose \/ Boot \/ Fail)
=============================================================================
