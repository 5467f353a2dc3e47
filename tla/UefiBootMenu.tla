---------------------------- MODULE UefiBootMenu ----------------------------
(***************************************************************************)
(* uefi_boot_menu_process() of pxeboot.py, which walks the boot menu of    *)
(* the DPU's UEFI over a serial line, and the menu at the other end.       *)
(*                                                                         *)
(* The program presses keys and reads the lines the UEFI highlights; both  *)
(* directions are FIFO queues with a latency.  The program knows how far   *)
(* the UEFI has got only from its timeouts: AnswersBefore names the waits  *)
(* that are long enough for every key pressed so far to be answered, and   *)
(* KeysGetLost says whether the UEFI may drop a key (the line has no flow  *)
(* control).                                                               *)
(***************************************************************************)
EXTENDS Integers, Sequences

CONSTANTS N, Macs, Misc, Other, NoMac,
          MaxSearch,      \* MAX_SEARCH_COUNT
          AnswersBefore,  \* a subset of Waits
          KeysGetLost

\* "first": the 0.80 s for the first line after a key; "more": the 0.0 s for
\* the lines behind it; "guard": the 0.5 s before ENTER is pressed.  To put
\* "more" into AnswersBefore assumes a lot: a line that was there already ends
\* the 0.80 s at once, and the re-read that follows it without any wait must
\* then find the answer of the key that was just pressed.
Waits == {"first", "more", "guard"}

ASSUME NAssumption == N \in Nat /\ N >= 3
ASSUME EntriesAssumption == /\ Misc \notin Macs /\ Other \notin Macs
                            /\ NoMac \notin Macs \cup {Misc, Other}
                            /\ Misc # Other
ASSUME MaxSearchAssumption == MaxSearch \in Nat
ASSUME LineAssumption == AnswersBefore \subseteq Waits /\ KeysGetLost \in BOOLEAN

VARIABLES
  \* the UEFI
  menu, cursor,
  booted,         \* the entry ENTER was pressed on, or NoMac
  \* the serial line
  keys,           \* keys on their way to the UEFI
  lines,          \* highlighted entries not read yet
  \* uefi_boot_menu_process()
  pc, select_boot, parsing_state, dpu_macs, search_count,
  found_mac, is_first_match

dpuVars == <<menu, cursor, booted>>
callVars == <<select_boot, parsing_state, dpu_macs, search_count>>
vars == <<dpuVars, keys, lines, pc, callVars, found_mac, is_first_match>>

Promise == INSTANCE MenuPromise WITH
             request <- select_boot,
             answer <- IF pc = "returned" THEN dpu_macs ELSE <<>>,
             state <- IF pc \in {"returned", "booting", "failed"} THEN pc ELSE "working"

Position == 0..(N - 1)
Entries == Macs \cup {Misc, Other}
Menus == {m \in [Position -> Entries] :
            \A p, q \in Position : m[p] = m[q] /\ p # q => m[p] = Other}

ParsingState == {"START", "SAW_START_MARKER", "PARSING", "DONE"}

\* The menu wraps around in both directions.
Down(p) == IF p = N - 1 THEN 0 ELSE p + 1
Up(p) == IF p = 0 THEN N - 1 ELSE p - 1

TypeOK ==
  /\ menu \in Menus
  /\ cursor \in Position
  /\ booted \in Entries \cup {NoMac}
  /\ keys \in Seq({"down", "up", "enter"})
  /\ lines \in Seq(Entries)
  /\ pc \in {"loop", "read", "guard", "returned", "booting", "failed"}
  /\ select_boot \in Macs \cup {NoMac}
  /\ parsing_state \in ParsingState
  /\ dpu_macs \in Seq(Macs)
  /\ search_count \in 0..MaxSearch
  /\ found_mac \in Macs \cup {NoMac}
  /\ is_first_match \in BOOLEAN

-----------------------------------------------------------------------------
\* A call starts in the menu that uefi_reset_and_enter_boot_menu() opened: the
\* first entry is highlighted, and its line may or may not be read already.
Init ==
  /\ menu \in Menus
  /\ cursor = 0
  /\ booted = NoMac
  /\ keys = <<>>
  /\ lines \in {<<>>, <<menu[0]>>}
  /\ pc = "loop"
  /\ select_boot \in Macs \cup {NoMac}
  /\ parsing_state = "START"
  /\ dpu_macs = <<>>
  /\ search_count = 0
  /\ found_mac = NoMac
  /\ is_first_match = TRUE

\* expect() runs into its timeout.
TimesOut(wait) == lines = <<>> /\ (wait \in AnswersBefore => keys = <<>>)

-----------------------------------------------------------------------------
\* Mutant: one key more than MAX_SEARCH_COUNT.
PressDownOnceMore ==
  /\ pc = "loop"
  /\ parsing_state # "DONE" /\ search_count <= MaxSearch
  /\ search_count' = search_count + 1
  /\ keys' = Append(keys, "down")
  /\ is_first_match' = TRUE /\ found_mac' = NoMac
  /\ pc' = "read"
  /\ UNCHANGED <<dpuVars, lines, select_boot, parsing_state, dpu_macs>>

\* Mutant: found_mac is not reset for the next key.
PressDownKeepsMac ==
  /\ pc = "loop"
  /\ parsing_state # "DONE" /\ search_count < MaxSearch
  /\ search_count' = search_count + 1
  /\ keys' = Append(keys, "down")
  /\ is_first_match' = TRUE
  /\ pc' = "read"
  /\ UNCHANGED <<dpuVars, lines, select_boot, parsing_state, dpu_macs, found_mac>>

\* Mutant: the keys are not counted.
PressDownUncounted ==
  /\ pc = "loop" /\ parsing_state # "DONE"
  /\ keys' = Append(keys, "down")
  /\ is_first_match' = TRUE /\ found_mac' = NoMac
  /\ pc' = "read"
  /\ UNCHANGED <<dpuVars, lines, callVars>>

\* One turn of the outer loop presses DOWN and reads what it highlights.
PressDown ==
  /\ pc = "loop"
  /\ parsing_state # "DONE" /\ search_count < MaxSearch
  /\ search_count' = search_count + 1
  /\ keys' = Append(keys, "down")
  /\ is_first_match' = TRUE
  /\ found_mac' = NoMac
  /\ pc' = "read"
  /\ UNCHANGED <<dpuVars, lines, select_boot, parsing_state, dpu_macs>>

\* "Failure to parse boot entries (parsing did not end)"
GiveUp ==
  /\ pc = "loop"
  /\ parsing_state # "DONE" /\ search_count >= MaxSearch
  /\ pc' = "failed"
  /\ UNCHANGED <<dpuVars, keys, lines, callVars, found_mac, is_first_match>>

\* Mutant: any PXE entry will do.
AfterReadingAnyMac == IF select_boot # NoMac /\ found_mac # NoMac THEN "guard" ELSE "loop"

\* Where the code goes on when there is nothing more to read.
AfterReading == IF select_boot # NoMac /\ found_mac = select_boot THEN "guard" ELSE "loop"

\* The start marker arms the parser, and ends it the second time around.
ReadStartMarker ==
  /\ pc = "read" /\ lines # <<>> /\ Head(lines) = Misc
  /\ parsing_state \in {"START", "SAW_START_MARKER"}
  /\ lines' = Tail(lines)
  /\ parsing_state' = "SAW_START_MARKER"
  /\ is_first_match' = FALSE
  /\ UNCHANGED <<dpuVars, keys, pc, select_boot, dpu_macs, search_count, found_mac>>

\* The break drops the lines that were matched together with the marker.
ReadEndMarker ==
  /\ pc = "read" /\ lines # <<>> /\ Head(lines) = Misc
  /\ parsing_state = "PARSING"
  /\ \E i \in 2..(Len(lines) + 1) : lines' = SubSeq(lines, i, Len(lines))
  /\ parsing_state' = "DONE"
  /\ is_first_match' = FALSE
  /\ pc' = AfterReading
  /\ UNCHANGED <<dpuVars, keys, select_boot, dpu_macs, search_count, found_mac>>

\* Mutant: the entries above the start marker count, too.
ReadPxeEntryUnarmed ==
  /\ pc = "read" /\ lines # <<>> /\ Head(lines) \in Macs
  /\ lines' = Tail(lines)
  /\ parsing_state' = "PARSING"
  /\ dpu_macs' = Append(dpu_macs, Head(lines)) /\ found_mac' = Head(lines)
  /\ is_first_match' = FALSE
  /\ UNCHANGED <<dpuVars, keys, pc, select_boot, search_count>>

\* Mutant: only the first line after a key counts.
ReadPxeEntryFirstOnly ==
  /\ pc = "read" /\ lines # <<>> /\ Head(lines) \in Macs
  /\ parsing_state \in {"SAW_START_MARKER", "PARSING"}
  /\ lines' = Tail(lines)
  /\ parsing_state' = "PARSING"
  /\ dpu_macs' = IF is_first_match THEN Append(dpu_macs, Head(lines)) ELSE dpu_macs
  /\ found_mac' = Head(lines)
  /\ is_first_match' = FALSE
  /\ UNCHANGED <<dpuVars, keys, pc, select_boot, search_count>>

ReadPxeEntry ==
  /\ pc = "read" /\ lines # <<>> /\ Head(lines) \in Macs
  /\ parsing_state \in {"SAW_START_MARKER", "PARSING"}
  /\ lines' = Tail(lines)
  /\ parsing_state' = "PARSING"
  /\ dpu_macs' = Append(dpu_macs, Head(lines))
  /\ found_mac' = Head(lines)
  /\ is_first_match' = FALSE
  /\ UNCHANGED <<dpuVars, keys, pc, select_boot, search_count>>

\* Other entries, and PXE entries above the first start marker.
SkipEntry ==
  /\ pc = "read" /\ lines # <<>>
  /\ \/ Head(lines) = Other
     \/ Head(lines) \in Macs /\ parsing_state = "START"
  /\ lines' = Tail(lines)
  /\ is_first_match' = FALSE
  /\ UNCHANGED <<dpuVars, keys, pc, callVars, found_mac>>

ReadTimeout ==
  /\ pc = "read"
  /\ TimesOut(IF is_first_match THEN "first" ELSE "more")
  /\ pc' = AfterReading
  /\ UNCHANGED <<dpuVars, keys, lines, callVars, found_mac, is_first_match>>

-----------------------------------------------------------------------------
\* "Failure to select boot entry (unexpected menu item)"
GuardSeesLine ==
  /\ pc = "guard" /\ lines # <<>>
  /\ lines' = Tail(lines)
  /\ pc' = "failed"
  /\ UNCHANGED <<dpuVars, keys, callVars, found_mac, is_first_match>>

PressEnter ==
  /\ pc = "guard" /\ TimesOut("guard")
  /\ keys' = Append(keys, "enter")
  /\ pc' = "booting"
  /\ UNCHANGED <<dpuVars, lines, callVars, found_mac, is_first_match>>

\* Mutant: a single UP stays on the start marker's next neighbour.
ReturnMacsOneUp ==
  /\ pc = "loop" /\ parsing_state = "DONE"
  /\ select_boot = NoMac /\ dpu_macs # <<>>
  /\ keys' = Append(keys, "up")
  /\ pc' = "returned"
  /\ UNCHANGED <<dpuVars, lines, callVars, found_mac, is_first_match>>

\* Two UP leave the cursor above the start marker for the next call.
ReturnMacs ==
  /\ pc = "loop" /\ parsing_state = "DONE"
  /\ select_boot = NoMac /\ dpu_macs # <<>>
  /\ keys' = keys \o <<"up", "up">>
  /\ pc' = "returned"
  /\ UNCHANGED <<dpuVars, lines, callVars, found_mac, is_first_match>>

\* "Didn't find boot menu entry for PXE boot" and "no PXE entries were found"
RaiseNotFound ==
  /\ pc = "loop" /\ parsing_state = "DONE"
  /\ select_boot # NoMac \/ dpu_macs = <<>>
  /\ pc' = "failed"
  /\ UNCHANGED <<dpuVars, keys, lines, callVars, found_mac, is_first_match>>

\* The caller picks one of the addresses and calls again with select_boot.
CallSelect ==
  /\ pc = "returned"
  /\ \E i \in DOMAIN dpu_macs : select_boot' = dpu_macs[i]
  /\ parsing_state' = "START"
  /\ dpu_macs' = <<>>
  /\ search_count' = 0
  /\ found_mac' = NoMac
  /\ is_first_match' = TRUE
  /\ pc' = "loop"
  /\ UNCHANGED <<dpuVars, keys, lines>>

-----------------------------------------------------------------------------
\* The UEFI highlights the entry a cursor key moves to, and starts the one
\* that ENTER is pressed on.
MoveCursor ==
  /\ keys # <<>> /\ Head(keys) \in {"down", "up"} /\ booted = NoMac
  /\ keys' = Tail(keys)
  /\ cursor' = IF Head(keys) = "down" THEN Down(cursor) ELSE Up(cursor)
  /\ lines' = Append(lines, menu[cursor'])
  /\ UNCHANGED <<menu, booted, pc, callVars, found_mac, is_first_match>>

StartEntry ==
  /\ keys # <<>> /\ Head(keys) = "enter" /\ booted = NoMac
  /\ keys' = Tail(keys)
  /\ booted' = menu[cursor]
  /\ UNCHANGED <<menu, cursor, lines, pc, callVars, found_mac, is_first_match>>

LoseKey ==
  /\ KeysGetLost /\ keys # <<>>
  /\ keys' = Tail(keys)
  /\ UNCHANGED <<dpuVars, lines, pc, callVars, found_mac, is_first_match>>

Process == \/ PressDown \/ GiveUp
           \/ ReadStartMarker \/ ReadEndMarker \/ ReadPxeEntry \/ SkipEntry \/ ReadTimeout
           \/ GuardSeesLine \/ PressEnter \/ ReturnMacs \/ RaiseNotFound
Uefi == MoveCursor \/ StartEntry
Next == Process \/ CallSelect \/ Uefi \/ LoseKey

\* Every expect() has a timeout, so the program never stops inside a call; the
\* UEFI serves its console.  Nobody has to call again, and no key must be lost.
Fairness == WF_vars(Process) /\ WF_vars(Uefi)
Spec == Init /\ [][Next]_vars /\ Fairness

-----------------------------------------------------------------------------
\* ENTER never starts an entry other than the one asked for: found_mac is the
\* entry under the cursor whenever the code trusts it.  It needs "first" and
\* "more" in AnswersBefore: behind a line that was there already, ordinary
\* latency is enough to get out of step.
BootsRequestedEntry == booted \in {NoMac, select_boot}

\* Of several lines that arrive together the last one counts, that is where
\* the cursor is: with everything read, a found_mac that is about to be booted
\* is the entry under the cursor.
LastLineCounts == pc = "guard" /\ keys = <<>> /\ lines = <<>> => menu[cursor] = found_mac

\* The addresses a detection returns are those of all PXE entries of the menu,
\* each once and in the order that numbers the DPU's interfaces, however the
\* answers are delayed or batched and whatever keys are lost.
DetectExact == pc = "returned" => Promise!InPxeOrder(menu, dpu_macs)

\* A detection leaves the menu in a suitable state for the next call: the
\* cursor is above the start marker, two DOWN away from it.
LeavesAboveMarker == pc = "returned" /\ keys = <<>> => menu[Down(Down(cursor))] = Misc

\* A selection is refused only if the menu has no such entry, and a detection
\* only if it has no PXE entry behind a start marker (needs a patient
\* MAX_SEARCH_COUNT, a line that loses nothing and answers before every wait
\* ends, the 0.0 s of a re-read included); the requested entry is started at
\* the end.
KeepsPromise == Promise!Spec

\* Every call comes to an end, on any menu and with any keys lost.
CallsEnd == pc \in {"loop", "read", "guard"} ~> pc \in {"returned", "booting", "failed"}

-----------------------------------------------------------------------------
(***************************************************************************)
(* Why BootsRequestedEntry holds when every key is answered before the     *)
(* program stops reading ({"first", "more"} \subseteq AnswersBefore, so    *)
(* also before a re-read of 0.0 s behind a line that was there): the       *)
(* program is out of touch with the cursor only while the parser still     *)
(* looks for its start marker, by at most three entries, and found_mac is  *)
(* set only by the last of them.                                           *)
(***************************************************************************)
Pending == Len(keys) + Len(lines)
InTouch == keys = <<>> /\ lines = <<>>

\* The next entry to be read is not the start marker.
NextNotMarker == IF lines = <<>>
                 THEN Head(keys) = "up" /\ menu[Up(cursor)] # Misc
                 ELSE Head(lines) # Misc

LoopInv == pc \in {"loop", "returned"} =>
             /\ Pending <= 2
             /\ Pending = 2 => NextNotMarker
             /\ pc = "loop" /\ parsing_state # "START" => InTouch
             /\ pc = "loop" /\ parsing_state = "DONE" => menu[cursor] = Misc

ReadInv == pc = "read" =>
             /\ parsing_state # "DONE"
             /\ Pending <= 3
             /\ Pending = 3 => NextNotMarker
             /\ Pending >= 2 => parsing_state = "START"
             /\ found_mac # NoMac => InTouch /\ found_mac = menu[cursor]

BootInv ==
  /\ pc \in {"guard", "booting"} => select_boot = menu[cursor] /\ lines = <<>>
  /\ pc = "guard" => keys = <<>>
  /\ pc = "booting" => keys \in {<<>>, <<"enter">>}
  /\ pc # "booting" => booted = NoMac /\ keys \in Seq({"down", "up"})

\* The strengthening of BootsRequestedEntry that every step preserves.
CursorInv ==
  /\ lines # <<>> => lines[Len(lines)] = menu[cursor]
  /\ LoopInv /\ ReadInv /\ BootInv
  /\ BootsRequestedEntry
=============================================================================
