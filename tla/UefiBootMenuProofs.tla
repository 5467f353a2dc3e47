------------------------- MODULE UefiBootMenuProofs -------------------------
(***************************************************************************)
(* What holds of uefi_boot_menu_process() for menus of any length, any     *)
(* number of interfaces and any MAX_SEARCH_COUNT.                          *)
(***************************************************************************)
EXTENDS UefiBootMenu, SequenceTheorems, TLAPS

USE NAssumption, EntriesAssumption, MaxSearchAssumption, LineAssumption

LEMMA CursorMoves ==
  ASSUME NEW p \in Position
  PROVE  Down(p) \in Position /\ Up(p) \in Position /\ Down(p) # p /\ Up(p) # p
BY DEF Down, Up, Position

LEMMA MenuEntries ==
  ASSUME NEW m \in Menus, NEW p \in Position
  PROVE  m[p] \in Entries
BY DEF Menus

\* The break in the reading loop drops a prefix of the lines.
LEMMA DropLines ==
  ASSUME NEW s \in Seq(Entries), NEW i \in 2..(Len(s) + 1)
  PROVE  SubSeq(s, i, Len(s)) \in Seq(Entries)
<1>1. Len(s) \in Nat /\ \A j \in 1..Len(s) : s[j] \in Entries
  BY LenProperties, ElementOfSeq
<1>2. \A j \in i..Len(s) : s[j] \in Entries
  BY <1>1
<1>3. QED
  BY <1>1, <1>2, SubSeqProperties

\* Reading the next line.
LEMMA ReadLine ==
  ASSUME NEW s \in Seq(Entries), s # <<>>
  PROVE  Head(s) \in Entries /\ Tail(s) \in Seq(Entries)
BY HeadTailProperties

\* Every variable keeps its type: the keys and lines on the serial line are
\* keys and entries, the addresses collected are addresses, and the search
\* count never exceeds MAX_SEARCH_COUNT.
THEOREM TypeCorrect == Spec => []TypeOK
<1>1. Init => TypeOK
  <2> SUFFICES ASSUME Init PROVE TypeOK
    OBVIOUS
  <2>1. 0 \in Position /\ menu[0] \in Entries
    BY MenuEntries DEF Init, Position
  <2>2. <<menu[0]>> \in Seq(Entries)
    BY <2>1
  <2>3. lines \in Seq(Entries)
    BY <2>2, EmptySeq DEF Init
  <2>4. keys \in Seq({"down", "up", "enter"}) /\ dpu_macs \in Seq(Macs)
    BY EmptySeq DEF Init
  <2>5. QED
    BY <2>1, <2>3, <2>4 DEF Init, TypeOK, ParsingState
<1>2. TypeOK /\ [Next]_vars => TypeOK'
  <2> SUFFICES ASSUME TypeOK, [Next]_vars PROVE TypeOK'
    OBVIOUS
  <2> USE DEF TypeOK, ParsingState, dpuVars, callVars
  <2>1. CASE PressDown
    BY <2>1 DEF PressDown
  <2>2. CASE GiveUp
    BY <2>2 DEF GiveUp
  <2>3. CASE ReadStartMarker
    <3>1. lines' \in Seq(Entries)
      BY <2>3, ReadLine DEF ReadStartMarker
    <3>2. QED
      BY <2>3, <3>1 DEF ReadStartMarker
  <2>4. CASE ReadEndMarker
    <3>1. lines' \in Seq(Entries)
      BY <2>4, DropLines DEF ReadEndMarker
    <3>2. QED
      BY <2>4, <3>1 DEF ReadEndMarker, AfterReading
  <2>5. CASE ReadPxeEntry
    <3>1. lines' \in Seq(Entries)
      BY <2>5, ReadLine DEF ReadPxeEntry
    <3>2. dpu_macs' \in Seq(Macs)
      BY <2>5, AppendProperties DEF ReadPxeEntry
    <3>3. QED
      BY <2>5, <3>1, <3>2 DEF ReadPxeEntry
  <2>6. CASE SkipEntry
    <3>1. lines' \in Seq(Entries)
      BY <2>6, ReadLine DEF SkipEntry
    <3>2. QED
      BY <2>6, <3>1 DEF SkipEntry
  <2>7. CASE ReadTimeout
    BY <2>7 DEF ReadTimeout, AfterReading
  <2>8. CASE GuardSeesLine
    <3>1. lines' \in Seq(Entries)
      BY <2>8, ReadLine DEF GuardSeesLine
    <3>2. QED
      BY <2>8, <3>1 DEF GuardSeesLine
  <2>9. CASE PressEnter
    BY <2>9 DEF PressEnter
  <2>10. CASE ReturnMacs
    <3>1. keys' \in Seq({"down", "up", "enter"})
      BY <2>10, ConcatProperties DEF ReturnMacs
    <3>2. QED
      BY <2>10, <3>1 DEF ReturnMacs
  <2>11. CASE RaiseNotFound
    BY <2>11 DEF RaiseNotFound
  <2>12. CASE CallSelect
    BY <2>12 DEF CallSelect
  <2>13. CASE MoveCursor
    <3>1. cursor' \in Position
      BY <2>13, CursorMoves DEF MoveCursor
    <3>2. menu[cursor'] \in Entries
      BY <3>1, MenuEntries
    <3>3. QED
      BY <2>13, <3>1, <3>2 DEF MoveCursor
  <2>14. CASE StartEntry
    BY <2>14, MenuEntries DEF StartEntry
  <2>15. CASE LoseKey
    BY <2>15 DEF LoseKey
  <2>16. CASE UNCHANGED vars
    BY <2>16 DEF vars
  <2>17. QED
    BY <2>1, <2>2, <2>3, <2>4, <2>5, <2>6, <2>7, <2>8, <2>9, <2>10, <2>11,
       <2>12, <2>13, <2>14, <2>15, <2>16 DEF Next, Process, Uefi
<1>3. QED
  BY <1>1, <1>2, PTL DEF Spec

-----------------------------------------------------------------------------
LEMMA LengthZero ==
  ASSUME NEW S, NEW s \in Seq(S)
  PROVE  Len(s) \in Nat /\ (s = <<>> <=> Len(s) = 0)
BY EmptySeq, LenProperties

LEMMA AppendFacts ==
  ASSUME NEW S, NEW s \in Seq(S), NEW e \in S
  PROVE  /\ Append(s, e) \in Seq(S) /\ Append(s, e) # <<>>
         /\ Len(Append(s, e)) = Len(s) + 1
         /\ Append(s, e)[Len(Append(s, e))] = e
         /\ Head(Append(s, e)) = IF s = <<>> THEN e ELSE Head(s)
<1>1. /\ Append(s, e) \in Seq(S) /\ Len(Append(s, e)) = Len(s) + 1
      /\ Append(s, e)[Len(s) + 1] = e
      /\ \A i \in 1..Len(s) : Append(s, e)[i] = s[i]
  BY AppendProperties
<1>2. Append(s, e) # <<>>
  BY <1>1, LengthZero
<1>3. Head(Append(s, e)) = Append(s, e)[1] /\ Head(s) = s[1]
  BY <1>1, <1>2
<1>4. QED
  BY <1>1, <1>2, <1>3, LengthZero

LEMMA TailFacts ==
  ASSUME NEW S, NEW s \in Seq(S), s # <<>>
  PROVE  /\ Tail(s) \in Seq(S) /\ Len(Tail(s)) = Len(s) - 1
         /\ Head(s) \in S /\ Head(s) = s[1]
         /\ Tail(s) # <<>> => Tail(s)[Len(Tail(s))] = s[Len(s)]
<1>1. /\ Tail(s) \in Seq(S) /\ Len(Tail(s)) = Len(s) - 1 /\ Head(s) \in S
      /\ \A i \in 1..Len(Tail(s)) : Tail(s)[i] = s[i + 1]
  BY HeadTailProperties
<1>2. Head(s) = s[1]
  OBVIOUS
<1>3. Tail(s) # <<>> => Len(Tail(s)) \in 1..Len(Tail(s))
  BY <1>1, LengthZero
<1>4. QED
  BY <1>1, <1>2, <1>3, LengthZero

\* The start marker is unique.
LEMMA AboveMarker ==
  ASSUME NEW m \in Menus, NEW p \in Position, m[p] = Misc
  PROVE  m[Up(p)] # Misc
BY CursorMoves DEF Menus

-----------------------------------------------------------------------------
LineInv == lines # <<>> => lines[Len(lines)] = menu[cursor]

LEMMA InitCursorInv == Init => CursorInv
<1> SUFFICES ASSUME Init PROVE CursorInv
  OBVIOUS
<1>1. Len(keys) = 0 /\ keys = <<>> /\ keys \in Seq({"down", "up"})
  BY EmptySeq DEF Init
<1>2. Len(lines) \in {0, 1} /\ LineInv
  BY DEF Init, LineInv
<1>3. LoopInv
  <2>1. Pending \in {0, 1}
    BY <1>1, <1>2 DEF Pending
  <2>2. QED
    BY <2>1 DEF Init, LoopInv
<1>4. QED
  BY <1>1, <1>2, <1>3 DEF Init, CursorInv, LineInv, ReadInv, BootInv, BootsRequestedEntry

LEMMA OneOnItsWay ==
  ASSUME NEW k \in Nat, NEW l \in Nat, ~(k + l >= 2), l >= 1
  PROVE  k = 0 /\ l = 1
OBVIOUS

\* The steps of the program.
LEMMA ProcessCursorInv ==
  ASSUME TypeOK, CursorInv, Process \/ CallSelect, {"first", "more"} \subseteq AnswersBefore
  PROVE  CursorInv'
<1> USE DEF CursorInv, BootsRequestedEntry, InTouch
<1>1. /\ Len(keys) \in Nat /\ (keys = <<>> <=> Len(keys) = 0)
      /\ Len(lines) \in Nat /\ (lines = <<>> <=> Len(lines) = 0)
  BY LengthZero DEF TypeOK
<1>2. CASE PressDown
  <2>1. /\ booted = NoMac /\ keys \in Seq({"down", "up"})
        /\ lines' = lines /\ menu' = menu /\ cursor' = cursor /\ booted' = booted
        /\ select_boot' = select_boot /\ parsing_state' = parsing_state
        /\ found_mac' = NoMac /\ pc' = "read" /\ keys' = Append(keys, "down")
    BY <1>2 DEF PressDown, BootInv, dpuVars
  <2>2. /\ keys' \in Seq({"down", "up"}) /\ Len(keys') = Len(keys) + 1
        /\ Head(keys') = IF keys = <<>> THEN "down" ELSE Head(keys)
    BY <2>1, AppendFacts
  <2>3. Pending' = Pending + 1 /\ Pending \in Nat
    BY <1>1, <2>1, <2>2 DEF Pending
  <2>4. Pending' = 3 => NextNotMarker'
    BY <1>1, <1>2, <2>1, <2>2, <2>3 DEF PressDown, LoopInv, NextNotMarker, Pending, Up
  <2>5. Pending <= 2 /\ (parsing_state # "START" => Pending = 0)
    BY <1>1, <1>2 DEF PressDown, LoopInv, Pending
  <2>6. ReadInv'
    BY <1>2, <2>1, <2>3, <2>4, <2>5 DEF PressDown, ReadInv
  <2>7. QED
    BY <2>1, <2>2, <2>6 DEF LoopInv, BootInv
<1>3. CASE GiveUp
  BY <1>3 DEF GiveUp, LoopInv, ReadInv, BootInv, dpuVars, callVars
<1>4. CASE ReadStartMarker
  <2>1. /\ Tail(lines) \in Seq(Entries) /\ Len(Tail(lines)) = Len(lines) - 1
        /\ Tail(lines) # <<>> => Tail(lines)[Len(Tail(lines))] = lines[Len(lines)]
    BY <1>4, TailFacts DEF ReadStartMarker, TypeOK
  <2>2. Pending' = Pending - 1 /\ Pending \in Nat /\ Pending' \in Nat
    BY <1>1, <1>4, <2>1 DEF ReadStartMarker, Pending
  <2>3. Pending # 3 /\ Pending <= 3
    BY <1>4 DEF ReadStartMarker, ReadInv, NextNotMarker
  <2>4. Pending' \in {0, 1}
    BY <2>2, <2>3
  <2>5. found_mac = NoMac
    BY <1>4 DEF ReadStartMarker, ReadInv
  <2>6. QED
    BY <1>4, <2>1, <2>4, <2>5 DEF ReadStartMarker, ReadInv, LoopInv, BootInv, dpuVars
<1>5. CASE ReadEndMarker
  <2>1. keys = <<>> /\ Len(lines) = 1
    <3>1. ~(Pending >= 2)
      BY <1>5 DEF ReadEndMarker, ReadInv
    <3>2. Len(lines) >= 1
      BY <1>1, <1>5 DEF ReadEndMarker
    <3>3. Len(keys) = 0 /\ Len(lines) = 1
      BY <1>1, <3>1, <3>2, OneOnItsWay DEF Pending
    <3>4. QED
      BY <1>1, <3>3
  <2>2. lines' = <<>> /\ lines[1] = Misc
    BY <1>5, <2>1 DEF ReadEndMarker, TypeOK
  <2>3. found_mac = NoMac /\ menu[cursor] = Misc
    BY <1>1, <1>5, <2>1, <2>2 DEF ReadEndMarker, ReadInv
  <2>4. pc' = "loop"
    BY <1>5, <2>3 DEF ReadEndMarker, AfterReading
  <2>5. Pending' = 0
    BY <1>5, <2>1, <2>2 DEF ReadEndMarker, Pending
  <2>6. QED
    BY <1>5, <2>1, <2>2, <2>3, <2>4, <2>5 DEF ReadEndMarker, LoopInv, ReadInv, BootInv, dpuVars
<1>6. CASE ReadPxeEntry
  <2>1. keys = <<>> /\ Len(lines) = 1
    <3>1. ~(Pending >= 2)
      BY <1>6 DEF ReadPxeEntry, ReadInv
    <3>2. Len(lines) >= 1
      BY <1>1, <1>6 DEF ReadPxeEntry
    <3>3. Len(keys) = 0 /\ Len(lines) = 1
      BY <1>1, <3>1, <3>2, OneOnItsWay DEF Pending
    <3>4. QED
      BY <1>1, <3>3
  <2>2. lines' = <<>> /\ lines[1] = Head(lines)
    BY <1>6, <2>1, TailFacts, LengthZero DEF ReadPxeEntry, TypeOK
  <2>3. found_mac' = menu[cursor]
    BY <1>1, <1>6, <2>1, <2>2 DEF ReadPxeEntry
  <2>4. QED
    BY <1>6, <2>1, <2>2, <2>3 DEF ReadPxeEntry, LoopInv, ReadInv, BootInv, Pending, dpuVars
<1>7. CASE SkipEntry
  <2>1. /\ Tail(lines) \in Seq(Entries) /\ Len(Tail(lines)) = Len(lines) - 1
        /\ Tail(lines) # <<>> => Tail(lines)[Len(Tail(lines))] = lines[Len(lines)]
    BY <1>7, TailFacts DEF SkipEntry, TypeOK
  <2>2. Pending' = Pending - 1 /\ Pending \in Nat
    BY <1>1, <1>7, <2>1 DEF SkipEntry, Pending
  <2>3. Pending' <= 2 /\ (Pending' >= 2 => parsing_state = "START") /\ found_mac = NoMac
    BY <1>7, <2>2 DEF SkipEntry, ReadInv
  <2>4. QED
    BY <1>7, <2>1, <2>2, <2>3 DEF SkipEntry, ReadInv, LoopInv, BootInv, dpuVars, callVars
<1>8. CASE ReadTimeout
  <2>1. keys = <<>> /\ lines = <<>>
    BY <1>8 DEF ReadTimeout, TimesOut
  <2>2. pc' = "guard" => select_boot = menu[cursor]
    BY <1>8 DEF ReadTimeout, AfterReading, ReadInv
  <2>3. pc' \in {"guard", "loop"} /\ parsing_state # "DONE"
    BY <1>8 DEF ReadTimeout, AfterReading, ReadInv
  <2>4. QED
    BY <1>1, <1>8, <2>1, <2>2, <2>3
       DEF ReadTimeout, LoopInv, ReadInv, BootInv, Pending, dpuVars, callVars
<1>9. CASE GuardSeesLine
  BY <1>9 DEF GuardSeesLine, BootInv
<1>10. CASE PressEnter
  <2>1. keys' = <<"enter">>
    BY <1>10 DEF PressEnter, BootInv
  <2>2. QED
    BY <1>10, <2>1 DEF PressEnter, LoopInv, ReadInv, BootInv, dpuVars, callVars
<1>11. CASE ReturnMacs
  <2>1. keys = <<>> /\ lines = <<>> /\ menu[cursor] = Misc
    BY <1>11 DEF ReturnMacs, LoopInv
  <2>2. keys' = <<"up", "up">>
    BY <1>11, <2>1 DEF ReturnMacs
  <2>3. NextNotMarker'
    BY <1>11, <2>1, <2>2, AboveMarker DEF ReturnMacs, NextNotMarker, TypeOK, dpuVars, Up
  <2>4. Pending' = 2
    BY <1>11, <2>1, <2>2 DEF ReturnMacs, Pending
  <2>5. keys' \in Seq({"down", "up"})
    BY <2>2
  <2>6. QED
    BY <1>11, <2>1, <2>3, <2>4, <2>5 DEF ReturnMacs, LoopInv, ReadInv, BootInv, dpuVars, callVars
<1>12. CASE RaiseNotFound
  BY <1>12 DEF RaiseNotFound, LoopInv, ReadInv, BootInv, dpuVars, callVars
<1>13. CASE CallSelect
  BY <1>13 DEF CallSelect, LoopInv, ReadInv, BootInv, Pending, NextNotMarker, Up, dpuVars
<1>14. QED
  BY <1>2, <1>3, <1>4, <1>5, <1>6, <1>7, <1>8, <1>9, <1>10, <1>11, <1>12, <1>13 DEF Process

\* The steps of the UEFI and of the serial line.
LEMMA LineCursorInv ==
  ASSUME TypeOK, CursorInv, Uefi \/ LoseKey
  PROVE  CursorInv'
<1> USE DEF CursorInv, BootsRequestedEntry, InTouch
<1>1. /\ Len(keys) \in Nat /\ (keys = <<>> <=> Len(keys) = 0)
      /\ Len(lines) \in Nat /\ (lines = <<>> <=> Len(lines) = 0)
      /\ keys # <<>>
  BY LengthZero DEF TypeOK, Uefi, MoveCursor, StartEntry, LoseKey
<1>2. /\ Tail(keys) \in Seq({"down", "up", "enter"}) /\ Len(Tail(keys)) = Len(keys) - 1
      /\ keys \in Seq({"down", "up"}) => /\ Head(keys) \in {"down", "up"}
                                         /\ Tail(keys) \in Seq({"down", "up"})
  BY <1>1, TailFacts DEF TypeOK
<1>3. pc = "read" => found_mac = NoMac
  BY <1>1 DEF ReadInv
<1>4. pc # "guard" /\ (pc = "booting" => keys = <<"enter">>)
  BY <1>1 DEF BootInv
<1>5. CASE MoveCursor
  <2>1. pc # "booting"
    BY <1>4, <1>5 DEF MoveCursor
  <2>2. cursor' \in Position /\ menu[cursor'] \in Entries
    BY <1>5, CursorMoves, MenuEntries DEF MoveCursor, TypeOK
  <2>3. /\ Len(lines') = Len(lines) + 1 /\ lines' # <<>>
        /\ lines'[Len(lines')] = menu[cursor']
        /\ Head(lines') = IF lines = <<>> THEN menu[cursor'] ELSE Head(lines)
    BY <1>5, <2>2, AppendFacts DEF MoveCursor, TypeOK
  <2>4. Pending' = Pending
    BY <1>1, <1>2, <1>5, <2>3 DEF MoveCursor, Pending
  <2>5. NextNotMarker => NextNotMarker'
    BY <1>5, <2>3 DEF MoveCursor, NextNotMarker
  <2>6. LoopInv' /\ ReadInv'
    BY <1>1, <1>3, <1>5, <2>4, <2>5 DEF MoveCursor, LoopInv, ReadInv, callVars
  <2>7. BootInv'
    BY <1>2, <1>4, <1>5, <2>1 DEF MoveCursor, BootInv
  <2>8. QED
    BY <1>5, <2>3, <2>6, <2>7 DEF MoveCursor, callVars
<1>6. CASE StartEntry
  <2>1. pc = "booting" /\ keys' = <<>>
    BY <1>2, <1>4, <1>6 DEF StartEntry, BootInv
  <2>2. QED
    BY <1>6, <2>1 DEF StartEntry, LoopInv, ReadInv, BootInv, callVars
<1>7. CASE LoseKey
  <2>1. Pending' = Pending - 1 /\ Pending \in Nat
    BY <1>1, <1>2, <1>7 DEF LoseKey, Pending
  <2>2. pc = "booting" => keys' = <<>>
    BY <1>4, <1>7 DEF LoseKey
  <2>3. LoopInv' /\ ReadInv'
    BY <1>1, <1>3, <1>7, <2>1 DEF LoseKey, LoopInv, ReadInv, callVars
  <2>4. BootInv'
    BY <1>2, <1>4, <1>7, <2>2 DEF LoseKey, BootInv, dpuVars, callVars
  <2>5. QED
    BY <1>7, <2>3, <2>4 DEF LoseKey, dpuVars, callVars
<1>8. QED
  BY <1>5, <1>6, <1>7 DEF Uefi

LEMMA StutterCursorInv ==
  ASSUME CursorInv, UNCHANGED vars
  PROVE  CursorInv'
BY DEF CursorInv, LoopInv, ReadInv, BootInv, BootsRequestedEntry, Pending, NextNotMarker,
       InTouch, Up, vars, dpuVars, callVars

\* If the UEFI answers every key before the program stops reading, be it after
\* the 0.80 s or the 0.0 s behind a line that was there already, the program and
\* the cursor keep in step as CursorInv says, even if keys are lost.
THEOREM CursorInvariant ==
  ASSUME {"first", "more"} \subseteq AnswersBefore
  PROVE  Spec => []CursorInv
<1>1. TypeOK /\ CursorInv /\ [Next]_vars => CursorInv'
  BY ProcessCursorInv, LineCursorInv, StutterCursorInv DEF Next
<1>2. QED
  BY <1>1, InitCursorInv, TypeCorrect, PTL DEF Spec

\* ... and under the same assumption on both waits ENTER never starts an entry
\* other than the one asked for, on a menu of any length and with any number of
\* interfaces.
THEOREM BootsOnlyRequestedEntry ==
  ASSUME {"first", "more"} \subseteq AnswersBefore
  PROVE  Spec => []BootsRequestedEntry
<1>1. CursorInv => BootsRequestedEntry
  BY DEF CursorInv
<1>2. QED
  BY <1>1, CursorInvariant, PTL

-----------------------------------------------------------------------------
\* After a detection the cursor is on its way from the start marker to two
\* entries above it, by the two UP that are not answered yet.
UpsInv ==
  pc = "returned" => \/ keys = <<"up", "up">> /\ menu[cursor] = Misc
                     \/ keys = <<"up">> /\ menu[Down(cursor)] = Misc
                     \/ keys = <<>> /\ menu[Down(Down(cursor))] = Misc

LEMMA DownUndoesUp ==
  ASSUME NEW p \in Position
  PROVE  Down(Up(p)) = p
BY DEF Down, Up, Position

LEMMA UpsStep ==
  ASSUME TypeOK, CursorInv, UpsInv, [Next]_vars,
         {"first", "more"} \subseteq AnswersBefore, ~KeysGetLost
  PROVE  UpsInv'
<1>1. CASE MoveCursor
  <2>1. SUFFICES ASSUME pc = "returned" PROVE UpsInv'
    BY <1>1 DEF MoveCursor, UpsInv
  <2>2. menu' = menu /\ keys' = Tail(keys) /\ pc' = pc /\ keys # <<>>
        /\ cursor' = IF Head(keys) = "down" THEN Down(cursor) ELSE Up(cursor)
    BY <1>1 DEF MoveCursor
  <2>3. CASE keys = <<"up", "up">> /\ menu[cursor] = Misc
    <3>1. Head(keys) = "up" /\ Tail(keys) = <<"up">>
      BY <2>3
    <3>2. Down(cursor') = cursor
      BY <2>2, <3>1, DownUndoesUp DEF TypeOK
    <3>3. keys' = <<"up">> /\ menu'[Down(cursor)'] = Misc
      BY <2>2, <2>3, <3>1, <3>2 DEF Down
    <3>4. QED
      BY <3>3 DEF UpsInv
  <2>4. CASE keys = <<"up">> /\ menu[Down(cursor)] = Misc
    <3>1. Head(keys) = "up" /\ Tail(keys) = <<>>
      BY <2>4
    <3>2. Down(cursor') = cursor
      BY <2>2, <3>1, DownUndoesUp DEF TypeOK
    <3>3. keys' = <<>> /\ menu'[Down(Down(cursor'))] = Misc
      BY <2>2, <2>4, <3>1, <3>2
    <3>4. QED
      BY <3>3 DEF UpsInv, Down
  <2>5. QED
    BY <2>1, <2>2, <2>3, <2>4 DEF UpsInv
<1>2. CASE ReturnMacs
  <2>1. keys = <<>> /\ menu[cursor] = Misc
    BY <1>2 DEF ReturnMacs, CursorInv, LoopInv, InTouch
  <2>2. keys' = <<"up", "up">>
    BY <1>2, <2>1 DEF ReturnMacs
  <2>3. QED
    BY <1>2, <2>1, <2>2 DEF ReturnMacs, UpsInv, dpuVars
<1>3. CASE StartEntry
  BY <1>3 DEF StartEntry, CursorInv, BootInv, UpsInv, TypeOK
<1>4. CASE UNCHANGED vars
  BY <1>4 DEF vars, dpuVars, UpsInv, Down
<1>5. CASE PressDown \/ GiveUp \/ ReadStartMarker \/ ReadEndMarker \/ ReadPxeEntry
           \/ SkipEntry \/ ReadTimeout \/ GuardSeesLine \/ PressEnter \/ RaiseNotFound
           \/ CallSelect
  BY <1>5 DEF PressDown, GiveUp, ReadStartMarker, ReadEndMarker, ReadPxeEntry, SkipEntry,
              ReadTimeout, AfterReading, GuardSeesLine, PressEnter, RaiseNotFound,
              CallSelect, UpsInv
<1>6. ~LoseKey
  BY DEF LoseKey
<1>7. QED
  BY <1>1, <1>2, <1>3, <1>4, <1>5, <1>6 DEF Next, Process, Uefi

\* If the UEFI answers before either wait for a line ends and every key arrives,
\* a detection leaves the cursor two entries above the start marker, where the
\* selection expects it.
THEOREM DetectionLeavesAboveMarker ==
  ASSUME {"first", "more"} \subseteq AnswersBefore, ~KeysGetLost
  PROVE  Spec => []LeavesAboveMarker
<1>1. Init => UpsInv
  BY DEF Init, UpsInv
<1>2. UpsInv => LeavesAboveMarker
  BY DEF UpsInv, LeavesAboveMarker
<1>3. TypeOK /\ CursorInv /\ UpsInv /\ [Next]_vars => UpsInv'
  BY UpsStep
<1>4. QED
  BY <1>1, <1>2, <1>3, TypeCorrect, CursorInvariant, PTL DEF Spec
=============================================================================
