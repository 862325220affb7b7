-------------------------- MODULE FirmwareUpdate_proofs --------------------------
(* Proofs about FirmwareUpdate, for every set of images, every size of the     *)
(* banks and every number of sessions.                                         *)
EXTENDS FirmwareUpdate, FiniteSetTheorems, TLAPS

\* What the update relies on: power does not go while the configuration area has
\* no header and its pages can be programmed; a host writes each sector once, and
\* the directory entry announces the length of the file or none.
Reliable ==
    /\ ~TornTable /\ ~Repeats
    /\ "table write" \notin Faults
    /\ \A i \in Images : Entries[i] \subseteq {0, Length[i]}

\* The operations of a script, counted from its end.
Left == Len(script)
At(i) == script[Left + 1 - i]

\* A script begins with the initialization, or with the records of a new table.
Starts(i) == At(i) = <<"record">> \/ (At(i) = <<"init">> /\ i = Left)

FinalAt(i) ==
    CASE i = 1  -> <<"set", "OTA">>
      [] i = 2  -> <<"clear", "NAP">>
      [] i = 3  -> <<"clear", "NAV">>
      [] i = 4  -> <<"current">>
      [] i = 5  -> <<"pending">>
      [] i = 6  -> <<"init">>
      [] i = 7  -> <<"clear", "NAI">>
      [] i = 8  -> <<"set", "NAP">>
      [] i = 9  -> <<"new">>
      [] i = 10 -> <<"set", "NAV">>
      [] OTHER  -> <<"length">>

StoreAt(i) ==
    CASE i = 1 -> At(i) = <<"store">>
      [] i = 2 -> At(i) = <<"set", "NAI">>
      [] i = 3 -> \E k \in Sectors : At(i) = <<"bank", k>>
      [] i = 4 -> At(i) = <<"check">>
      [] i = 5 -> At(i) = <<"default">>
      [] OTHER -> Starts(i)

\* What is left to do at each stage.
Shape ==
    /\ stage \in {"off", "usb", "app", "lost"} => Left = 0
    /\ stage = "boot" =>
           \A i \in 1 .. Left : IF i = 1 THEN At(i) = <<"default">> ELSE Starts(i)
    /\ stage = "button" =>
           \A i \in 1 .. Left : IF i = 1 THEN At(i) = <<"set", "USB">> ELSE Starts(i)
    /\ stage = "store" => /\ Left >= 1 /\ \A i \in 1 .. Left : StoreAt(i)
                          /\ Left > 3 => At(3) = <<"bank", 1>>
    /\ stage = "final" => Left <= 11 /\ \A i \in 1 .. Left : At(i) = FinalAt(i)

\* The state of the transfer at each stage.
Staged ==
    /\ stage \in {"off", "boot", "button", "app", "lost"} =>
           transfer = "IDLE" /\ fileLength = 0 /\ sent = {} /\ sector = 0
    /\ stage = "usb" => transfer # "START"
    /\ stage = "store" => transfer \in {"START", "ACTIVE"} /\ (transfer = "ACTIVE" => Left = 1)
    /\ stage = "final" => transfer = "FINAL"
    /\ transfer \in {"IDLE", "START"} => dataWritten = 0
    /\ transfer \in {"START", "ACTIVE", "FINAL"} => newType = For[file]
    /\ fileLength \in {0, Length[file]}

\* The copy of the table in RAM has been read.
Known ==
    \/ stage \in {"boot", "button", "store"} /\ Left > 0 /\ At(Left) # <<"init">>
    \/ stage = "final"
    \/ stage = "usb" /\ transfer \in {"ACTIVE", "FINAL"}

Active == CurrentBank

\* The new bank becomes the current one with the erase of this write.
Moving == stage = "final" /\ Left = 4 /\ page = 1

TableKnown ==
    /\ Initialized(table) => table.header \in Header /\ table.header.curr \in Banks
    /\ Known => /\ fica.header \in Header /\ fica.header.curr \in Banks
                /\ fica.header.curr = Active \/ Moving
    /\ page = 1 /\ ~Initialized(table) => fica.header.curr = "A"
    /\ page = 2 => ~Initialized(table)
    /\ page >= 3 => table.header = fica.header
    /\ page = 4 => table["A"] = fica["A"]
    /\ page # 2 /\ ( \/ stage = "final" \/ (stage = "store" /\ Left <= 5)
                     \/ (stage = "usb" /\ transfer \in {"ACTIVE", "FINAL"}) )
           => Initialized(table)

\* What is being written.
Writing ==
    page > 0 =>
        /\ Left > 0
        /\ \/ At(Left) = <<"record">>
           \/ /\ At(Left)[1] = "set" /\ At(Left)[2] \in Flags
              /\ At(Left)[2] \in fica.header.comm
           \/ /\ At(Left)[1] = "clear" /\ At(Left)[2] \in Flags
              /\ At(Left)[2] \notin fica.header.comm
           \/ At(Left) = <<"length">> /\ fica[newType] = newLength
           \/ At(Left) = <<"new">> /\ fica.header.new = newType
           \/ At(Left) = <<"current">> /\ fica.header.curr = newType

\* The bank of the new image is not the one in use.
Spare ==
    \/ stage = "store" /\ Left <= 3
    \/ stage = "usb" /\ transfer \in {"ACTIVE", "FINAL"}
    \/ stage = "final" /\ (Left > 4 \/ (Left = 4 /\ page < 2))
SpareIsNew == Spare => newType # Active

\* What the sectors of the new bank hold.
Written == {k \in Sectors : bank[newType][k] = file}
Stored ==
    /\ \/ stage = "usb" /\ transfer = "ACTIVE"
       \/ stage = "store" /\ Left <= 2
       => /\ \A k \in Sectors \ sent : bank[newType][k] = "blank"
          /\ dataWritten = Cardinality(Written)
          /\ \A k \in Written : k <= newLength
          /\ newLength # 0 => newLength \in Written
    /\ stage = "store" /\ Left <= 2 /\ sector \in Sectors => bank[newType][sector] = "blank"
    /\ stage = "store" => sector \in sent
    /\ stage = "store" /\ Left = 3 =>
           /\ \A j \in 1 .. At(3)[2] - 1 : bank[newType][j] = "blank"
           /\ newLength = 0
    /\ transfer = "ACTIVE" => fileLength = 0 \/ dataWritten < fileLength
    /\ transfer = "FINAL" => IsWhole(file, newType) /\ newLength = Length[file]

\* What the finalization has done so far.
Finalized ==
    stage = "final" =>
        /\ Left <= 10 => /\ fica[newType] = Length[file]
                         /\ page = 0 => table[newType] = Length[file]
        /\ Left <= 8 => /\ fica.header.new = newType
                        /\ page # 2 => table.header.new = newType
        /\ Left <= 3 => /\ fica.header.curr = newType
                        /\ page # 2 => table.header.curr = newType
        /\ Left <= 6 => /\ "NAI" \notin fica.header.comm
                        /\ page # 2 => "NAI" \notin table.header.comm
        /\ Left <= 2 => /\ "NAV" \notin fica.header.comm
                        /\ page # 2 => "NAV" \notin table.header.comm
        /\ Left <= 1 => /\ "NAP" \notin fica.header.comm
                        /\ page # 2 => "NAP" \notin table.header.comm
        /\ Left = 0 => "OTA" \in table.header.comm /\ page = 0

Boots == Active \in Banks /\ \E i \in Images : IsWhole(i, Active)

Inv == TypeOK /\ Shape /\ Staged /\ TableKnown /\ Writing /\ SpareIsNew /\ Stored
       /\ Finalized /\ Boots

-------------------------------------------------------------------------------
(* Scripts.                                                                    *)

\* The first operation of a script is the one furthest from its end.
LEMMA FirstIsLeft ==
    ASSUME TypeOK
    PROVE  /\ Left \in Nat
           /\ script # << >> <=> Left > 0
           /\ Left > 0 => Head(script) = At(Left) /\ At(Left) \in Operations
BY DEF TypeOK, Left, At

\* The rest of a script has the same end.
LEMMA RestOfScript ==
    ASSUME TypeOK, Left > 0, script' = Tail(script)
    PROVE  /\ Left' = Left - 1
           /\ \A i \in 1 .. Left - 1 : At(i)' = At(i)
           /\ script' \in Seq(Operations)
<1>1. /\ Len(Tail(script)) = Len(script) - 1
      /\ Tail(script) \in Seq(Operations)
      /\ \A i \in 1 .. Len(script) - 1 : Tail(script)[i] = script[i + 1]
    BY DEF TypeOK, Left
<1>2. Len(script) \in Nat
    BY DEF TypeOK
<1> QED
    BY <1>1, <1>2 DEF Left, At

\* So has one whose first operation is replaced by others.
LEMMA ReplacedFirst ==
    ASSUME TypeOK, Left > 0, NEW s \in Seq(Operations), script' = s \o Tail(script)
    PROVE  /\ Left' = Left - 1 + Len(s)
           /\ \A i \in 1 .. Left - 1 : At(i)' = At(i)
           /\ \A i \in Left .. Left' : At(i)' = s[Left' + 1 - i]
           /\ script' \in Seq(Operations)
<1>1. /\ Len(Tail(script)) = Len(script) - 1
      /\ Tail(script) \in Seq(Operations)
      /\ \A i \in 1 .. Len(script) - 1 : Tail(script)[i] = script[i + 1]
    BY DEF TypeOK, Left
<1>2. Len(script) \in Nat /\ Len(s) \in Nat
    BY DEF TypeOK
<1>3. /\ script' \in Seq(Operations)
      /\ Len(script') = Len(s) + Len(script) - 1
      /\ \A i \in 1 .. Len(s) + Len(script) - 1 :
             script'[i] = IF i <= Len(s) THEN s[i] ELSE Tail(script)[i - Len(s)]
    BY <1>1, <1>2
<1> QED
    BY <1>1, <1>2, <1>3 DEF Left, At

\* The constants, one by one.
LEMMA Sizes == BankSize \in Nat /\ BankSize >= 1 /\ Length \in [Images -> Nat \ {0}]
<1>1. BankSize \in Nat \ {0} /\ Length \in [Images -> Nat \ {0}]
    BY FirmwareAssumption, Zenon
<1> QED
    BY ONLY <1>1

\* What concatenation does.
LEMMA Concatenation ==
    ASSUME NEW s \in Seq(Operations), NEW t \in Seq(Operations)
    PROVE  /\ s \o t \in Seq(Operations) /\ Len(s \o t) = Len(s) + Len(t)
           /\ \A i \in 1 .. Len(s) + Len(t) :
                  (s \o t)[i] = IF i <= Len(s) THEN s[i] ELSE t[i - Len(s)]
OBVIOUS

\* A script that stays as it is.
LEMMA SameScript == ASSUME UNCHANGED script PROVE Left' = Left /\ \A i : At(i)' = At(i)
BY DEF Left, At

\* An empty one.
LEMMA EmptyScript == ASSUME script' = << >> PROVE Left' = 0 /\ script' \in Seq(Operations)
BY DEF Left

\* The scripts of the bootloader, from their ends.
LEMMA ScriptToBoot ==
    ASSUME script' = ToBoot
    PROVE  /\ script' \in Seq(Operations) /\ Left' = 2
           /\ At(1)' = <<"default">> /\ At(2)' = <<"init">>
BY DEF ToBoot, Left, At, Operations

LEMMA ScriptToUsb ==
    ASSUME script' = ToUsb
    PROVE  /\ script' \in Seq(Operations) /\ Left' = 2
           /\ At(1)' = <<"set", "USB">> /\ At(2)' = <<"init">>
BY DEF ToUsb, Left, At, Operations, Flags

LEMMA ScriptToStore ==
    ASSUME script' = ToStore
    PROVE  script' \in Seq(Operations) /\ Left' = 1 /\ At(1)' = <<"store">>
BY DEF ToStore, Left, At, Operations

LEMMA ScriptToStart ==
    ASSUME script' = ToStart
    PROVE  /\ script' \in Seq(Operations) /\ Left' = 6
           /\ At(1)' = <<"store">> /\ At(2)' = <<"set", "NAI">> /\ At(3)' = <<"bank", 1>>
           /\ At(4)' = <<"check">> /\ At(5)' = <<"default">> /\ At(6)' = <<"init">>
<1>1. 1 \in Sectors
    BY Sizes DEF Sectors
<1>2. /\ <<"init">> \in Operations /\ <<"default">> \in Operations
      /\ <<"check">> \in Operations /\ <<"bank", 1>> \in Operations
      /\ <<"set", "NAI">> \in Operations /\ <<"store">> \in Operations
    BY <1>1 DEF Operations, Flags
<1>3. ToStart \in Seq(Operations)
    BY <1>2 DEF ToStart
<1>4. Left' = 6
    BY DEF ToStart, Left
<1>5. /\ ToStart[1] = <<"init">> /\ ToStart[2] = <<"default">> /\ ToStart[3] = <<"check">>
      /\ ToStart[4] = <<"bank", 1>> /\ ToStart[5] = <<"set", "NAI">>
      /\ ToStart[6] = <<"store">>
    BY DEF ToStart
<1> QED
    BY <1>3, <1>4, <1>5 DEF At

LEMMA ScriptToFinalize ==
    ASSUME script' = ToFinalize \o ToActivate
    PROVE  /\ script' \in Seq(Operations) /\ Left' = 11
           /\ \A i \in 1 .. 11 : At(i)' = FinalAt(i)
<1>1. /\ <<"length">> \in Operations /\ <<"set", "NAV">> \in Operations
      /\ <<"new">> \in Operations /\ <<"set", "NAP">> \in Operations
      /\ <<"clear", "NAI">> \in Operations
      /\ <<"init">> \in Operations /\ <<"pending">> \in Operations
      /\ <<"current">> \in Operations /\ <<"clear", "NAV">> \in Operations
      /\ <<"clear", "NAP">> \in Operations /\ <<"set", "OTA">> \in Operations
    BY DEF Operations, Flags
<1>2. ToFinalize \in Seq(Operations) /\ Len(ToFinalize) = 5
    BY <1>1 DEF ToFinalize
<1>3. ToActivate \in Seq(Operations) /\ Len(ToActivate) = 6
    BY <1>1 DEF ToActivate
<1>4. /\ script' \in Seq(Operations) /\ Len(script') = 11
      /\ \A i \in 1 .. 11 : script'[i] = IF i <= 5 THEN ToFinalize[i] ELSE ToActivate[i - 5]
    <2> DEFINE s == ToFinalize
               t == ToActivate
    <2>1. s \in Seq(Operations) /\ Len(s) = 5 /\ t \in Seq(Operations) /\ Len(t) = 6
        BY <1>2, <1>3
    <2>2. script' = s \o t
        OBVIOUS
    <2> HIDE DEF s, t
    <2>3. /\ s \o t \in Seq(Operations) /\ Len(s \o t) = Len(s) + Len(t)
          /\ \A i \in 1 .. Len(s) + Len(t) :
                 (s \o t)[i] = IF i <= Len(s) THEN s[i] ELSE t[i - Len(s)]
        BY <2>1, Concatenation
    <2>4. /\ script' \in Seq(Operations) /\ Len(script') = 11
          /\ \A i \in 1 .. 11 : script'[i] = IF i <= 5 THEN s[i] ELSE t[i - 5]
        BY ONLY <2>1, <2>2, <2>3
    <2> QED
        BY <2>4 DEF s, t
<1>5. Left' = 11 /\ \A i \in 1 .. 11 : At(i)' = script'[12 - i]
    BY ONLY <1>4 DEF Left, At
<1>6. /\ At(1)' = ToActivate[6] /\ At(2)' = ToActivate[5] /\ At(3)' = ToActivate[4]
      /\ At(4)' = ToActivate[3] /\ At(5)' = ToActivate[2] /\ At(6)' = ToActivate[1]
    <2>1. /\ script'[11] = ToActivate[6] /\ script'[10] = ToActivate[5]
          /\ script'[9] = ToActivate[4] /\ script'[8] = ToActivate[3]
          /\ script'[7] = ToActivate[2] /\ script'[6] = ToActivate[1]
        BY ONLY <1>4
    <2> QED
        BY ONLY <1>5, <2>1
<1>7. /\ At(7)' = ToFinalize[5] /\ At(8)' = ToFinalize[4] /\ At(9)' = ToFinalize[3]
      /\ At(10)' = ToFinalize[2] /\ At(11)' = ToFinalize[1]
    <2>1. /\ script'[5] = ToFinalize[5] /\ script'[4] = ToFinalize[4]
          /\ script'[3] = ToFinalize[3] /\ script'[2] = ToFinalize[2]
          /\ script'[1] = ToFinalize[1]
        BY ONLY <1>4
    <2> QED
        BY ONLY <1>5, <2>1
<1>8. /\ At(1)' = FinalAt(1) /\ At(2)' = FinalAt(2) /\ At(3)' = FinalAt(3)
      /\ At(4)' = FinalAt(4) /\ At(5)' = FinalAt(5) /\ At(6)' = FinalAt(6)
    BY <1>6 DEF ToActivate, FinalAt
<1>9. /\ At(7)' = FinalAt(7) /\ At(8)' = FinalAt(8) /\ At(9)' = FinalAt(9)
      /\ At(10)' = FinalAt(10) /\ At(11)' = FinalAt(11)
    BY <1>7 DEF ToFinalize, FinalAt
<1>10. ASSUME NEW i \in 1 .. 11 PROVE At(i)' = FinalAt(i)
    <2>1. \/ i = 1 \/ i = 2 \/ i = 3 \/ i = 4 \/ i = 5 \/ i = 6
          \/ i = 7 \/ i = 8 \/ i = 9 \/ i = 10 \/ i = 11
        OBVIOUS
    <2> QED
        BY <2>1, <1>8, <1>9
<1> QED
    BY <1>4, <1>5, <1>10

-------------------------------------------------------------------------------
(* The state at each operation.                                                *)

\* Operations differ in the names of what they do.
LEMMA Names ==
    ASSUME NEW o \in Operations
    PROVE  /\ o[1] = "init" => o = <<"init">>
           /\ o[1] = "record" => o = <<"record">>
           /\ o[1] = "bank" => o[2] \in Sectors /\ o = <<"bank", o[2]>>
           /\ o[1] \in {"set", "clear"} => o[2] \in Flags
BY DEF Operations

\* What a script of each stage begins with.
LEMMA Where ==
    ASSUME TypeOK, Shape, Left > 0
    PROVE  LET o == At(Left) IN
           \/ stage = "boot" /\ Left = 1 /\ o = <<"default">>
           \/ stage = "button" /\ Left = 1 /\ o = <<"set", "USB">>
           \/ stage \in {"boot", "button"} /\ Left > 1 /\ o \in {<<"init">>, <<"record">>}
           \/ stage = "store" /\ \/ Left = 1 /\ o = <<"store">>
                                 \/ Left = 2 /\ o = <<"set", "NAI">>
                                 \/ Left = 3 /\ \E k \in Sectors : o = <<"bank", k>>
                                 \/ Left = 4 /\ o = <<"check">>
                                 \/ Left = 5 /\ o = <<"default">>
                                 \/ Left > 5 /\ o \in {<<"init">>, <<"record">>}
           \/ stage = "final" /\ \/ Left = 1 /\ o = <<"set", "OTA">>
                                 \/ Left = 2 /\ o = <<"clear", "NAP">>
                                 \/ Left = 3 /\ o = <<"clear", "NAV">>
                                 \/ Left = 4 /\ o = <<"current">>
                                 \/ Left = 5 /\ o = <<"pending">>
                                 \/ Left = 6 /\ o = <<"init">>
                                 \/ Left = 7 /\ o = <<"clear", "NAI">>
                                 \/ Left = 8 /\ o = <<"set", "NAP">>
                                 \/ Left = 9 /\ o = <<"new">>
                                 \/ Left = 10 /\ o = <<"set", "NAV">>
                                 \/ Left = 11 /\ o = <<"length">>
<1> Left \in Nat
    BY FirstIsLeft
<1> stage \in {"boot", "button", "store", "final"}
    BY DEF TypeOK, Shape
<1>1. CASE stage \in {"boot", "button"}
    BY <1>1 DEF Shape, Starts
<1>2. CASE stage = "store"
    <2>1. StoreAt(Left)
        BY <1>2 DEF Shape
    <2>2. \/ Left = 1 \/ Left = 2 \/ Left = 3 \/ Left = 4 \/ Left = 5 \/ Left > 5
        OBVIOUS
    <2> QED
        BY <1>2, <2>1, <2>2 DEF StoreAt, Starts
<1>3. CASE stage = "final"
    <2>1. At(Left) = FinalAt(Left) /\ Left <= 11
        BY <1>3 DEF Shape
    <2>2. \/ Left = 1 \/ Left = 2 \/ Left = 3 \/ Left = 4 \/ Left = 5 \/ Left = 6
          \/ Left = 7 \/ Left = 8 \/ Left = 9 \/ Left = 10 \/ Left = 11
        BY <2>1
    <2> QED
        BY <1>3, <2>1, <2>2 DEF FinalAt
<1> QED
    BY <1>1, <1>2, <1>3

\* The stages and the rest of the script, for every operation.
LEMMA Whereabouts ==
    ASSUME TypeOK, Shape, Left > 0
    PROVE  LET o == At(Left) IN
           /\ stage \in {"boot", "button", "store", "final"}
           /\ o[1] = "init" =>
                 \/ stage \in {"boot", "button"} /\ Left > 1
                 \/ stage = "store" /\ Left > 5
                 \/ stage = "final" /\ Left = 6
           /\ o[1] = "record" =>
                 \/ stage \in {"boot", "button"} /\ Left > 1
                 \/ stage = "store" /\ Left > 5
           /\ o[1] = "default" =>
                 \/ stage = "boot" /\ Left = 1
                 \/ stage = "store" /\ Left = 5
           /\ o[1] = "check" => stage = "store" /\ Left = 4
           /\ o[1] = "bank" => stage = "store" /\ Left = 3
           /\ o[1] = "set" =>
                 \/ stage = "button" /\ Left = 1 /\ o[2] = "USB"
                 \/ stage = "store" /\ Left = 2 /\ o[2] = "NAI"
                 \/ stage = "final" /\ Left = 10 /\ o[2] = "NAV"
                 \/ stage = "final" /\ Left = 8 /\ o[2] = "NAP"
                 \/ stage = "final" /\ Left = 1 /\ o[2] = "OTA"
           /\ o[1] = "clear" =>
                 \/ stage = "final" /\ Left = 7 /\ o[2] = "NAI"
                 \/ stage = "final" /\ Left = 3 /\ o[2] = "NAV"
                 \/ stage = "final" /\ Left = 2 /\ o[2] = "NAP"
           /\ o[1] = "store" => stage = "store" /\ Left = 1
           /\ o[1] = "length" => stage = "final" /\ Left = 11
           /\ o[1] = "new" => stage = "final" /\ Left = 9
           /\ o[1] = "pending" => stage = "final" /\ Left = 5
           /\ o[1] = "current" => stage = "final" /\ Left = 4
<1> Left \in Nat
    BY FirstIsLeft
<1> DEFINE o == At(Left)
<1>1. stage \in {"boot", "button", "store", "final"}
    BY Where
<1>2. o[1] = "init" =>
         \/ stage \in {"boot", "button"} /\ Left > 1
         \/ stage = "store" /\ Left > 5
         \/ stage = "final" /\ Left = 6
    BY Where
<1>3. o[1] = "record" =>
         \/ stage \in {"boot", "button"} /\ Left > 1
         \/ stage = "store" /\ Left > 5
    BY Where
<1>4. o[1] = "default" =>
         \/ stage = "boot" /\ Left = 1
         \/ stage = "store" /\ Left = 5
    BY Where
<1>5. o[1] = "check" => stage = "store" /\ Left = 4
    BY Where
<1>6. o[1] = "bank" => stage = "store" /\ Left = 3
    BY Where
<1>7. o[1] = "set" =>
         \/ stage = "button" /\ Left = 1 /\ o[2] = "USB"
         \/ stage = "store" /\ Left = 2 /\ o[2] = "NAI"
         \/ stage = "final" /\ Left = 10 /\ o[2] = "NAV"
         \/ stage = "final" /\ Left = 8 /\ o[2] = "NAP"
         \/ stage = "final" /\ Left = 1 /\ o[2] = "OTA"
    BY Where
<1>8. o[1] = "clear" =>
         \/ stage = "final" /\ Left = 7 /\ o[2] = "NAI"
         \/ stage = "final" /\ Left = 3 /\ o[2] = "NAV"
         \/ stage = "final" /\ Left = 2 /\ o[2] = "NAP"
    BY Where
<1>9. o[1] = "store" => stage = "store" /\ Left = 1
    BY Where
<1>10. o[1] = "length" => stage = "final" /\ Left = 11
    BY Where
<1>11. o[1] = "new" => stage = "final" /\ Left = 9
    BY Where
<1>12. o[1] = "pending" => stage = "final" /\ Left = 5
    BY Where
<1>13. o[1] = "current" => stage = "final" /\ Left = 4
    BY Where
<1> QED
    BY <1>1, <1>2, <1>3, <1>4, <1>5, <1>6, <1>7, <1>8, <1>9, <1>10, <1>11, <1>12, <1>13

-------------------------------------------------------------------------------
(* What several actions have in common.                                        *)

\* A bank that is not written holds what it held.
LEMMA SameBank ==
    ASSUME NEW b, bank'[b] = bank[b]
    PROVE  (\A i : IsWhole(i, b)' <=> IsWhole(i, b)) /\ ImageIn(b)' = ImageIn(b)
<1>1. \A i : IsWhole(i, b)' <=> IsWhole(i, b)
    BY DEF IsWhole
<1> QED
    BY <1>1 DEF ImageIn

LEMMA SameBoots ==
    ASSUME Boots, Active' = Active, bank'[Active] = bank[Active]
    PROVE  Boots'
BY DEF Boots, IsWhole

\* The table stays, and nothing is being written to it.
LEMMA ActiveStays ==
    ASSUME TableKnown, UNCHANGED table, page' = 0, page \in {0, 1} \/ Initialized(table)
    PROVE  Active' = Active
BY DEF Active, CurrentBank, TableKnown, Initialized

\* A script that is begun or over: nothing is being written.
LEMMA NotWriting == ASSUME Inv, Left = 0 PROVE page = 0
BY DEF Inv, TypeOK, Writing

\* The table as a value.
IsTable(t) ==
    /\ DOMAIN t = {"header", "A", "B"}
    /\ t.header \in Header \cup {Erased}
    /\ \A b \in Banks : t[b] \in 0 .. BankSize \cup {Erased}

LEMMA TableTypes == ASSUME TypeOK PROVE IsTable(table) /\ IsTable(fica)
BY DEF TypeOK, IsTable

\* The file is for one of the banks.
LEMMA FileBank == ASSUME TypeOK PROVE file \in Images /\ For[file] \in Banks
<1>1. For \in [Images -> Banks]
    BY FirmwareAssumption, Zenon
<1> QED
    BY <1>1 DEF TypeOK

LEMMA Symbols == ASSUME TypeOK PROVE file \notin {"blank", "torn"}
<1>1. {"blank", "torn"} \cap Images = {}
    BY FirmwareAssumption, Zenon
<1> QED
    BY <1>1 DEF TypeOK

LEMMA HeaderInitialized == ASSUME NEW t, t.header \in Header PROVE Initialized(t)
<1>1. Erased \notin Header
    BY FirmwareAssumption, Zenon DEF Header, Flags, Banks
<1> QED
    BY <1>1 DEF Initialized

LEMMA FailKeeps ==
    ASSUME Inv, Left > 0, page \in {0, 1}, Fail,
           UNCHANGED <<table, file, sent, sector, fileLength, dataWritten, newType,
                       sessions>>,
           newLength' \in 0 .. BankSize, IsTable(fica)',
           bank' \in [Banks -> [Sectors -> Images \cup {"blank", "torn"}]],
           bank'[Active] = bank[Active]
    PROVE  Inv'
<1> USE DEF Inv
<1>1. stage \in {"boot", "button", "store", "final"} /\ Left \in Nat
    BY Whereabouts, FirstIsLeft
<1>2. Left' = 0 /\ script' = << >> /\ page' = 0 /\ script' \in Seq(Operations)
    BY EmptyScript DEF Fail
<1>3. /\ stage = "boot" => stage' = "off" /\ transfer' = transfer
      /\ stage = "button" => stage' = "button" /\ transfer' = transfer
      /\ stage \in {"store", "final"} => stage' = "usb" /\ transfer' = "ERROR"
    BY DEF Fail
<1>4. Active' = Active
    BY <1>2, ActiveStays
<1>5. TypeOK'
    BY <1>1, <1>2, <1>3, TableTypes DEF TypeOK, IsTable
<1>6. Shape'
    BY <1>1, <1>2, <1>3 DEF Shape
<1>7. Staged'
    BY <1>1, <1>2, <1>3 DEF Staged
<1>8. TableKnown'
    BY <1>1, <1>2, <1>3, <1>4 DEF TableKnown, Known, Staged, Initialized
<1>9. Writing' /\ SpareIsNew' /\ Finalized'
    BY <1>1, <1>2, <1>3 DEF Writing, SpareIsNew, Spare, Finalized, Staged
<1>10. Stored'
    BY <1>1, <1>2, <1>3 DEF Stored, Staged
<1>11. Boots'
    BY <1>4, SameBoots
<1> QED
    BY <1>5, <1>6, <1>7, <1>8, <1>9, <1>10, <1>11

\* What is written is the table with one change.
LEMMA WriteKeeps ==
    ASSUME Inv, Left > 0, page = 0, NEW t, WriteTable(t), UNCHANGED <<bank, table, session>>,
           IsTable(t),
           Known => /\ t.header \in Header /\ t.header.curr \in Banks
                    /\ t.header.curr = Active \/ (stage = "final" /\ Left = 4),
           ~Initialized(table) => t.header.curr = "A",
           Writing', Finalized'
    PROVE  Inv'
<1> USE DEF Inv
<1>1. /\ page' = 1 /\ fica' = t
      /\ UNCHANGED <<bank, table, stage, script, transfer, file, sent, sector, fileLength,
                     dataWritten, newType, newLength, sessions>>
    BY DEF WriteTable, session, host
<1>2. Left' = Left /\ \A i : At(i)' = At(i)
    BY <1>1, SameScript
<1>3. TypeOK'
    BY <1>1 DEF TypeOK, IsTable
<1>4. Shape'
    BY <1>1, <1>2 DEF Shape, Starts, StoreAt, FinalAt
<1>5. Staged'
    BY <1>1, <1>2 DEF Staged
<1>6. Active' = Active
    BY <1>1 DEF Active, CurrentBank, Initialized
<1>7. TableKnown'
    BY <1>1, <1>2, <1>6 DEF TableKnown, Known, Moving, Initialized
<1>8. SpareIsNew'
    BY <1>1, <1>2, <1>6 DEF SpareIsNew, Spare
<1>9. Stored'
    BY <1>1, <1>2 DEF Stored, Written, IsWhole
<1>10. Boots'
    BY <1>1, <1>6, SameBoots
<1> QED
    BY <1>3, <1>4, <1>5, <1>7, <1>8, <1>9, <1>10

\* One operation less.
LEMMA DoneShape ==
    ASSUME TypeOK, Shape, Staged, Left > 0, Done, stage = "store" => Left > 1,
           UNCHANGED <<file, sent, sector, fileLength, dataWritten, newType>>
    PROVE  /\ Shape' /\ Staged'
           /\ Left' = Left - 1 /\ UNCHANGED <<stage, transfer>>
           /\ \A i \in 1 .. Left - 1 : At(i)' = At(i)
           /\ script' \in Seq(Operations)
<1>1. /\ Left' = Left - 1 /\ UNCHANGED <<stage, transfer>>
      /\ \A i \in 1 .. Left - 1 : At(i)' = At(i)
      /\ script' \in Seq(Operations) /\ Left \in Nat
    BY RestOfScript, FirstIsLeft DEF Done
<1>2. Staged'
    BY <1>1 DEF Staged
<1>3. stage \in {"boot", "button", "store", "final"}
    BY Whereabouts
<1>4. \A i \in 1 .. Left' : i \in 1 .. Left /\ i \in 1 .. Left - 1 /\ i # Left
    BY <1>1
<1>5. \A i \in 1 .. Left' : Starts(i) => Starts(i)'
    BY <1>1, <1>4 DEF Starts
<1>6. \A i \in 1 .. Left' : StoreAt(i) => StoreAt(i)'
    BY <1>1, <1>4, <1>5 DEF StoreAt
<1>7. Shape'
    <2>1. CASE stage \in {"boot", "button"}
        BY <1>1, <1>4, <1>5, <2>1 DEF Shape
    <2>2. CASE stage = "store"
        BY <1>1, <1>4, <1>6, <2>2 DEF Shape
    <2>3. CASE stage = "final"
        BY <1>1, <1>4, <2>3 DEF Shape, FinalAt
    <2> QED
        BY <1>3, <2>1, <2>2, <2>3
<1> QED
    BY <1>1, <1>2, <1>7

-------------------------------------------------------------------------------
(* Writing the table.                                                          *)

\* While the table is written its new contents are known.
LEMMA WritingKnown ==
    ASSUME Inv, page > 0
    PROVE  /\ Left > 0 /\ Left \in Nat /\ Known
           /\ fica.header \in Header /\ fica.header.curr \in Banks
           /\ stage = "button" => Left >= 1
           /\ stage = "store" => Left = 2 \/ Left > 5
           /\ stage = "boot" => Left > 1
           /\ stage = "final" => Left \notin {5, 6}
<1> USE DEF Inv
<1>1. Left > 0 /\ Left \in Nat
    BY FirstIsLeft DEF Writing
<1>2. At(Left)[1] \in {"record", "set", "clear", "length", "new", "current"}
    BY DEF Writing
<1>3. Known
    BY <1>1, <1>2, Whereabouts DEF Known
<1>4. /\ stage = "store" => Left = 2 \/ Left > 5
      /\ stage = "boot" => Left > 1
      /\ stage = "final" => Left \notin {5, 6}
    BY <1>1, <1>2, Where
<1> QED
    BY <1>1, <1>3, <1>4 DEF TableKnown

\* The banks change places in this step or not at all.
LEMMA EraseTableKeeps ==
    ASSUME Inv, EraseTable
    PROVE  /\ Inv' /\ bank' = bank
           /\ \/ Active' = Active
              \/ stage = "final" /\ Left = 4 /\ page = 1 /\ Active' = newType
<1> USE DEF Inv
<1>0. page = 1
    BY DEF EraseTable
<1>1. page = 1 /\ Left > 0 /\ Left \in Nat /\ Known
    BY <1>0, WritingKnown
<1>2. CASE "table erase" \in Faults /\ Fail /\ UNCHANGED table
    <2>1. Inv' /\ bank' = bank
        BY <1>1, <1>2, FailKeeps, TableTypes DEF EraseTable, host, TypeOK, IsTable
    <2>2. Active' = Active
        BY <1>1, <1>2, ActiveStays DEF Fail
    <2> QED
        BY <2>1, <2>2
<1>3. CASE /\ table' = [p \in DOMAIN table |-> Erased]
           /\ page' = 2
           /\ UNCHANGED <<stage, script, transfer>>
    <2>1. UNCHANGED <<bank, fica, stage, script, transfer, file, sent, sector, fileLength,
                      dataWritten, newType, newLength, sessions>>
        BY <1>3 DEF EraseTable, host
    <2>2. Left' = Left /\ \A i : At(i)' = At(i)
        BY <2>1, SameScript
    <2>3. /\ DOMAIN table' = {"header", "A", "B"} /\ table'.header = Erased
          /\ table'["A"] = Erased /\ table'["B"] = Erased
        BY <1>3 DEF TypeOK
    <2>4. ~Initialized(table)' /\ ~Initialized(table')
        BY <2>3 DEF Initialized
    <2>5. Active' = fica.header.curr
        BY <2>1, <2>4, <1>3 DEF Active, CurrentBank
    <2>6. IF stage = "final" /\ Left = 4 THEN Active' = newType ELSE Active' = Active
        <3>1. CASE stage = "final" /\ Left = 4
            <4>1. At(Left) = <<"current">>
                BY <1>1, <3>1, Where
            <4>2. fica.header.curr = newType
                BY <1>1, <4>1 DEF Writing
            <4> QED
                BY <2>5, <3>1, <4>2
        <3>2. CASE ~(stage = "final" /\ Left = 4)
            BY <1>1, <2>5, <3>2 DEF TableKnown, Moving
        <3> QED
            BY <3>1, <3>2
    <2>7. TypeOK'
        BY <1>3, <2>1, <2>3 DEF TypeOK, Banks
    <2>8. Shape' /\ Staged'
        BY <2>1, <2>2 DEF Shape, Starts, StoreAt, FinalAt, Staged
    <2>9. TableKnown'
        BY <1>1, <1>3, <2>1, <2>2, <2>4, <2>5, WritingKnown DEF TableKnown
    <2>10. Writing'
        BY <1>1, <1>3, <2>1, <2>2 DEF Writing
    <2>11. SpareIsNew'
        BY <1>1, <1>3, <2>1, <2>2, <2>6 DEF SpareIsNew, Spare
    <2>12. Stored'
        BY <2>1, <2>2 DEF Stored, Written, IsWhole
    <2>13. Finalized'
        BY <1>1, <1>3, <2>1, <2>2 DEF Finalized
    <2>14. Boots'
        <3>1. CASE stage = "final" /\ Left = 4
            <4>1. Active' = newType /\ newType \in Banks
                BY <1>1, <2>5, <2>6, <3>1, WritingKnown
            <4>2. IsWhole(file, newType) /\ file \in Images
                BY <3>1 DEF Stored, Staged, TypeOK
            <4>3. IsWhole(file, newType)'
                BY <2>1, <4>2 DEF IsWhole
            <4>4. IsWhole(file, Active)'
                BY <2>1, <4>1, <4>3 DEF IsWhole
            <4> QED
                BY <2>1, <4>1, <4>2, <4>4 DEF Boots
        <3>2. CASE ~(stage = "final" /\ Left = 4)
            BY <2>1, <2>6, <3>2, SameBoots
        <3> QED
            BY <3>1, <3>2
    <2> QED
        BY <1>1, <2>1, <2>6, <2>7, <2>8, <2>9, <2>10, <2>11, <2>12, <2>13, <2>14
<1> QED
    BY <1>2, <1>3 DEF EraseTable

\* The header is programmed first, and is what the erase left to be written.
LEMMA ProgramPageKeeps ==
    ASSUME Inv, Reliable, ProgramPage
    PROVE  Inv' /\ bank' = bank /\ Active' = Active
<1> USE DEF Inv
<1>0. page \in {2, 3, 4}
    <2>1. page > 1
        BY DEF ProgramPage
    <2>2. page \in 0 .. 4
        BY DEF TypeOK
    <2> QED
        BY ONLY <2>1, <2>2
<1>1. page \in {2, 3, 4} /\ Left > 0 /\ Left \in Nat /\ Known
    BY <1>0, WritingKnown
<1>2. /\ table' = [table EXCEPT ![Pages[page - 1]] = fica[Pages[page - 1]]]
      /\ page' = (page + 1) % 5
      /\ IF page = 4 THEN Done ELSE UNCHANGED <<stage, script, transfer>>
      /\ UNCHANGED <<bank, fica, stage, transfer, file, sent, sector, fileLength,
                     dataWritten, newType, newLength, sessions>>
    BY DEF ProgramPage, Reliable, Done, host
<1>3. /\ DOMAIN table' = {"header", "A", "B"}
      /\ page = 2 => /\ table'.header = fica.header /\ table'["A"] = table["A"]
                     /\ table'["B"] = table["B"] /\ page' = 3
      /\ page = 3 => /\ table'.header = table.header /\ table'["A"] = fica["A"]
                     /\ table'["B"] = table["B"] /\ page' = 4
      /\ page = 4 => /\ table'.header = table.header /\ table'["A"] = table["A"]
                     /\ table'["B"] = fica["B"] /\ page' = 0
    BY <1>1, <1>2 DEF TypeOK, Pages
<1>4. table'.header = fica.header /\ Initialized(table') /\ Initialized(table)'
    BY <1>1, <1>3, HeaderInitialized, WritingKnown DEF TableKnown, Initialized
<1>5. Active' = fica.header.curr /\ Active' = Active
    <2>1. page > 2 => Initialized(table)
        BY <1>1, HeaderInitialized, WritingKnown DEF TableKnown
    <2> QED
        BY <1>1, <1>2, <1>3, <1>4, <2>1 DEF Active, CurrentBank, TableKnown
<1>6. Boots'
    BY <1>2, <1>5, SameBoots
<1>7. IsTable(table')
    BY <1>1, <1>3, <1>4, TableTypes, WritingKnown DEF IsTable, Banks
<1>8. CASE page # 4
    <2>1. Left' = Left /\ \A i : At(i)' = At(i)
        BY <1>2, <1>8, SameScript
    <2>2. page' \in {3, 4} /\ page' \in 0 .. 4 /\ (page' = 4 => page = 3) /\ script' = script
        BY <1>1, <1>2, <1>3, <1>8
    <2>3. TypeOK'
        BY <1>2, <1>7, <2>2 DEF TypeOK, IsTable
    <2>4. Shape' /\ Staged'
        BY <1>2, <2>1 DEF Shape, Starts, StoreAt, FinalAt, Staged
    <2>5. TableKnown'
        <3>1. fica.header \in Header /\ fica.header.curr \in Banks
            BY <1>1, WritingKnown
        <3>2. page = 3 => table["A"]' = fica["A"]'
            BY <1>2, <1>3
        <3>3. page' # 1 /\ page' # 2 /\ (page' = 4 => page = 3)
            BY <2>2
        <3>4. table.header' = fica.header /\ fica.header' = fica.header
            BY <1>2, <1>4
        <3> QED
            BY <1>2, <1>4, <1>5, <3>1, <3>2, <3>3, <3>4 DEF TableKnown
    <2>6. Writing'
        BY <1>1, <1>2, <2>1 DEF Writing
    <2>7. SpareIsNew'
        BY <1>1, <1>2, <1>5, <2>1, <2>2 DEF SpareIsNew, Spare
    <2>8. Stored'
        BY <1>2, <2>1 DEF Stored, Written, IsWhole
    <2>9. Finalized'
        BY <1>1, <1>2, <1>4, <2>1, <2>2 DEF Finalized
    <2> QED
        BY <1>2, <1>5, <1>6, <2>3, <2>4, <2>5, <2>6, <2>7, <2>8, <2>9
<1>9. CASE page = 4
    <2>1. stage = "store" => Left > 1
        BY <1>1, WritingKnown
    <2>2. /\ Shape' /\ Staged' /\ Left' = Left - 1 /\ script' \in Seq(Operations)
          /\ \A i \in 1 .. Left - 1 : At(i)' = At(i)
        BY <1>1, <1>2, <1>9, <2>1, DoneShape
    <2>3. page' = 0 /\ 0 \in 0 .. 4
        BY <1>3, <1>9
    <2>4. TypeOK'
        BY <1>2, <1>7, <2>2, <2>3 DEF TypeOK, IsTable
    <2>5. TableKnown'
        <3>1. fica.header \in Header /\ fica.header.curr \in Banks
            BY <1>1, WritingKnown
        <3>2. table.header' = fica.header /\ fica.header' = fica.header
            BY <1>2, <1>4
        <3> QED
            <4>1. (Initialized(table) => table.header \in Header /\ table.header.curr \in Banks)'
                BY <3>1, <3>2
            <4>2. (Known => /\ fica.header \in Header /\ fica.header.curr \in Banks
                            /\ fica.header.curr = Active \/ Moving)'
                BY <3>1, <3>2, <1>5
            <4>3. ~(page = 1)' /\ ~(page = 2)' /\ ~(page >= 3)' /\ ~(page = 4)'
                BY ONLY <2>3
            <4> QED
                BY ONLY <4>1, <4>2, <4>3, <1>4 DEF TableKnown
    <2>6. Writing'
        BY <2>3 DEF Writing
    <2>7. SpareIsNew'
        BY <1>1, <1>2, <1>5, <1>9, <2>2, <2>3, WritingKnown DEF SpareIsNew, Spare
    <2>8. Stored'
        BY <1>1, <1>2, <2>2, WritingKnown DEF Stored, Written, IsWhole, Staged
    <2>9. Finalized'
        <3> SUFFICES ASSUME stage = "final" PROVE Finalized'
            BY <1>2 DEF Finalized
        <3>1. /\ fica' = fica /\ newType' = newType /\ file' = file
              /\ table'.header = fica.header /\ page' = 0 /\ Left' = Left - 1
            BY <1>2, <1>4, <2>2, <2>3
        <3>2. newType \in Banks /\ table'[newType] = fica[newType]
            BY <1>3, <1>9, FileBank DEF TableKnown, Staged, Banks
        <3>3. /\ IsWhole(file, newType) /\ newLength = Length[file]
            BY DEF Stored, Staged
        <3>4. /\ Left = 11 => fica[newType] = newLength
              /\ Left = 9 => fica.header.new = newType
              /\ Left = 7 => "NAI" \notin fica.header.comm
              /\ Left = 4 => fica.header.curr = newType
              /\ Left = 3 => "NAV" \notin fica.header.comm
              /\ Left = 2 => "NAP" \notin fica.header.comm
              /\ Left = 1 => "OTA" \in fica.header.comm
            BY <1>1, Where DEF Writing
        <3>5. Left \in {1, 2, 3, 4, 7, 8, 9, 10, 11}
            BY <1>1, WritingKnown DEF Shape
        <3> QED
            BY <3>1, <3>2, <3>3, <3>4, <3>5, <1>1 DEF Finalized
    <2> QED
        BY <1>2, <1>5, <1>6, <2>2, <2>4, <2>5, <2>6, <2>7, <2>8, <2>9
<1> QED
    BY <1>8, <1>9

-------------------------------------------------------------------------------
(* The operations of the configuration area.                                   *)

LEMMA DoingIs ==
    ASSUME TypeOK, NEW what, Doing(what)
    PROVE  /\ Left > 0 /\ Left \in Nat /\ page = 0 /\ At(Left)[1] = what
           /\ Head(script) = At(Left) /\ At(Left) \in Operations
BY FirstIsLeft DEF Doing

\* An operation that is over without a write.
LEMMA DoneKeeps ==
    ASSUME Inv, Left > 0, page = 0, page' = 0, Done, stage = "store" => Left > 1,
           UNCHANGED <<bank, table, file, sent, sector, fileLength, dataWritten, newType,
                       sessions>>,
           newLength' \in 0 .. BankSize, IsTable(fica)',
           Known' => /\ fica'.header \in Header /\ fica'.header.curr \in Banks
                     /\ fica'.header.curr = Active,
           stage = "store" /\ Left <= 6 => Initialized(table),
           SpareIsNew', Stored', Finalized'
    PROVE  Inv'
<1> USE DEF Inv
<1>1. /\ Shape' /\ Staged' /\ Left' = Left - 1 /\ UNCHANGED <<stage, transfer>>
      /\ script' \in Seq(Operations) /\ Left \in Nat
    BY DoneShape, FirstIsLeft
<1>2. Active' = Active
    BY ActiveStays
<1>3. TypeOK'
    BY <1>1 DEF TypeOK, IsTable
<1>4. TableKnown'
    <2>1. (Initialized(table) => table.header \in Header /\ table.header.curr \in Banks)'
        BY DEF TableKnown, Initialized
    <2>2. (Known => /\ fica.header \in Header /\ fica.header.curr \in Banks
                    /\ fica.header.curr = Active \/ Moving)'
        BY <1>2
    <2>3. ~(page = 1)' /\ ~(page = 2)' /\ ~(page >= 3)' /\ ~(page = 4)'
        OBVIOUS
    <2>4. (( \/ stage = "final" \/ (stage = "store" /\ Left <= 5)
             \/ (stage = "usb" /\ transfer \in {"ACTIVE", "FINAL"}) )
              => Initialized(table))'
        BY <1>1 DEF TableKnown, Initialized
    <2> QED
        BY ONLY <2>1, <2>2, <2>3, <2>4 DEF TableKnown
<1>5. Writing'
    BY DEF Writing
<1>6. Boots'
    BY <1>2, SameBoots
<1> QED
    BY <1>1, <1>3, <1>4, <1>5, <1>6

LEMMA FreshTable == IsTable(Fresh) /\ Fresh.header \in Header /\ Fresh.header.curr = "A"
<1>1. Fresh.header \in Header /\ Fresh.header.curr = "A"
    BY DEF Fresh, Header, Flags, Banks
<1>2. \A b \in Banks : Fresh[b] = 0
    BY DEF Fresh, Banks
<1> QED
    BY <1>1, <1>2, Sizes DEF IsTable, Fresh

LEMMA InitializeKeeps == ASSUME Inv, Initialize PROVE Inv'
<1> USE DEF Inv
<1>0. Doing("init")
    BY DEF Initialize
<1>1. /\ Left > 0 /\ Left \in Nat /\ page = 0 /\ At(Left)[1] = "init"
      /\ At(Left) = <<"init">>
    BY <1>0, DoingIs, Names
<1>2. \/ stage \in {"boot", "button"} /\ Left > 1
      \/ stage = "store" /\ Left > 5
      \/ stage = "final" /\ Left = 6
    BY <1>1, Whereabouts
<1>3. UNCHANGED <<bank, file, sent, sector, fileLength, dataWritten, newType, newLength,
                  sessions>>
    BY DEF Initialize, session, host
<1>4. CASE Initialized(table)
    <2>1. fica' = table /\ Done /\ UNCHANGED <<table, page>>
        BY <1>4 DEF Initialize
    <2>2. Left' = Left - 1 /\ UNCHANGED <<stage, transfer>>
        BY <1>1, <1>2, <2>1, <1>3, DoneShape
    <2>3. Active = table.header.curr /\ Active' = Active
        BY <1>1, <1>4, <2>1, ActiveStays DEF Active, CurrentBank
    <2>4. SpareIsNew' /\ Stored'
        BY <1>1, <1>2, <1>3, <2>1, <2>2, <2>3
           DEF SpareIsNew, Spare, Stored, Written, IsWhole, Staged
    <2>5. Finalized'
        BY <1>1, <1>2, <1>3, <2>1, <2>2 DEF Finalized
    <2>6. table.header \in Header /\ table.header.curr \in Banks /\ IsTable(fica)'
        BY <1>4, <2>1, TableTypes DEF TableKnown, IsTable
    <2>7. newLength' \in 0 .. BankSize /\ page' = 0 /\ (stage = "store" => Left > 1)
        BY <1>1, <1>2, <1>3, <2>1 DEF TypeOK
    <2>8. fica'.header \in Header /\ fica'.header.curr \in Banks /\ fica'.header.curr = Active
        BY <2>1, <2>3, <2>6
    <2> QED
        BY <1>1, <1>3, <1>4, <2>1, <2>4, <2>5, <2>6, <2>7, <2>8, DoneKeeps
<1>5. CASE ~Initialized(table)
    <2>1. CASE "table erase" \in Faults /\ Fail /\ UNCHANGED <<table, fica>>
        BY <1>1, <1>3, <2>1, FailKeeps, TableTypes DEF TypeOK, IsTable
    <2>2. CASE /\ fica' = Fresh
               /\ table' = [p \in DOMAIN table |-> Erased]
               /\ script' = << <<"record">>, <<"record">>, <<"record">> >> \o Tail(script)
               /\ UNCHANGED <<stage, transfer, page>>
        <3>1. stage \in {"boot", "button", "store"}
            BY <1>1, <1>2, <1>5 DEF TableKnown
        <3>2. /\ DOMAIN table' = {"header", "A", "B"} /\ table'.header = Erased
              /\ table'["A"] = Erased /\ table'["B"] = Erased /\ ~Initialized(table)'
            BY <2>2 DEF TypeOK, Initialized
        <3>3. Active = "A" /\ Active' = "A"
            BY <1>1, <1>5, <2>2, <3>2 DEF Active, CurrentBank
        <3>4. << <<"record">>, <<"record">>, <<"record">> >> \in Seq(Operations)
            BY DEF Operations
        <3>5. /\ script' \in Seq(Operations) /\ Left' = Left + 2
              /\ \A i \in 1 .. Left - 1 : At(i)' = At(i)
              /\ \A i \in Left .. Left' : At(i)' = <<"record">>
            <4> DEFINE s == << <<"record">>, <<"record">>, <<"record">> >>
            <4>1. s \in Seq(Operations) /\ Len(s) = 3 /\ script' = s \o Tail(script)
                BY <3>4, <2>2
            <4>2. s[1] = <<"record">> /\ s[2] = <<"record">> /\ s[3] = <<"record">>
                OBVIOUS
            <4> HIDE DEF s
            <4>3. /\ Left' = Left - 1 + Len(s)
                  /\ \A i \in 1 .. Left - 1 : At(i)' = At(i)
                  /\ \A i \in Left .. Left' : At(i)' = s[Left' + 1 - i]
                  /\ script' \in Seq(Operations)
                BY <1>1, <4>1, ReplacedFirst
            <4>4. Left' = Left + 2
                BY <1>1, <4>1, <4>3
            <4>5. ASSUME NEW i \in Left .. Left' PROVE At(i)' = <<"record">>
                <5>1. Left' + 1 - i \in {1, 2, 3}
                    BY <1>1, <4>4
                <5> QED
                    BY <4>2, <4>3, <5>1
            <4> QED
                BY <4>3, <4>4, <4>5
        <3>6. \A i \in 1 .. Left' : \/ i \in 1 .. Left - 1 /\ i \in 1 .. Left /\ i # Left
                                    \/ i \in Left .. Left' /\ i >= Left
            BY <1>1, <3>5
        <3>7. \A i \in 1 .. Left' : i \in 1 .. Left - 1 /\ Starts(i) => Starts(i)'
            BY <3>5, <3>6 DEF Starts
        <3>8. \A i \in 1 .. Left' : i \in 1 .. Left - 1 /\ StoreAt(i) => StoreAt(i)'
            BY <3>5, <3>6, <3>7 DEF StoreAt
        <3>9. \A i \in Left .. Left' : Starts(i)'
            BY <3>5 DEF Starts
        <3>10. Shape'
            <4>1. CASE stage \in {"boot", "button"}
                BY <1>1, <1>2, <2>2, <3>5, <3>6, <3>7, <3>9, <4>1 DEF Shape
            <4>2. CASE stage = "store"
                <5>1. Left > 5
                    BY <1>2, <4>2
                <5>2. \A i \in Left .. Left' : StoreAt(i)'
                    BY <1>1, <3>9, <5>1 DEF StoreAt
                <5> QED
                    BY <1>1, <2>2, <3>5, <3>6, <3>8, <4>2, <5>1, <5>2 DEF Shape
            <4> QED
                BY <3>1, <4>1, <4>2
        <3>11. Staged'
            BY <1>1, <1>2, <1>3, <2>2, <3>5 DEF Staged
        <3>12. TypeOK'
            BY <1>1, <1>3, <2>2, <3>2, <3>5, FreshTable DEF TypeOK, IsTable, Banks
        <3>13. TableKnown'
            BY <1>1, <1>2, <2>2, <3>1, <3>2, <3>3, <3>5, FreshTable DEF TableKnown, Banks
        <3>14. Writing' /\ SpareIsNew' /\ Stored' /\ Finalized'
            BY <1>1, <1>2, <1>3, <2>2, <3>1, <3>5
               DEF Writing, SpareIsNew, Spare, Stored, Finalized, Staged, IsWhole
        <3>15. Boots'
            BY <1>3, <3>3, SameBoots
        <3> QED
            BY <3>10, <3>11, <3>12, <3>13, <3>14, <3>15
    <2> QED
        BY <1>5, <2>1, <2>2 DEF Initialize
<1> QED
    BY <1>4, <1>5

LEMMA WriteRecordKeeps == ASSUME Inv, WriteRecord PROVE Inv'
<1> USE DEF Inv
<1>0. Doing("record")
    BY DEF WriteRecord
<1>1. /\ Left > 0 /\ Left \in Nat /\ page = 0 /\ At(Left)[1] = "record"
      /\ At(Left) = <<"record">>
    BY <1>0, DoingIs, Names
<1>2. stage \in {"boot", "button", "store"} /\ Known
    BY <1>1, Whereabouts DEF Known
<1>3. WriteTable(fica) /\ UNCHANGED <<bank, table, session>>
    BY DEF WriteRecord
<1>4. UNCHANGED <<stage, script, transfer, fica>> /\ page' = 1
    BY <1>3 DEF WriteTable
<1>5. fica.header \in Header /\ fica.header.curr \in Banks /\ fica.header.curr = Active
    BY <1>2 DEF TableKnown, Moving
<1>6. ~Initialized(table) => fica.header.curr = "A"
    BY <1>1, <1>5 DEF Active, CurrentBank
<1>7. Writing' /\ Finalized'
    BY <1>1, <1>2, <1>4, SameScript DEF Writing, Finalized
<1> QED
    BY <1>1, <1>3, <1>5, <1>6, <1>7, WriteKeeps, TableTypes

LEMMA DefaultTypeKeeps == ASSUME Inv, DefaultType PROVE Inv'
<1> USE DEF Inv
<1>0. Doing("default")
    BY DEF DefaultType
<1>1. /\ Left > 0 /\ Left \in Nat /\ page = 0 /\ At(Left)[1] = "default"
    BY <1>0, DoingIs
<1>2. \/ stage = "boot" /\ Left = 1
      \/ stage = "store" /\ Left = 5
    BY <1>1, Whereabouts
<1>3. Known
    BY <1>1, <1>2 DEF Known
<1>4. /\ fica.header \in Header /\ fica.header.curr \in Banks /\ fica.header.curr = Active
      /\ IsTable(fica)
    BY <1>2, <1>3, TableTypes DEF TableKnown, Moving
<1>5. Done /\ UNCHANGED <<bank, table, fica, page, file, sent, sector, fileLength,
                          dataWritten, newType, newLength, sessions>>
    BY <1>4 DEF DefaultType, session, host
<1>6. Left' = Left - 1 /\ UNCHANGED <<stage, transfer>>
    BY <1>1, <1>2, <1>5, DoneShape
<1>7. SpareIsNew' /\ Stored' /\ Finalized'
    BY <1>1, <1>2, <1>5, <1>6 DEF SpareIsNew, Spare, Stored, Finalized, Staged, IsWhole
<1>8. newLength' \in 0 .. BankSize /\ IsTable(fica)' /\ page' = 0
    BY <1>1, <1>4, <1>5 DEF TypeOK, IsTable
<1>9. stage = "store" => Left > 1 /\ Initialized(table)
    BY <1>1, <1>2 DEF TableKnown
<1>10. fica'.header \in Header /\ fica'.header.curr \in Banks /\ fica'.header.curr = Active
    BY <1>4, <1>5
<1> QED
    BY <1>1, <1>5, <1>7, <1>8, <1>9, <1>10, DoneKeeps

\* The bank of the new image is not the one in use.
LEMMA CheckTypeKeeps == ASSUME Inv, CheckType PROVE Inv'
<1> USE DEF Inv
<1>0. Doing("check")
    BY DEF CheckType
<1>1. Left > 0 /\ Left \in Nat /\ page = 0 /\ At(Left)[1] = "check"
    BY <1>0, DoingIs
<1>2. stage = "store" /\ Left = 4 /\ Known
    BY <1>1, Whereabouts DEF Known
<1>3. /\ fica.header \in Header /\ fica.header.curr \in Banks /\ fica.header.curr = Active
      /\ Initialized(table)
    BY <1>1, <1>2 DEF TableKnown, Moving
<1>4. /\ newLength' = 0 /\ 0 \in 0 .. BankSize
      /\ UNCHANGED <<bank, table, fica, file, sent, sector, fileLength, dataWritten,
                     newType, sessions>>
    BY Sizes DEF CheckType, host
<1>5. IsTable(fica)'
    BY <1>4, TableTypes DEF IsTable
<1>6. CASE newType # fica.header.curr /\ Done /\ page' = page
    <2>1. /\ Left' = Left - 1 /\ UNCHANGED <<stage, transfer>>
          /\ \A i \in 1 .. Left - 1 : At(i)' = At(i)
        BY <1>1, <1>2, <1>4, <1>6, DoneShape
    <2>2. At(3)' = <<"bank", 1>>
        BY <1>2, <2>1 DEF Shape
    <2>3. Active' = Active
        BY <1>1, <1>4, <1>6, ActiveStays
    <2>4. SpareIsNew'
        BY <1>3, <1>4, <1>6, <2>3 DEF SpareIsNew
    <2>5. Stored'
        BY <1>2, <1>4, <2>1, <2>2 DEF Stored, IsWhole, Staged
    <2>6. Finalized'
        BY <1>2, <2>1 DEF Finalized
    <2> QED
        BY <1>1, <1>2, <1>3, <1>4, <1>5, <1>6, <2>4, <2>5, <2>6, DoneKeeps
<1>7. CASE Fail
    BY <1>1, <1>4, <1>5, <1>7, FailKeeps DEF TypeOK
<1> QED
    BY <1>6, <1>7 DEF CheckType

\* Sector after sector of the spare bank becomes blank.
LEMMA EraseBankKeeps == ASSUME Inv, EraseBank PROVE Inv'
<1> USE DEF Inv
<1>0. Doing("bank")
    BY DEF EraseBank
<1>1. /\ Left > 0 /\ Left \in Nat /\ page = 0 /\ At(Left)[1] = "bank"
      /\ Head(script) = At(Left) /\ At(Left) \in Operations
    BY <1>0, DoingIs
<1>2. /\ stage = "store" /\ Left = 3 /\ At(Left)[2] \in Sectors /\ Known
      /\ transfer = "START" /\ newType \in Banks /\ file \in Images
    BY <1>1, Whereabouts, Names, FileBank DEF Known, Staged
<1>3. /\ UNCHANGED <<table, fica, file, sent, sector, fileLength, dataWritten, newType,
                     newLength, sessions>>
      /\ newLength' \in 0 .. BankSize /\ IsTable(fica)'
    BY TableTypes DEF EraseBank, session, host, TypeOK, IsTable
<1>4. /\ fica.header \in Header /\ fica.header.curr \in Banks /\ fica.header.curr = Active
      /\ Initialized(table) /\ newType # Active
    BY <1>1, <1>2 DEF TableKnown, Moving, SpareIsNew, Spare
<1>5. CASE "bank erase" \in Faults /\ Fail /\ UNCHANGED bank
    BY <1>1, <1>3, <1>5, FailKeeps DEF TypeOK
<1> DEFINE k == At(Left)[2]
<1>6. CASE /\ bank' = [bank EXCEPT ![newType][k] = "blank"]
           /\ script' = IF k = BankSize THEN Tail(script)
                        ELSE << <<"bank", k + 1>> >> \o Tail(script)
           /\ UNCHANGED <<stage, transfer, page>>
    <2>1. /\ bank' \in [Banks -> [Sectors -> Images \cup {"blank", "torn"}]]
          /\ bank'[newType][k] = "blank" /\ bank'[Active] = bank[Active]
          /\ \A j \in Sectors : j # k => bank'[newType][j] = bank[newType][j]
        BY <1>2, <1>4, <1>6 DEF TypeOK
    <2>2. k \in Nat /\ 1 <= k /\ k <= BankSize
        BY <1>2, Sizes DEF Sectors
    <2>3. At(3) = At(Left)
        BY <1>2
    <2>4. \A j \in 1 .. k : bank'[newType][j] = "blank"
        BY <1>2, <2>1, <2>2, <2>3, Sizes DEF Stored, Sectors
    <2>5. Active' = Active
        BY <1>1, <1>3, <1>6, ActiveStays
    <2>6. Boots'
        BY <2>1, <2>5, SameBoots
    <2>7. dataWritten = 0 /\ newLength = 0 /\ sector \in sent
        BY <1>2 DEF Staged, Stored
    <2>8. Spare' => newType # Active
        BY <1>4
    <2>9. \A i \in 1 .. Left - 1 : StoreAt(i)
        BY <1>2 DEF Shape
    <2>10. CASE k = BankSize
        <3>1. /\ Left' = 2 /\ \A i \in 1 .. 2 : At(i)' = At(i)
              /\ script' \in Seq(Operations)
            BY <1>1, <1>2, <1>6, <2>10, RestOfScript
        <3>2. Shape' /\ Staged'
            BY <1>2, <1>3, <1>6, <2>9, <3>1 DEF Shape, StoreAt, Staged
        <3>3. TypeOK'
            BY <1>3, <1>6, <2>1, <3>1 DEF TypeOK, IsTable
        <3>4. TableKnown'
            BY <1>1, <1>2, <1>3, <1>4, <1>6, <2>5 DEF TableKnown, Initialized
        <3>5. Writing' /\ SpareIsNew' /\ Finalized'
            BY <1>1, <1>2, <1>3, <1>4, <1>6, <2>5 DEF Writing, SpareIsNew, Finalized
        <3>6. \A j \in Sectors : bank'[newType][j] = "blank"
            BY <2>4, <2>10 DEF Sectors
        <3>7. Written' = {} /\ file \notin {"blank", "torn"}
            BY <1>2, <1>3, <3>6, Symbols DEF Written
        <3>8. Stored'
            BY <1>2, <1>3, <1>6, <2>7, <3>1, <3>6, <3>7, FS_EmptySet DEF Stored, Staged
        <3> QED
            BY <2>6, <3>2, <3>3, <3>4, <3>5, <3>8
    <2>11. CASE k # BankSize
        <3>1. /\ Left' = 3 /\ At(1)' = At(1) /\ At(2)' = At(2)
              /\ At(3)' = <<"bank", k + 1>> /\ script' \in Seq(Operations)
            <4> DEFINE s == << <<"bank", k + 1>> >>
            <4>1. k + 1 \in Sectors
                BY <2>2, <2>11, Sizes DEF Sectors
            <4>2. s \in Seq(Operations) /\ Len(s) = 1 /\ s[1] = <<"bank", k + 1>>
                BY <4>1 DEF Operations
            <4>3. script' = s \o Tail(script)
                BY <1>6, <2>11
            <4> HIDE DEF s
            <4>4. /\ Left' = Left - 1 + Len(s)
                  /\ \A i \in 1 .. Left - 1 : At(i)' = At(i)
                  /\ \A i \in Left .. Left' : At(i)' = s[Left' + 1 - i]
                  /\ script' \in Seq(Operations)
                BY <1>1, <4>2, <4>3, ReplacedFirst
            <4>5. Left' = 3
                BY <1>2, <4>2, <4>4
            <4>6. At(1)' = At(1) /\ At(2)' = At(2)
                BY <1>2, <4>4
            <4>7. At(3)' = s[1]
                BY <1>2, <4>4, <4>5
            <4> QED
                BY <4>2, <4>4, <4>5, <4>6, <4>7
        <3>2. k + 1 \in Sectors /\ <<"bank", k + 1>>[2] = k + 1 /\ k + 1 - 1 = k
            BY <2>2, <2>11, Sizes DEF Sectors
        <3>3. Shape' /\ Staged'
            <4>1. StoreAt(1)' /\ StoreAt(2)' /\ StoreAt(3)'
                BY <1>2, <2>9, <3>1, <3>2 DEF StoreAt
            <4>2. \A i \in 1 .. 3 : StoreAt(i)'
                <5> TAKE i \in 1 .. 3
                <5>1. i = 1 \/ i = 2 \/ i = 3
                    OBVIOUS
                <5> QED
                    BY <4>1, <5>1
            <4> QED
                BY <1>2, <1>3, <1>6, <3>1, <4>2 DEF Shape, Staged
        <3>4. TypeOK'
            BY <1>3, <1>6, <2>1, <3>1 DEF TypeOK, IsTable
        <3>5. TableKnown'
            BY <1>1, <1>2, <1>3, <1>4, <1>6, <2>5 DEF TableKnown, Initialized
        <3>6. Writing' /\ SpareIsNew' /\ Finalized'
            BY <1>1, <1>2, <1>3, <1>4, <1>6, <2>5 DEF Writing, SpareIsNew, Finalized
        <3>7. Stored'
            <4>1. stage' = "store" /\ transfer' = "START" /\ Left' = 3 /\ newLength' = 0
                BY <1>2, <1>3, <1>6, <2>7, <3>1
            <4>2. \A j \in 1 .. At(3)'[2] - 1 : bank'[newType'][j] = "blank"
                BY <1>3, <2>2, <2>4, <3>1
            <4>3. sector' \in sent'
                BY <1>3, <2>7
            <4> QED
                BY ONLY <4>1, <4>2, <4>3 DEF Stored
        <3> QED
            BY <2>6, <3>3, <3>4, <3>5, <3>6, <3>7
    <2> QED
        BY <2>10, <2>11
<1>7. \/ "bank erase" \in Faults /\ Fail /\ UNCHANGED bank
      \/ /\ bank' = [bank EXCEPT ![newType][k] = "blank"]
         /\ script' = IF k = BankSize THEN Tail(script)
                      ELSE << <<"bank", k + 1>> >> \o Tail(script)
         /\ UNCHANGED <<stage, transfer, page>>
    BY <1>1 DEF EraseBank
<1> QED
    BY <1>5, <1>6, <1>7

\* What the later operations of a script find: the table, and the copy of it.
LEMMA Later ==
    ASSUME Inv, Left > 0, Left \in Nat, page = 0,
           \/ stage = "final"
           \/ stage = "store" /\ Left <= 5
    PROVE  /\ Initialized(table) /\ Known
           /\ table.header \in Header /\ table.header.curr \in Banks
           /\ table.header.curr = Active /\ fica.header \in Header
           /\ fica.header.curr = Active
           /\ IsTable(table) /\ IsTable(fica)
           /\ newLength \in 0 .. BankSize
<1> USE DEF Inv
<1>1. Initialized(table)
    BY DEF TableKnown
<1>2. table.header.curr = Active
    BY <1>1 DEF Active, CurrentBank
<1>3. Known
    <2>1. CASE stage = "final"
        BY <2>1 DEF Known
    <2>2. CASE stage = "store" /\ Left <= 5
        <3>1. At(Left) # <<"init">>
            BY <2>2, Where
        <3> QED
            BY <2>2, <3>1 DEF Known
    <2> QED
        BY <2>1, <2>2
<1>4. fica.header \in Header /\ fica.header.curr = Active
    BY <1>3 DEF TableKnown, Moving
<1> QED
    BY <1>1, <1>2, <1>3, <1>4, TableTypes DEF TableKnown, TypeOK

\* A flag of the table changes, and nothing else of it.
LEMMA SetFlagKeeps == ASSUME Inv, SetFlag PROVE Inv'
<1> USE DEF Inv
<1>0. Doing("set")
    BY DEF SetFlag
<1>1. /\ Left > 0 /\ Left \in Nat /\ page = 0 /\ At(Left)[1] = "set"
      /\ Head(script) = At(Left) /\ At(Left) \in Operations /\ At(Left)[2] \in Flags
    BY <1>0, DoingIs, Names
<1> DEFINE flag == At(Left)[2]
<1>2. \/ stage = "button" /\ Left = 1 /\ flag = "USB"
      \/ stage = "store" /\ Left = 2 /\ flag = "NAI"
      \/ stage = "final" /\ Left = 10 /\ flag = "NAV"
      \/ stage = "final" /\ Left = 8 /\ flag = "NAP"
      \/ stage = "final" /\ Left = 1 /\ flag = "OTA"
    BY <1>1, Whereabouts
<1>3. /\ UNCHANGED <<bank, table, session>>
      /\ UNCHANGED <<bank, table, file, sent, sector, fileLength, dataWritten, newType,
                     newLength, sessions>>
    BY DEF SetFlag, session, host
<1>4. newLength' \in 0 .. BankSize
    BY <1>3 DEF TypeOK
<1>5. CASE Flagged(table, flag)
    <2>1. fica' = table /\ Done /\ page' = 0
        BY <1>1, <1>5 DEF SetFlag
    <2>2. /\ Left' = Left - 1 /\ UNCHANGED <<stage, transfer>>
          /\ \A i \in 1 .. Left - 1 : At(i)' = At(i)
        BY <1>1, <1>2, <1>3, <2>1, DoneShape
    <2>3. Active' = Active
        BY <1>1, <1>3, <2>1, ActiveStays
    <2>4. SpareIsNew'
        BY <1>1, <1>2, <1>3, <2>2, <2>3 DEF SpareIsNew, Spare
    <2>5. Stored'
        BY <1>1, <1>2, <1>3, <2>2 DEF Stored, Written, IsWhole, Staged
    <2>6. Finalized'
        <3> SUFFICES ASSUME stage = "final" PROVE Finalized'
            BY <2>2 DEF Finalized
        <3>1. /\ fica' = table /\ newType' = newType /\ file' = file /\ page' = 0
              /\ table' = table /\ Left' = Left - 1
            BY <1>3, <2>1, <2>2
        <3>2. Left \in {10, 8, 1} /\ (Left = 1 => "OTA" \in table.header.comm)
            BY <1>1, <1>2, <1>5, Later DEF Flagged
        <3> QED
            BY <1>1, <3>1, <3>2 DEF Finalized
    <2>7. Known' => /\ fica'.header \in Header /\ fica'.header.curr \in Banks
                    /\ fica'.header.curr = Active
        <3>1. CASE stage = "button"
            BY <1>1, <1>2, <2>2, <3>1 DEF Known
        <3>2. CASE stage # "button"
            BY <1>1, <1>2, <2>1, <3>2, Later
        <3> QED
            BY <3>1, <3>2
    <2>8. IsTable(fica)'
        BY <2>1, TableTypes DEF IsTable
    <2>9. stage = "store" => Left > 1 /\ Initialized(table)
        BY <1>1, <1>2, Later
    <2> QED
        BY <1>1, <1>3, <1>4, <2>1, <2>4, <2>5, <2>6, <2>7, <2>8, <2>9, DoneKeeps
<1>6. CASE ~Flagged(table, flag)
    <2> DEFINE t == [table EXCEPT !.header.comm = @ \cup {flag}]
    <2>1. WriteTable(t)
        BY <1>1, <1>6 DEF SetFlag
    <2>2. Initialized(table) /\ IsTable(table)
        BY <1>6, TableTypes DEF Flagged
    <2>3. table.header \in Header /\ table.header.curr \in Banks /\ table.header.curr = Active
        BY <1>1, <2>2 DEF TableKnown, Active, CurrentBank
    <2>4. /\ t.header = [table.header EXCEPT !.comm = @ \cup {flag}]
          /\ t["A"] = table["A"] /\ t["B"] = table["B"] /\ DOMAIN t = {"header", "A", "B"}
        BY <2>2 DEF IsTable
    <2>5. /\ t.header \in Header /\ t.header.curr = table.header.curr
          /\ t.header.new = table.header.new
          /\ t.header.comm = table.header.comm \cup {flag}
        BY <1>1, <2>3, <2>4 DEF Header
    <2> HIDE DEF t
    <2>6. IsTable(t)
        BY <2>2, <2>4, <2>5 DEF IsTable, Banks
    <2>7. /\ fica' = t /\ page' = 1 /\ UNCHANGED <<script, stage, transfer>>
          /\ Left' = Left /\ \A i : At(i)' = At(i)
        BY <2>1, SameScript DEF WriteTable
    <2>8. Writing'
        BY <1>1, <2>5, <2>7 DEF Writing
    <2>9. Finalized'
        <3> SUFFICES ASSUME stage = "final" PROVE Finalized'
            BY <2>7 DEF Finalized
        <3>1. newType \in Banks /\ t[newType] = table[newType]
            BY <2>4, FileBank DEF Staged, Banks
        <3>2. Left \in {10, 8, 1} /\ flag \in {"NAV", "NAP", "OTA"}
              /\ (Left = 1 => flag = "OTA")
            BY <1>1, <1>2
        <3>3. /\ newType' = newType /\ file' = file /\ table' = table
            BY <1>3
        <3> QED
            BY <1>1, <2>5, <2>7, <3>1, <3>2, <3>3 DEF Finalized
    <2> QED
        BY <1>1, <1>3, <2>1, <2>2, <2>3, <2>5, <2>6, <2>8, <2>9, WriteKeeps
<1> QED
    BY <1>5, <1>6

LEMMA ClearFlagKeeps == ASSUME Inv, ClearFlag PROVE Inv'
<1> USE DEF Inv
<1>0. Doing("clear")
    BY DEF ClearFlag
<1>1. /\ Left > 0 /\ Left \in Nat /\ page = 0 /\ At(Left)[1] = "clear"
      /\ Head(script) = At(Left) /\ At(Left) \in Operations /\ At(Left)[2] \in Flags
    BY <1>0, DoingIs, Names
<1> DEFINE flag == At(Left)[2]
<1>2. \/ stage = "final" /\ Left = 7 /\ flag = "NAI"
      \/ stage = "final" /\ Left = 3 /\ flag = "NAV"
      \/ stage = "final" /\ Left = 2 /\ flag = "NAP"
    BY <1>1, Whereabouts
<1>3. /\ UNCHANGED <<bank, table, session>>
      /\ UNCHANGED <<bank, table, file, sent, sector, fileLength, dataWritten, newType,
                     newLength, sessions>>
    BY DEF ClearFlag, session, host
<1>4. /\ Initialized(table) /\ table.header \in Header /\ table.header.curr \in Banks
      /\ table.header.curr = Active /\ IsTable(table) /\ newLength' \in 0 .. BankSize
      /\ stage = "final"
    BY <1>1, <1>2, <1>3, Later
<1>5. CASE ~Flagged(table, flag)
    <2>1. fica' = table /\ Done /\ page' = 0
        BY <1>1, <1>5 DEF ClearFlag
    <2>2. /\ Left' = Left - 1 /\ UNCHANGED <<stage, transfer>>
        BY <1>1, <1>2, <1>3, <2>1, DoneShape
    <2>3. Active' = Active
        BY <1>1, <1>3, <2>1, ActiveStays
    <2>4. SpareIsNew'
        BY <1>1, <1>2, <1>3, <2>1, <2>2, <2>3 DEF SpareIsNew, Spare
    <2>5. Stored'
        BY <1>1, <1>2, <1>3, <2>2 DEF Stored, Written, IsWhole, Staged
    <2>6. Finalized'
        <3>1. /\ fica' = table /\ newType' = newType /\ file' = file /\ page' = 0
              /\ table' = table /\ Left' = Left - 1
            BY <1>3, <2>1, <2>2
        <3>2. flag \notin table.header.comm
            BY <1>5 DEF Flagged
        <3> QED
            BY <1>1, <1>2, <1>4, <3>1, <3>2 DEF Finalized
    <2>7. IsTable(fica)' /\ fica'.header = table.header
        BY <2>1, <1>4 DEF IsTable
    <2> QED
        BY <1>1, <1>3, <1>4, <2>1, <2>4, <2>5, <2>6, <2>7, DoneKeeps
<1>6. CASE Flagged(table, flag)
    <2> DEFINE t == [table EXCEPT !.header.comm = @ \ {flag}]
    <2>1. WriteTable(t)
        BY <1>1, <1>6 DEF ClearFlag
    <2>2. /\ t.header = [table.header EXCEPT !.comm = @ \ {flag}]
          /\ t["A"] = table["A"] /\ t["B"] = table["B"] /\ DOMAIN t = {"header", "A", "B"}
        BY <1>4 DEF IsTable
    <2>3. /\ t.header \in Header /\ t.header.curr = table.header.curr
          /\ t.header.new = table.header.new
          /\ t.header.comm = table.header.comm \ {flag}
        BY <1>4, <2>2 DEF Header
    <2> HIDE DEF t
    <2>4. IsTable(t)
        BY <1>4, <2>2, <2>3 DEF IsTable, Banks
    <2>5. /\ fica' = t /\ page' = 1 /\ UNCHANGED <<script, stage, transfer>>
          /\ Left' = Left /\ \A i : At(i)' = At(i)
        BY <2>1, SameScript DEF WriteTable
    <2>6. Writing'
        BY <1>1, <2>3, <2>5 DEF Writing
    <2>7. Finalized'
        <3>1. newType \in Banks /\ t[newType] = table[newType]
            BY <1>4, <2>2, FileBank DEF Staged, Banks
        <3>2. /\ newType' = newType /\ file' = file /\ table' = table
            BY <1>3
        <3> QED
            BY <1>1, <1>2, <2>3, <2>5, <3>1, <3>2 DEF Finalized
    <2> QED
        BY <1>1, <1>3, <1>4, <2>1, <2>3, <2>4, <2>6, <2>7, WriteKeeps
<1> QED
    BY <1>5, <1>6

LEMMA WriteLengthKeeps == ASSUME Inv, WriteLength PROVE Inv'
<1> USE DEF Inv
<1>0. Doing("length")
    BY DEF WriteLength
<1>1. Left > 0 /\ Left \in Nat /\ page = 0 /\ At(Left)[1] = "length"
    BY <1>0, DoingIs
<1>2. stage = "final" /\ Left = 11 /\ At(Left) = <<"length">>
    BY <1>1, Where
<1>3. newType \in Banks
    BY <1>2, FileBank DEF Staged
<1>4. /\ Initialized(table) /\ fica.header \in Header /\ fica.header.curr = Active
      /\ Active \in Banks /\ IsTable(fica) /\ newLength \in 0 .. BankSize
    BY <1>1, <1>2, Later DEF Boots
<1> DEFINE t == [fica EXCEPT ![newType] = newLength]
<1>5. /\ t.header = fica.header /\ t[newType] = newLength
      /\ DOMAIN t = {"header", "A", "B"}
      /\ \A b \in Banks : t[b] \in 0 .. BankSize \cup {Erased}
    BY <1>3, <1>4 DEF IsTable, Banks
<1>6. WriteTable(t) /\ UNCHANGED <<bank, table, session>>
    BY DEF WriteLength
<1> HIDE DEF t
<1>7. IsTable(t)
    BY <1>4, <1>5 DEF IsTable
<1>8. /\ fica' = t /\ page' = 1 /\ UNCHANGED <<script, stage, transfer, newType, newLength>>
      /\ Left' = Left /\ \A i : At(i)' = At(i)
    BY <1>6, SameScript DEF WriteTable, session
<1>9. Writing'
    BY <1>1, <1>2, <1>5, <1>8 DEF Writing
<1>10. Finalized'
    BY <1>2, <1>8 DEF Finalized
<1> QED
    BY <1>1, <1>2, <1>4, <1>5, <1>6, <1>7, <1>9, <1>10, WriteKeeps

LEMMA WriteNewTypeKeeps == ASSUME Inv, WriteNewType PROVE Inv'
<1> USE DEF Inv
<1>0. Doing("new")
    BY DEF WriteNewType
<1>1. Left > 0 /\ Left \in Nat /\ page = 0 /\ At(Left)[1] = "new"
    BY <1>0, DoingIs
<1>2. stage = "final" /\ Left = 9 /\ At(Left) = <<"new">>
    BY <1>1, Where
<1>3. newType \in Banks
    BY <1>2, FileBank DEF Staged
<1>4. /\ Initialized(table) /\ fica.header \in Header /\ fica.header.curr = Active
      /\ Active \in Banks /\ IsTable(fica)
    BY <1>1, <1>2, Later DEF Boots
<1> DEFINE t == [fica EXCEPT !.header.new = newType]
<1>5. /\ t.header = [fica.header EXCEPT !.new = newType]
      /\ DOMAIN t = {"header", "A", "B"}
      /\ t["A"] = fica["A"] /\ t["B"] = fica["B"]
    BY <1>4 DEF IsTable
<1>6. /\ t.header \in Header /\ t.header.curr = fica.header.curr
      /\ t.header.new = newType /\ t.header.comm = fica.header.comm
    BY <1>3, <1>4, <1>5 DEF Header
<1>7. WriteTable(t) /\ UNCHANGED <<bank, table, session>>
    BY DEF WriteNewType
<1> HIDE DEF t
<1>8. IsTable(t)
    BY <1>4, <1>5, <1>6 DEF IsTable, Banks
<1>9. /\ fica' = t /\ page' = 1 /\ UNCHANGED <<script, stage, transfer, newType, table, file>>
      /\ Left' = Left /\ \A i : At(i)' = At(i)
    BY <1>7, SameScript DEF WriteTable, session, host
<1>10. Writing'
    BY <1>1, <1>2, <1>6, <1>9 DEF Writing
<1>11. Finalized'
    <2>1. t[newType] = fica[newType]
        BY <1>3, <1>5 DEF Banks
    <2> QED
        BY <1>2, <1>9, <2>1 DEF Finalized
<1> QED
    BY <1>1, <1>2, <1>4, <1>6, <1>7, <1>8, <1>10, <1>11, WriteKeeps

LEMMA SetCurrentTypeKeeps == ASSUME Inv, SetCurrentType PROVE Inv'
<1> USE DEF Inv
<1>0. Doing("current")
    BY DEF SetCurrentType
<1>1. Left > 0 /\ Left \in Nat /\ page = 0 /\ At(Left)[1] = "current"
    BY <1>0, DoingIs
<1>2. stage = "final" /\ Left = 4 /\ At(Left) = <<"current">>
    BY <1>1, Where
<1>3. newType \in Banks
    BY <1>2, FileBank DEF Staged
<1>4. /\ Initialized(table) /\ fica.header \in Header /\ IsTable(fica)
    BY <1>1, <1>2, Later
<1> DEFINE t == [fica EXCEPT !.header.curr = newType]
<1>5. /\ t.header = [fica.header EXCEPT !.curr = newType]
      /\ DOMAIN t = {"header", "A", "B"}
      /\ t["A"] = fica["A"] /\ t["B"] = fica["B"]
    BY <1>4 DEF IsTable
<1>6. /\ t.header \in Header /\ t.header.curr = newType
      /\ t.header.new = fica.header.new /\ t.header.comm = fica.header.comm
    BY <1>3, <1>4, <1>5 DEF Header
<1>7. WriteTable(t) /\ UNCHANGED <<bank, table, session>>
    BY DEF SetCurrentType
<1> HIDE DEF t
<1>8. IsTable(t)
    BY <1>4, <1>5, <1>6 DEF IsTable, Banks
<1>9. /\ fica' = t /\ page' = 1 /\ UNCHANGED <<script, stage, transfer, newType, table, file>>
      /\ Left' = Left /\ \A i : At(i)' = At(i)
    BY <1>7, SameScript DEF WriteTable, session, host
<1>10. Writing'
    BY <1>1, <1>2, <1>6, <1>9 DEF Writing
<1>11. Finalized'
    <2>1. t[newType] = fica[newType]
        BY <1>3, <1>5 DEF Banks
    <2> QED
        BY <1>1, <1>2, <1>6, <1>9, <2>1 DEF Finalized
<1> QED
    BY <1>1, <1>2, <1>3, <1>4, <1>6, <1>7, <1>8, <1>10, <1>11, WriteKeeps

\* The bank that is pending is the one that was written.
LEMMA CheckPendingKeeps == ASSUME Inv, CheckPending PROVE Inv'
<1> USE DEF Inv
<1>0. Doing("pending")
    BY DEF CheckPending
<1>1. Left > 0 /\ Left \in Nat /\ page = 0 /\ At(Left)[1] = "pending"
    BY <1>0, DoingIs
<1>2. stage = "final" /\ Left = 5
    BY <1>1, Whereabouts
<1>3. /\ Initialized(table) /\ table.header \in Header /\ table.header.curr = Active
      /\ Active \in Banks /\ IsTable(table) /\ table.header.new = newType
    BY <1>1, <1>2, Later DEF Boots, Finalized
<1>4. /\ fica' = table /\ newType' = newType
      /\ UNCHANGED <<bank, table, file, sent, sector, fileLength, dataWritten, newLength,
                     sessions>>
    BY <1>3 DEF CheckPending, host
<1>5. IsTable(fica)' /\ newLength' \in 0 .. BankSize /\ fica'.header = table.header
    BY <1>3, <1>4 DEF IsTable, TypeOK
<1>6. CASE Done /\ page' = page
    <2>1. Left' = Left - 1 /\ UNCHANGED <<stage, transfer>>
        BY <1>1, <1>2, <1>4, <1>6, DoneShape
    <2>2. Active' = Active
        BY <1>1, <1>4, <1>6, ActiveStays
    <2>3. SpareIsNew'
        BY <1>1, <1>2, <1>4, <1>6, <2>1, <2>2 DEF SpareIsNew, Spare
    <2>4. Stored'
        BY <1>2, <1>4, <2>1 DEF Stored, IsWhole, Staged
    <2>5. Finalized'
        BY <1>1, <1>2, <1>4, <1>6, <2>1 DEF Finalized
    <2> QED
        BY <1>1, <1>2, <1>3, <1>4, <1>5, <1>6, <2>3, <2>4, <2>5, DoneKeeps
<1>7. CASE Fail
    BY <1>1, <1>4, <1>5, <1>7, FailKeeps DEF TypeOK
<1> QED
    BY <1>6, <1>7 DEF CheckPending

-------------------------------------------------------------------------------
(* The sectors of the file.                                                    *)

\* As many of the numbers up to n as there are.
LEMMA Counted ==
    ASSUME NEW n \in Nat, NEW S \in SUBSET (1 .. n), Cardinality(S) >= n
    PROVE  S = 1 .. n
<1>1. IsFiniteSet(1 .. n)
    BY FS_Interval
<1>2. Cardinality(1 .. n) = n
    BY FS_Interval
<1>3. IsFiniteSet(S) /\ Cardinality(S) <= n
      /\ (Cardinality(S) = n => S = 1 .. n)
    BY <1>1, <1>2, FS_Subset
<1>4. Cardinality(S) \in Nat
    BY <1>3, FS_CardinalityType
<1> QED
    BY <1>3, <1>4

LEMMA Lengths == ASSUME TypeOK PROVE Length[file] \in Nat /\ Length[file] >= 1
BY Sizes DEF TypeOK

\* A transfer that has stored as many sectors as were announced is complete.
LEMMA Complete ==
    ASSUME NEW f \in Images, f \notin {"blank", "torn"}, NEW n \in 1 .. BankSize,
           NEW sectors, NEW S \in SUBSET (1 .. n),
           \A k \in Sectors \ S : sectors[k] = "blank",
           NEW l \in 0 .. BankSize,
           LET W == {k \in Sectors : sectors[k] = f} IN
           Cardinality(W) >= n /\ (\A k \in W : k <= l) /\ (l # 0 => l \in W)
    PROVE  (\A k \in 1 .. n : sectors[k] = f) /\ l = n
<1> DEFINE W == {k \in Sectors : sectors[k] = f}
<1>1. n \in Nat /\ n >= 1 /\ l \in Nat
    BY Sizes
<1>2. W \in SUBSET (1 .. n)
    OBVIOUS
<1>3. Cardinality(W) >= n /\ (\A k \in W : k <= l) /\ (l # 0 => l \in W)
    OBVIOUS
<1>4. \A k \in W : sectors[k] = f
    OBVIOUS
<1> HIDE DEF W
<1>5. W = 1 .. n
    BY <1>1, <1>2, <1>3, Counted
<1> QED
    BY <1>1, <1>3, <1>4, <1>5

\* The sector is stored where nothing was, and counted once.
LEMMA StoreKeeps == ASSUME Inv, Store PROVE Inv'
<1> USE DEF Inv
<1>0. Doing("store")
    BY DEF Store
<1>1. Left > 0 /\ Left \in Nat /\ page = 0 /\ At(Left)[1] = "store"
    BY <1>0, DoingIs
<1>2. stage = "store" /\ Left = 1
    BY <1>1, Whereabouts
<1>3. /\ transfer \in {"START", "ACTIVE"} /\ newType \in Banks /\ file \in Images
      /\ newType = For[file] /\ newType # Active
    BY <1>2, FileBank DEF Staged, SpareIsNew, Spare
<1>4. /\ Initialized(table) /\ table.header \in Header /\ table.header.curr \in Banks
      /\ table.header.curr = Active /\ IsTable(table) /\ newLength \in 0 .. BankSize
    BY <1>1, <1>2, Later
<1>5. /\ fica' = table
      /\ UNCHANGED <<table, file, sent, sector, fileLength, newType, sessions>>
    BY DEF Store, host
<1>6. IsTable(fica)'
    BY <1>4, <1>5 DEF IsTable
<1>7. sector \in sent /\ sector \in Nat /\ sector >= 1
    BY <1>2, Lengths DEF Stored, TypeOK
<1>8. CASE Fail /\ UNCHANGED <<bank, newLength, dataWritten>>
    BY <1>1, <1>4, <1>5, <1>6, <1>8, FailKeeps DEF TypeOK
<1>9. CASE /\ sector <= BankSize
           /\ bank' = [bank EXCEPT ![newType][sector] = "torn"]
           /\ newLength' = IF sector > newLength THEN sector ELSE newLength
           /\ Fail /\ UNCHANGED dataWritten
    <2>1. bank' \in [Banks -> [Sectors -> Images \cup {"blank", "torn"}]]
        BY <1>3, <1>7, <1>9 DEF TypeOK, Sectors
    <2>2. bank'[Active] = bank[Active]
        BY <1>3, <1>4, <1>9 DEF TypeOK
    <2>3. newLength' \in 0 .. BankSize
        BY <1>4, <1>7, <1>9, Sizes
    <2> QED
        BY <1>1, <1>5, <1>6, <1>9, <2>1, <2>2, <2>3, FailKeeps
<1>10. CASE /\ sector <= BankSize
            /\ bank' = [bank EXCEPT ![newType][sector] = Programmed(@, file)]
            /\ newLength' = IF sector > newLength THEN sector ELSE newLength
            /\ dataWritten' = dataWritten + 1
            /\ script' = << >>
            /\ stage' = "usb"
            /\ transfer' = IF fileLength > 0 /\ dataWritten' >= fileLength
                           THEN "FINAL" ELSE "ACTIVE"
            /\ UNCHANGED page
    <2>1. sector \in Sectors
        BY <1>7, <1>10, Sizes DEF Sectors
    <2>2. /\ \A k \in Sectors \ sent : bank[newType][k] = "blank"
          /\ dataWritten = Cardinality(Written)
          /\ \A k \in Written : k <= newLength
          /\ newLength # 0 => newLength \in Written
          /\ bank[newType][sector] = "blank"
        BY <1>2, <2>1 DEF Stored
    <2>3. /\ bank' \in [Banks -> [Sectors -> Images \cup {"blank", "torn"}]]
          /\ bank'[newType][sector] = file /\ bank'[Active] = bank[Active]
          /\ \A k \in Sectors : k # sector => bank'[newType][k] = bank[newType][k]
        BY <1>3, <1>4, <1>10, <2>1, <2>2 DEF TypeOK, Programmed
    <2>4. newLength' \in 0 .. BankSize
        BY <1>4, <1>7, <1>10, Sizes
    <2>5. Left' = 0 /\ script' \in Seq(Operations)
        BY <1>10, EmptyScript
    <2>6. Active' = Active
        BY <1>1, <1>5, <1>10, ActiveStays
    <2>7. Written' = Written \cup {sector} /\ sector \notin Written
        BY <1>5, <2>1, <2>2, <2>3, Symbols DEF Written
    <2>8. IsFiniteSet(Written)
        <3>1. IsFiniteSet(Sectors)
            BY FS_Interval, Sizes DEF Sectors
        <3>2. Written \in SUBSET Sectors
            BY DEF Written
        <3> QED
            BY <3>1, <3>2, FS_Subset
    <2>9. dataWritten' = Cardinality(Written')
        BY <1>10, <2>2, <2>7, <2>8, FS_AddElement
    <2>10. \A k \in Sectors \ sent : bank'[newType][k] = "blank"
        BY <1>7, <2>2, <2>3
    <2>11. \A k \in Written' : k <= newLength'
        BY <1>4, <1>7, <1>10, <2>2, <2>7 DEF Written, Sectors
    <2>12. newLength' # 0 => newLength' \in Written'
        BY <1>10, <2>2, <2>7
    <2>13. TypeOK'
        <3>1. dataWritten' \in Nat
            BY <1>10 DEF TypeOK
        <3> QED
            BY <1>5, <1>6, <1>10, <2>3, <2>4, <2>5, <3>1 DEF TypeOK, IsTable
    <2>14. Shape' /\ Staged'
        BY <1>3, <1>5, <1>10, <2>5 DEF Shape, Staged
    <2>15. TableKnown'
        BY <1>1, <1>4, <1>5, <1>10, <2>6 DEF TableKnown, Initialized
    <2>16. Writing' /\ SpareIsNew' /\ Finalized'
        BY <1>1, <1>3, <1>5, <1>10, <2>6 DEF Writing, SpareIsNew, Finalized
    <2>17. transfer' = "FINAL" => (IsWhole(file, newType) /\ newLength = Length[file])'
        <3> SUFFICES ASSUME transfer' = "FINAL"
                     PROVE  (IsWhole(file, newType) /\ newLength = Length[file])'
            OBVIOUS
        <3>1. fileLength > 0 /\ Cardinality(Written') >= fileLength
            BY <1>10, <2>9
        <3>2. fileLength = Length[file]
            BY <3>1 DEF Staged
        <3>3. /\ file \in Images /\ file \notin {"blank", "torn"}
              /\ sent \subseteq 1 .. Length[file]
              /\ Length[file] \in 1 .. BankSize
            BY <1>3, <3>1, <3>2, Lengths, Symbols, Sizes DEF TypeOK
        <3>4. Written' = {k \in Sectors : bank'[newType][k] = file}
            BY <1>5 DEF Written
        <3>5. (\A k \in 1 .. Length[file] : bank'[newType][k] = file) /\ newLength' = Length[file]
            <4> DEFINE bs == bank'[newType]
                       n == Length[file]
                       l == newLength'
            <4>1. LET W == {k \in Sectors : bs[k] = file} IN
                  Cardinality(W) >= n /\ (\A k \in W : k <= l) /\ (l # 0 => l \in W)
                BY <2>11, <2>12, <3>1, <3>2, <3>4
            <4>2. \A k \in Sectors \ sent : bs[k] = "blank"
                BY <2>10
            <4>3. n \in 1 .. BankSize /\ l \in 0 .. BankSize /\ sent \in SUBSET (1 .. n)
                BY <2>4, <3>3
            <4> HIDE DEF bs, n, l
            <4>4. (\A k \in 1 .. n : bs[k] = file) /\ l = n
                BY <3>3, <4>1, <4>2, <4>3, Complete
            <4> QED
                BY <4>4 DEF bs, n, l
        <3> QED
            BY <1>3, <1>5, <3>3, <3>5 DEF IsWhole
    <2>18. transfer' = "ACTIVE" => fileLength' = 0 \/ dataWritten' < fileLength'
        BY <1>5, <1>10 DEF TypeOK
    <2>19. Stored'
        BY <1>5, <1>10, <2>5, <2>9, <2>10, <2>11, <2>12, <2>17, <2>18 DEF Stored
    <2>20. Boots'
        BY <2>3, <2>6, SameBoots
    <2> QED
        BY <2>13, <2>14, <2>15, <2>16, <2>19, <2>20
<1> QED
    BY <1>8, <1>9, <1>10 DEF Store

-------------------------------------------------------------------------------
(* The bootloader and the host.                                                *)

LEMMA RestartKeeps ==
    ASSUME Inv, Restart, stage' \in {"off", "lost"}, page = 0 \/ Initialized(table)
    PROVE  Inv'
<1> USE DEF Inv
<1>1. /\ UNCHANGED <<bank, table, sessions>> /\ fica' = Fresh /\ page' = 0
      /\ sent' = {} /\ sector' = 0 /\ transfer' = "IDLE" /\ fileLength' = 0
      /\ dataWritten' = 0 /\ newType' = "bootloader" /\ newLength' = 0 /\ file' = Factory
      /\ script' = << >> /\ Left' = 0 /\ script' \in Seq(Operations)
    BY EmptyScript DEF Restart
<1>2. Factory \in Images
    BY FirmwareAssumption, Zenon
<1>3. Active' = Active
    BY <1>1, ActiveStays
<1>4. Length[Factory] \in Nat
    BY <1>2, Sizes
<1>5. TypeOK'
    BY <1>1, <1>2, <1>4, FreshTable, Sizes DEF TypeOK, IsTable
<1>6. Shape' /\ Staged'
    BY <1>1 DEF Shape, Staged
<1>7. TableKnown'
    BY <1>1 DEF TableKnown, Known, Initialized
<1>8. Writing' /\ SpareIsNew' /\ Finalized' /\ Stored'
    BY <1>1 DEF Writing, SpareIsNew, Spare, Finalized, Stored
<1>9. Boots'
    BY <1>1, <1>3, SameBoots
<1> QED
    BY <1>5, <1>6, <1>7, <1>8, <1>9

LEMMA ReRunKeeps == ASSUME Inv, ReRun PROVE Inv'
BY RestartKeeps DEF ReRun

LEMMA PowerLossKeeps == ASSUME Inv, Reliable, PowerLoss PROVE Inv'
BY RestartKeeps DEF PowerLoss, Reliable

\* What begins or ends a script while the flash is at rest.
LEMMA AtRest ==
    ASSUME Inv, Left = 0, UNCHANGED <<flash, fica>>
    PROVE  /\ page = 0 /\ page' = 0 /\ Active' = Active /\ Boots' /\ Writing'
           /\ UNCHANGED <<bank, table, fica>>
<1> USE DEF Inv
<1>1. page = 0 /\ UNCHANGED <<bank, table, page, fica>>
    BY NotWriting DEF flash
<1>2. Active' = Active
    BY <1>1, ActiveStays
<1> QED
    BY <1>1, <1>2, SameBoots DEF Writing

LEMMA BootKeeps == ASSUME Inv, Boot PROVE Inv'
<1> USE DEF Inv
<1>1. stage = "off" /\ Left = 0 /\ stage' = "boot" /\ script' = ToBoot
    BY DEF Boot, Shape
<1>2. UNCHANGED <<flash, fica>> /\ UNCHANGED <<file, sent, sector, fileLength, dataWritten,
                                               newType, newLength, sessions, transfer>>
    BY DEF Boot, session, host
<1>3. /\ page = 0 /\ page' = 0 /\ Active' = Active /\ Boots' /\ Writing'
      /\ UNCHANGED <<bank, table, fica>>
    BY <1>1, <1>2, AtRest
<1>4. /\ script' \in Seq(Operations) /\ Left' = 2
      /\ At(1)' = <<"default">> /\ At(2)' = <<"init">>
    BY <1>1, ScriptToBoot
<1>5. TypeOK'
    BY <1>1, <1>2, <1>3, <1>4 DEF TypeOK
<1>6. Shape' /\ Staged'
    <2>1. \A i \in 1 .. 2 : i = 1 \/ i = 2
        OBVIOUS
    <2> QED
        BY <1>1, <1>2, <1>4, <2>1 DEF Shape, Staged, Starts
<1>7. TableKnown'
    BY <1>1, <1>3, <1>4 DEF TableKnown, Known, Initialized
<1>8. SpareIsNew' /\ Stored' /\ Finalized'
    BY <1>1, <1>2 DEF SpareIsNew, Spare, Stored, Finalized, Staged
<1> QED
    BY <1>3, <1>5, <1>6, <1>7, <1>8

LEMMA JumpKeeps == ASSUME Inv, Jump PROVE Inv'
<1> USE DEF Inv
<1>1. stage = "boot" /\ Left = 0 /\ stage' = "app"
    BY DEF Jump, Left
<1>2. UNCHANGED <<flash, fica>> /\ UNCHANGED <<file, sent, sector, fileLength, dataWritten,
                              newType, newLength, sessions, transfer, script>>
    BY DEF Jump, session, host
<1>3. /\ page = 0 /\ page' = 0 /\ Active' = Active /\ Boots' /\ Writing'
      /\ UNCHANGED <<bank, table, fica>>
    BY <1>1, <1>2, AtRest
<1>4. Left' = 0
    BY <1>1, <1>2, SameScript
<1>5. TypeOK'
    BY <1>1, <1>2, <1>3 DEF TypeOK
<1>6. Shape' /\ Staged'
    BY <1>1, <1>2, <1>4 DEF Shape, Staged
<1>7. TableKnown'
    BY <1>1, <1>3 DEF TableKnown, Known, Initialized
<1>8. SpareIsNew' /\ Stored' /\ Finalized'
    BY <1>1, <1>2 DEF SpareIsNew, Spare, Stored, Finalized, Staged
<1> QED
    BY <1>3, <1>5, <1>6, <1>7, <1>8

LEMMA PressButtonKeeps == ASSUME Inv, PressButton PROVE Inv'
<1> USE DEF Inv
<1>1. /\ stage = "off" /\ Left = 0 /\ stage' = "button" /\ script' = ToUsb
      /\ file' \in Images /\ sessions < MaxSessions /\ sessions' = sessions + 1
      /\ sent = {} /\ sector = 0 /\ fileLength = 0 /\ transfer = "IDLE"
    BY DEF PressButton, Shape, Staged
<1>2. UNCHANGED <<flash, fica>> /\ UNCHANGED <<sent, sector, fileLength, dataWritten, newType,
                                               newLength, transfer>>
    BY DEF PressButton, usb
<1>3. /\ page = 0 /\ page' = 0 /\ Active' = Active /\ Boots' /\ Writing'
      /\ UNCHANGED <<bank, table, fica>>
    BY <1>1, <1>2, AtRest
<1>4. /\ script' \in Seq(Operations) /\ Left' = 2
      /\ At(1)' = <<"set", "USB">> /\ At(2)' = <<"init">>
    BY <1>1, ScriptToUsb
<1>5. TypeOK'
    <2>1. Length[file'] \in Nat
        BY <1>1, Sizes
    <2>2. sessions' \in 0 .. MaxSessions
        <3>1. MaxSessions \in Nat
            BY FirmwareAssumption, Zenon
        <3> QED
            BY <1>1, <3>1 DEF TypeOK
    <2> QED
        BY <1>1, <1>2, <1>3, <1>4, <2>1, <2>2 DEF TypeOK
<1>6. Shape' /\ Staged'
    <2>1. \A i \in 1 .. 2 : i = 1 \/ i = 2
        OBVIOUS
    <2> QED
        BY <1>1, <1>2, <1>4, <2>1 DEF Shape, Staged, Starts
<1>7. TableKnown'
    BY <1>1, <1>3, <1>4 DEF TableKnown, Known, Initialized
<1>8. SpareIsNew' /\ Stored' /\ Finalized'
    BY <1>1, <1>2 DEF SpareIsNew, Spare, Stored, Finalized, Staged
<1> QED
    BY <1>3, <1>5, <1>6, <1>7, <1>8

LEMMA ConnectUsbKeeps == ASSUME Inv, ConnectUsb PROVE Inv'
<1> USE DEF Inv
<1>1. stage = "button" /\ Left = 0 /\ stage' = "usb" /\ transfer = "IDLE" /\ fileLength = 0
    BY DEF ConnectUsb, Left, Staged
<1>2. UNCHANGED <<flash, fica>> /\ UNCHANGED <<file, sent, sector, fileLength, dataWritten,
                              newType, newLength, sessions, transfer, script>>
    BY DEF ConnectUsb, session, host
<1>3. /\ page = 0 /\ page' = 0 /\ Active' = Active /\ Boots' /\ Writing'
      /\ UNCHANGED <<bank, table, fica>>
    BY <1>1, <1>2, AtRest
<1>4. Left' = 0
    BY <1>1, <1>2, SameScript
<1>5. TypeOK'
    BY <1>1, <1>2, <1>3 DEF TypeOK
<1>6. Shape' /\ Staged'
    BY <1>1, <1>2, <1>4 DEF Shape, Staged
<1>7. TableKnown'
    BY <1>1, <1>2, <1>3 DEF TableKnown, Known, Initialized
<1>8. SpareIsNew' /\ Stored' /\ Finalized'
    BY <1>1, <1>2 DEF SpareIsNew, Spare, Stored, Finalized
<1> QED
    BY <1>3, <1>5, <1>6, <1>7, <1>8

LEMMA SendFirstKeeps == ASSUME Inv, SendFirst PROVE Inv'
<1> USE DEF Inv
<1>1. /\ stage = "usb" /\ Left = 0 /\ stage' = "store" /\ script' = ToStart
      /\ transfer = "IDLE" /\ transfer' = "START" /\ newType' = For[file]
      /\ 1 \in 1 .. Length[file] /\ sent' = sent \cup {1} /\ sector' = 1
      /\ dataWritten = 0
    BY DEF SendFirst, Sending, Shape, Staged
<1>2. UNCHANGED <<flash, fica>>
      /\ UNCHANGED <<file, fileLength, dataWritten, newLength, sessions>>
    BY DEF SendFirst
<1>3. /\ page = 0 /\ page' = 0 /\ Active' = Active /\ Boots' /\ Writing'
      /\ UNCHANGED <<bank, table, fica>>
    BY <1>1, <1>2, AtRest
<1>4. /\ script' \in Seq(Operations) /\ Left' = 6
      /\ At(1)' = <<"store">> /\ At(2)' = <<"set", "NAI">> /\ At(3)' = <<"bank", 1>>
      /\ At(4)' = <<"check">> /\ At(5)' = <<"default">> /\ At(6)' = <<"init">>
    BY <1>1, ScriptToStart
<1>5. TypeOK'
    BY <1>1, <1>2, <1>3, <1>4, Lengths, FileBank DEF TypeOK
<1>6. Shape'
    <2>1. 1 \in Sectors
        BY Sizes DEF Sectors
    <2>2. StoreAt(1)' /\ StoreAt(2)' /\ StoreAt(3)' /\ StoreAt(4)' /\ StoreAt(5)' /\ StoreAt(6)'
        BY <1>4, <2>1 DEF StoreAt, Starts
    <2>3. \A i \in 1 .. 6 : StoreAt(i)'
        <3> TAKE i \in 1 .. 6
        <3>1. i = 1 \/ i = 2 \/ i = 3 \/ i = 4 \/ i = 5 \/ i = 6
            OBVIOUS
        <3> QED
            BY <2>2, <3>1
    <2> QED
        BY <1>1, <1>4, <2>3 DEF Shape
<1>7. Staged'
    BY <1>1, <1>2 DEF Staged
<1>8. TableKnown'
    BY <1>1, <1>3, <1>4 DEF TableKnown, Known, Initialized
<1>9. SpareIsNew' /\ Finalized' /\ Stored'
    BY <1>1, <1>2, <1>4 DEF SpareIsNew, Spare, Stored, Finalized
<1> QED
    BY <1>3, <1>5, <1>6, <1>7, <1>8, <1>9

\* A sector the host has not sent before is blank in the bank.
LEMMA SendSectorKeeps == ASSUME Inv, Reliable, NEW k \in Nat, SendSector(k) PROVE Inv'
<1> USE DEF Inv
<1>1. /\ stage = "usb" /\ Left = 0 /\ transfer # "START"
      /\ k \in 1 .. Length[file] /\ sent' = sent \cup {k} /\ sector' = k /\ k \notin sent
    BY DEF SendSector, Sending, Shape, Staged, Reliable
<1>2. UNCHANGED <<flash, fica>>
      /\ UNCHANGED <<transfer, file, fileLength, dataWritten, newType, newLength, sessions>>
    BY DEF SendSector
<1>3. /\ page = 0 /\ page' = 0 /\ Active' = Active /\ Boots' /\ Writing'
      /\ UNCHANGED <<bank, table, fica>>
    BY <1>1, <1>2, AtRest
<1>4. CASE transfer = "ACTIVE" /\ stage' = "store" /\ script' = ToStore
    <2>1. script' \in Seq(Operations) /\ Left' = 1 /\ At(1)' = <<"store">>
        BY <1>4, ScriptToStore
    <2>2. TypeOK'
        BY <1>1, <1>2, <1>3, <1>4, <2>1, Lengths DEF TypeOK
    <2>3. Shape' /\ Staged'
        <3>1. \A i \in 1 .. 1 : i = 1
            OBVIOUS
        <3> QED
            BY <1>1, <1>2, <1>4, <2>1, <3>1 DEF Shape, StoreAt, Staged
    <2>4. Known /\ Initialized(table)
        BY <1>1, <1>3, <1>4 DEF Known, TableKnown
    <2>5. TableKnown'
        BY <1>1, <1>3, <1>4, <2>4 DEF TableKnown, Initialized, Moving
    <2>6. SpareIsNew' /\ Finalized'
        BY <1>1, <1>2, <1>3, <1>4 DEF SpareIsNew, Spare, Finalized
    <2>7. Written' = Written
        BY <1>2, <1>3 DEF Written
    <2>8. Stored'
        BY <1>1, <1>2, <1>3, <1>4, <2>1, <2>7 DEF Stored
    <2> QED
        BY <1>3, <2>2, <2>3, <2>5, <2>6, <2>8
<1>5. CASE transfer # "ACTIVE" /\ UNCHANGED <<stage, script>>
    <2>1. Left' = 0
        BY <1>1, <1>5, SameScript
    <2>2. TypeOK'
        BY <1>1, <1>2, <1>3, <1>5, Lengths DEF TypeOK
    <2>3. Shape' /\ Staged'
        BY <1>1, <1>2, <1>5, <2>1 DEF Shape, Staged
    <2>4. TableKnown'
        BY <1>1, <1>2, <1>3, <1>5, <2>1 DEF TableKnown, Known, Initialized, Moving
    <2>5. SpareIsNew' /\ Finalized'
        BY <1>1, <1>2, <1>3, <1>5 DEF SpareIsNew, Spare, Finalized
    <2>6. Stored'
        BY <1>1, <1>2, <1>3, <1>5 DEF Stored, IsWhole
    <2> QED
        BY <1>3, <2>2, <2>3, <2>4, <2>5, <2>6
<1>6. \/ transfer = "ACTIVE" /\ stage' = "store" /\ script' = ToStore
      \/ transfer # "ACTIVE" /\ UNCHANGED <<stage, script>>
    BY DEF SendSector
<1> QED
    BY <1>4, <1>5, <1>6

\* The length may be announced before, between or after the sectors.
LEMMA SendEntryKeeps == ASSUME Inv, Reliable, NEW n \in Entries[file], SendEntry(n) PROVE Inv'
<1> USE DEF Inv
<1>1. stage = "usb" /\ Left = 0 /\ transfer # "START"
    BY DEF SendEntry, Shape, Staged
<1>2. /\ UNCHANGED <<flash, fica>>
      /\ UNCHANGED <<file, sent, sector, stage, script, dataWritten, newType, newLength,
                     sessions>>
      /\ fileLength' = IF 0 < n /\ n <= BankSize THEN n ELSE fileLength
      /\ transfer' = IF transfer = "ACTIVE" /\ fileLength' > 0 /\ dataWritten >= fileLength'
                     THEN "FINAL" ELSE transfer
    BY DEF SendEntry, host
<1>3. /\ page = 0 /\ page' = 0 /\ Active' = Active /\ Boots' /\ Writing'
      /\ UNCHANGED <<bank, table, fica>>
    BY <1>1, <1>2, AtRest
<1>4. Left' = 0
    BY <1>1, <1>2, SameScript
<1>5. n \in {0, Length[file]}
    BY DEF Reliable, TypeOK
<1>6. fileLength' \in {0, Length[file]} /\ fileLength' \in 0 .. BankSize
    BY <1>2, <1>5, Sizes, Lengths DEF Staged, TypeOK
<1>7. TypeOK'
    BY <1>2, <1>3, <1>6 DEF TypeOK
<1>8. Shape' /\ Staged'
    BY <1>1, <1>2, <1>4, <1>6 DEF Shape, Staged
<1>9. transfer' \in {"ACTIVE", "FINAL"} => transfer \in {"ACTIVE", "FINAL"}
    BY <1>2
<1>10. TableKnown'
    BY <1>1, <1>2, <1>3, <1>4, <1>9 DEF TableKnown, Known, Initialized, Moving
<1>11. SpareIsNew' /\ Finalized'
    BY <1>1, <1>2, <1>3, <1>9 DEF SpareIsNew, Spare, Finalized
<1>12. Written' = Written
    BY <1>2, <1>3 DEF Written
<1>13. transfer' = "ACTIVE" => /\ transfer = "ACTIVE"
                               /\ fileLength' = 0 \/ dataWritten' < fileLength'
    BY <1>2, <1>6, Lengths DEF TypeOK
<1>14. transfer' = "FINAL" => IsWhole(file, newType) /\ newLength = Length[file]
    <2> SUFFICES ASSUME transfer = "ACTIVE", fileLength' > 0, dataWritten >= fileLength'
                 PROVE  IsWhole(file, newType) /\ newLength = Length[file]
        BY <1>2 DEF Stored
    <2> DEFINE bs == bank[newType]
               m == Length[file]
    <2>1. /\ \A k \in Sectors \ sent : bs[k] = "blank"
          /\ LET W == {k \in Sectors : bs[k] = file} IN
             Cardinality(W) >= m /\ (\A k \in W : k <= newLength)
             /\ (newLength # 0 => newLength \in W)
        BY <1>1, <1>6 DEF Stored, Written
    <2>2. /\ m \in 1 .. BankSize /\ newLength \in 0 .. BankSize /\ sent \in SUBSET (1 .. m)
          /\ file \in Images /\ file \notin {"blank", "torn"}
        BY <1>6, Lengths, Symbols, Sizes DEF TypeOK
    <2> HIDE DEF bs, m
    <2>3. (\A k \in 1 .. m : bs[k] = file) /\ newLength = m
        BY <2>1, <2>2, Complete
    <2>4. newType = For[file]
        BY DEF Staged
    <2> QED
        BY <2>2, <2>3, <2>4, Sizes DEF bs, m, IsWhole
<1>15. Stored'
    BY <1>1, <1>2, <1>3, <1>4, <1>12, <1>13, <1>14 DEF Stored, IsWhole
<1> QED
    BY <1>3, <1>7, <1>8, <1>10, <1>11, <1>15

LEMMA FinalizeKeeps == ASSUME Inv, Finalize PROVE Inv'
<1> USE DEF Inv
<1>1. /\ stage = "usb" /\ Left = 0 /\ stage' = "final" /\ script' = ToFinalize \o ToActivate
      /\ transfer = "FINAL"
    BY DEF Finalize, Shape
<1>2. UNCHANGED <<flash, fica>> /\ UNCHANGED <<file, sent, sector, fileLength, dataWritten,
                                               newType, newLength, sessions, transfer>>
    BY DEF Finalize, session, host
<1>3. /\ page = 0 /\ page' = 0 /\ Active' = Active /\ Boots' /\ Writing'
      /\ UNCHANGED <<bank, table, fica>>
    BY <1>1, <1>2, AtRest
<1>4. /\ script' \in Seq(Operations) /\ Left' = 11
      /\ \A i \in 1 .. 11 : At(i)' = FinalAt(i)
    BY <1>1, ScriptToFinalize
<1>5. TypeOK'
    BY <1>1, <1>2, <1>3, <1>4 DEF TypeOK
<1>6. Shape'
    BY <1>1, <1>4 DEF Shape, FinalAt
<1>7. Staged'
    BY <1>1, <1>2 DEF Staged
<1>8. Known /\ Initialized(table)
    BY <1>1, <1>3 DEF Known, TableKnown
<1>9. TableKnown'
    BY <1>1, <1>3, <1>8 DEF TableKnown, Initialized, Moving
<1>10. SpareIsNew'
    BY <1>1, <1>2, <1>3 DEF SpareIsNew, Spare
<1>11. Stored'
    BY <1>1, <1>2, <1>3 DEF Stored, IsWhole
<1>12. Finalized'
    BY <1>4 DEF Finalized
<1> QED
    BY <1>3, <1>5, <1>6, <1>7, <1>9, <1>10, <1>11, <1>12

-------------------------------------------------------------------------------
(* The invariant.                                                              *)

LEMMA InitInv == ASSUME Init PROVE Inv
<1>1. Factory \in Images /\ For[Factory] = "A" /\ Length[Factory] <= BankSize
    BY FirmwareAssumption, Zenon
<1>2. Length[Factory] \in Nat /\ Length[Factory] >= 1
    BY <1>1, Sizes
<1>3. Left = 0 /\ script \in Seq(Operations)
    BY DEF Init, Left
<1>4. ~Initialized(table) /\ page = 0 /\ Active = "A"
    BY DEF Init, Initialized, Active, CurrentBank
<1>5. IsTable(table) /\ IsTable(fica)
    BY FreshTable DEF Init, IsTable, Banks
<1>6. bank \in [Banks -> [Sectors -> Images \cup {"blank", "torn"}]]
    BY <1>1 DEF Init
<1>7. sessions \in 0 .. MaxSessions
    <2>1. MaxSessions \in Nat
        BY FirmwareAssumption, Zenon
    <2> QED
        BY <2>1 DEF Init
<1>8. TypeOK
    BY <1>1, <1>2, <1>3, <1>5, <1>6, <1>7, Sizes DEF Init, TypeOK, IsTable
<1>9. Shape /\ Staged /\ TableKnown /\ Writing /\ SpareIsNew /\ Stored /\ Finalized
    BY <1>3, <1>4 DEF Init, Shape, Staged, TableKnown, Known, Writing, SpareIsNew, Spare,
                      Stored, Finalized
<1>10. IsWhole(Factory, "A")
    BY <1>1, <1>2, Sizes DEF Init, IsWhole, Banks, Sectors
<1>11. Boots
    BY <1>1, <1>4, <1>10 DEF Boots, Banks
<1> QED
    BY <1>8, <1>9, <1>11 DEF Inv

LEMMA NextInv == ASSUME Inv, Reliable, [Next]_vars PROVE Inv'
<1>1. CASE EraseTable
    BY <1>1, EraseTableKeeps
<1>2. CASE ProgramPage
    BY <1>2, ProgramPageKeeps
<1>3. CASE Initialize
    BY <1>3, InitializeKeeps
<1>4. CASE WriteRecord
    BY <1>4, WriteRecordKeeps
<1>5. CASE DefaultType
    BY <1>5, DefaultTypeKeeps
<1>6. CASE CheckType
    BY <1>6, CheckTypeKeeps
<1>7. CASE EraseBank
    BY <1>7, EraseBankKeeps
<1>8. CASE SetFlag
    BY <1>8, SetFlagKeeps
<1>9. CASE ClearFlag
    BY <1>9, ClearFlagKeeps
<1>10. CASE Store
    BY <1>10, StoreKeeps
<1>11. CASE WriteLength
    BY <1>11, WriteLengthKeeps
<1>12. CASE WriteNewType
    BY <1>12, WriteNewTypeKeeps
<1>13. CASE CheckPending
    BY <1>13, CheckPendingKeeps
<1>14. CASE SetCurrentType
    BY <1>14, SetCurrentTypeKeeps
<1>15. CASE Boot
    BY <1>15, BootKeeps
<1>16. CASE Jump
    BY <1>16, JumpKeeps
<1>17. CASE PressButton
    BY <1>17, PressButtonKeeps
<1>18. CASE ConnectUsb
    BY <1>18, ConnectUsbKeeps
<1>19. CASE SendFirst
    BY <1>19, SendFirstKeeps
<1>20. ASSUME NEW k \in 1 .. Length[file], SendSector(k) PROVE Inv'
    BY <1>20, SendSectorKeeps
<1>21. ASSUME NEW n \in Entries[file], SendEntry(n) PROVE Inv'
    BY <1>21, SendEntryKeeps
<1>22. CASE Finalize
    BY <1>22, FinalizeKeeps
<1>23. CASE ReRun
    BY <1>23, ReRunKeeps
<1>24. CASE PowerLoss
    BY <1>24, PowerLossKeeps
<1>25. CASE UNCHANGED vars
    <2>1. /\ UNCHANGED <<bank, table, fica, stage, script, page, file, sent, sector, transfer>>
          /\ UNCHANGED <<fileLength, dataWritten, newType, newLength, sessions>>
        BY <1>25 DEF vars, host, usb
    <2>2. Left' = Left /\ \A i : At(i)' = At(i)
        BY <2>1, SameScript
    <2>3. Active' = Active /\ Written' = Written
        BY <2>1 DEF Active, CurrentBank, Initialized, Written
    <2>4. TypeOK'
        BY <2>1 DEF Inv, TypeOK
    <2>5. Shape' /\ Staged' /\ Writing' /\ Finalized'
        BY <2>1, <2>2 DEF Inv, Shape, Starts, StoreAt, FinalAt, Staged, Writing, Finalized
    <2>6. TableKnown'
        BY <2>1, <2>2, <2>3 DEF Inv, TableKnown, Known, Moving, Initialized
    <2>7. SpareIsNew' /\ Stored'
        BY <2>1, <2>2, <2>3 DEF Inv, SpareIsNew, Spare, Stored, IsWhole
    <2>8. Boots'
        BY <2>1, <2>3, SameBoots DEF Inv
    <2> QED
        BY <2>4, <2>5, <2>6, <2>7, <2>8 DEF Inv
<1> QED
    BY <1>1, <1>2, <1>3, <1>4, <1>5, <1>6, <1>7, <1>8, <1>9, <1>10, <1>11, <1>12, <1>13,
       <1>14, <1>15, <1>16, <1>17, <1>18, <1>19, <1>20, <1>21, <1>22, <1>23, <1>24, <1>25
       DEF Next

THEOREM Invariance == ASSUME Reliable PROVE Spec => []Inv
<1>1. Init => Inv
    BY InitInv
<1>2. Inv /\ [Next]_vars => Inv'
    BY NextInv
<1> QED
    BY <1>1, <1>2, PTL DEF Spec

\* The state of the bootloader is always well formed.
THEOREM TypeCorrect == ASSUME Reliable PROVE Spec => []TypeOK
<1>1. Inv => TypeOK
    BY DEF Inv
<1> QED
    BY <1>1, Invariance, PTL

-------------------------------------------------------------------------------
(* The properties.                                                             *)

LEMMA NoImageIsNone == NoImage \notin Images
BY FirmwareAssumption, Zenon

LEMMA WholeImage ==
    ASSUME NEW b, NEW i \in Images, IsWhole(i, b)
    PROVE  ImageIn(b) \in Images /\ IsWhole(ImageIn(b), b)
BY DEF ImageIn

\* Power may go at any step of an update and at any page of the configuration
\* area once it has its header: the bank the next boot takes holds a whole image.
THEOREM AlwaysBoots == ASSUME Reliable PROVE Spec => []BootsWhole
<1>1. Inv => BootsWhole
    BY WholeImage, NoImageIsNone DEF Inv, Boots, BootsWhole, Active
<1> QED
    BY <1>1, Invariance, PTL

\* A finalization that went through left the copied file active, with its
\* length, and every flag of the update as it was before.
THEOREM FinishedUpdates == ASSUME Reliable PROVE Spec => []FinishedIsActive
<1>1. ASSUME Inv, stage = "final", script = << >>, page = 0
      PROVE  /\ IsWhole(file, table.header.curr)
             /\ table[table.header.curr] = Length[file]
             /\ table.header.comm \cap {"NAI", "NAV", "NAP"} = {}
             /\ "OTA" \in table.header.comm
    <2>1. Left = 0
        BY <1>1 DEF Left
    <2>2. IsWhole(file, newType)
        BY <1>1 DEF Inv, Staged, Stored
    <2> QED
        BY <1>1, <2>1, <2>2 DEF Inv, Finalized
<1>2. Inv => FinishedIsActive
    BY <1>1 DEF FinishedIsActive
<1> QED
    BY <1>2, Invariance, PTL

\* Once the last sector is stored and the length announced, in either order, the
\* transfer is no longer waiting: the count of the sectors is exact.
THEOREM NoneLeftWaiting == ASSUME Reliable PROVE Spec => []NotLeftWaiting
<1>1. ASSUME Inv, stage = "usb", transfer = "ACTIVE", fileLength = Length[file],
             IsWhole(file, newType)
      PROVE  FALSE
    <2> DEFINE n == Length[file]
    <2>1. n \in Nat /\ n >= 1 /\ n <= BankSize /\ dataWritten \in Nat
        BY <1>1, Lengths DEF Inv, TypeOK, IsWhole
    <2>2. dataWritten = Cardinality(Written) /\ dataWritten < n
        BY <1>1, <2>1 DEF Inv, Stored
    <2>3. 1 .. n \in SUBSET Written
        BY <1>1, <2>1, Sizes DEF IsWhole, Written, Sectors
    <2>4. IsFiniteSet(Written)
        <3>1. IsFiniteSet(Sectors)
            BY FS_Interval, Sizes DEF Sectors
        <3>2. Written \in SUBSET Sectors
            BY DEF Written
        <3> QED
            BY <3>1, <3>2, FS_Subset
    <2>5. Cardinality(1 .. n) = n
        BY <2>1, FS_Interval
    <2>6. Cardinality(1 .. n) <= Cardinality(Written)
        BY <2>3, <2>4, FS_Subset
    <2> HIDE DEF n
    <2> QED
        BY <2>1, <2>2, <2>5, <2>6
<1>2. Inv => NotLeftWaiting
    BY <1>1 DEF NotLeftWaiting
<1> QED
    BY <1>2, Invariance, PTL

-------------------------------------------------------------------------------
(* The refinement.                                                             *)

LEMMA Neighbours ==
    ASSUME NEW b \in Banks, NEW c \in Banks
    PROVE  Other(b) \in Banks /\ Other(b) # b /\ (c # b => c = Other(b) /\ Other(c) = b)
BY DEF Banks, Other

LEMMA ImageType == ASSUME NEW b PROVE ImageIn(b) \in Images \cup {NoImage}
BY WholeImage DEF ImageIn

\* As long as the active bank is neither written nor left, only the spare changes.
LEMMA Prepares ==
    ASSUME Active' = Active, bank'[Active] = bank[Active]
    PROVE  Promise!Next
<1>1. ImageIn(CurrentBank)' = ImageIn(CurrentBank)
    <2>1. \A i : IsWhole(i, CurrentBank)' <=> IsWhole(i, CurrentBank)
        BY DEF IsWhole, Active
    <2> QED
        BY <2>1 DEF ImageIn
<1>2. ImageIn(Other(CurrentBank))' \in Images \cup {NoImage}
    <2>1. ASSUME NEW i \in Images, IsWhole(i, Other(CurrentBank))'
          PROVE  ImageIn(Other(CurrentBank))' \in Images
        BY <2>1 DEF ImageIn
    <2> QED
        BY <2>1 DEF ImageIn
<1> QED
    BY <1>1, <1>2 DEF Promise!Next, Promise!Prepare

\* With the erase of the write that makes it current, the new bank takes over.
LEMMA Activates ==
    ASSUME Inv, EraseTable, Active' # Active
    PROVE  Promise!Next
<1>1. /\ stage = "final" /\ Left = 4 /\ page = 1 /\ Active' = newType
      /\ \A b : bank'[b] = bank[b]
    BY EraseTableKeeps
<1>2. newType # Active /\ Active \in Banks /\ newType \in Banks
    BY <1>1, FileBank DEF Inv, SpareIsNew, Spare, Boots, Staged
<1>3. newType = Other(CurrentBank) /\ Other(newType) = CurrentBank /\ CurrentBank' = newType
    BY <1>1, <1>2, Neighbours DEF Active
<1>4. \A b : ImageIn(b)' = ImageIn(b)
    BY <1>1, SameBank
<1>5. ImageIn(CurrentBank)' = ImageIn(Other(CurrentBank))
    <2>1. \A i : IsWhole(i, CurrentBank)' <=> IsWhole(i, Other(CurrentBank))
        BY <1>1, <1>3 DEF IsWhole
    <2> QED
        BY <2>1 DEF ImageIn
<1>6. ImageIn(Other(CurrentBank))' = ImageIn(CurrentBank)
    <2>1. Other(CurrentBank)' = CurrentBank
        BY <1>3 DEF Other
    <2>2. \A i : IsWhole(i, Other(CurrentBank))' <=> IsWhole(i, CurrentBank)
        BY <1>1, <2>1 DEF IsWhole
    <2> QED
        BY <2>2 DEF ImageIn
<1>7. ImageIn(Other(CurrentBank)) \in Images
    <2>1. IsWhole(file, newType) /\ file \in Images
        BY <1>1 DEF Inv, Staged, Stored, TypeOK
    <2> QED
        BY <1>3, <2>1, WholeImage
<1> QED
    BY <1>5, <1>6, <1>7 DEF Promise!Next, Promise!Activate

\* Every other step leaves the active bank alone.
LEMMA OtherSteps ==
    ASSUME Inv, Inv', Reliable, Next, ~EraseTable
    PROVE  Active' = Active /\ bank'[Active] = bank[Active]
<1> USE DEF Inv
<1>1. CASE ProgramPage
    BY <1>1, ProgramPageKeeps
<1>2. ASSUME page = 0, UNCHANGED table, page' \in {0, 1}
      PROVE  Active' = Active
    <2>1. CASE page' = 0
        BY <1>2, <2>1, ActiveStays
    <2>2. CASE page' = 1
        BY <1>2, <2>2 DEF Active, CurrentBank, TableKnown, Initialized
    <2> QED
        BY <1>2, <2>1, <2>2
<1>3. CASE EraseBank \/ Store
    <2>1. page = 0 /\ Left > 0 /\ stage = "store" /\ Left <= 3
        <3>1. Doing("bank") \/ Doing("store")
            BY <1>3 DEF EraseBank, Store
        <3> QED
            BY <3>1, DoingIs, Whereabouts
    <2>2. newType # Active
        BY <2>1 DEF SpareIsNew, Spare
    <2>3. UNCHANGED table /\ page' = 0
        BY <1>3, <2>1 DEF EraseBank, Store, Fail
    <2>4. bank'[Active] = bank[Active]
        BY <1>3, <2>2 DEF EraseBank, Store, Boots, TypeOK
    <2> QED
        BY <1>2, <2>1, <2>3, <2>4
<1>4. CASE Initialize
    <2>1. page = 0 /\ page' = 0 /\ bank' = bank
        BY <1>4 DEF Initialize, Doing, Fail
    <2>2. CASE UNCHANGED table
        BY <1>2, <2>1, <2>2
    <2>3. CASE /\ ~Initialized(table)
               /\ table' = [p \in DOMAIN table |-> Erased]
        <3>1. table'.header = Erased
            BY <2>3 DEF TypeOK
        <3> QED
            BY <2>1, <2>3, <3>1 DEF Active, CurrentBank, Initialized
    <2> QED
        BY <1>4, <2>1, <2>2, <2>3 DEF Initialize
<1>5. CASE \/ WriteRecord \/ DefaultType \/ CheckType \/ SetFlag \/ ClearFlag
           \/ WriteLength \/ WriteNewType \/ CheckPending \/ SetCurrentType
    <2>1. page = 0 /\ UNCHANGED <<bank, table>>
        BY <1>5 DEF WriteRecord, DefaultType, CheckType, SetFlag, ClearFlag, WriteLength,
                    WriteNewType, CheckPending, SetCurrentType, Doing
    <2>2. page' \in {0, 1}
        BY <1>5, <2>1
           DEF WriteRecord, DefaultType, CheckType, SetFlag, ClearFlag, WriteLength,
               WriteNewType, CheckPending, SetCurrentType, WriteTable, Fail
    <2> QED
        BY <1>2, <2>1, <2>2
<1>6. CASE \/ Boot \/ Jump \/ PressButton \/ ConnectUsb \/ SendFirst \/ Finalize
           \/ (\E k \in 1 .. Length[file] : SendSector(k))
           \/ (\E n \in Entries[file] : SendEntry(n))
    <2>1. UNCHANGED <<bank, table, page, fica>>
        BY <1>6 DEF Boot, Jump, PressButton, ConnectUsb, SendFirst, Finalize, SendSector,
                    SendEntry, flash
    <2> QED
        BY <2>1 DEF Active, CurrentBank, Initialized
<1>7. CASE ReRun \/ PowerLoss
    <2>1. page = 0 \/ Initialized(table)
        BY <1>7 DEF ReRun, PowerLoss, Reliable
    <2>2. UNCHANGED <<bank, table>> /\ page' = 0
        BY <1>7 DEF ReRun, PowerLoss, Restart
    <2> QED
        BY <2>1, <2>2, ActiveStays
<1> QED
    BY <1>1, <1>3, <1>4, <1>5, <1>6, <1>7 DEF Next

LEMMA StartsAsPromised == ASSUME Init PROVE Promise!Init
<1>1. /\ Factory \in Images /\ For[Factory] = "A" /\ Length[Factory] <= BankSize
      /\ Length[Factory] \in Nat /\ Length[Factory] >= 1
    <2>1. Factory \in Images /\ For[Factory] = "A" /\ Length[Factory] <= BankSize
        BY FirmwareAssumption, Zenon
    <2> QED
        BY <2>1, Sizes
<1>2. CurrentBank = "A" /\ Other(CurrentBank) = "B"
    BY DEF Init, CurrentBank, Initialized, Other
<1>3. 1 \in Sectors /\ bank["A"][1] = Factory /\ bank["B"][1] = "blank"
    BY <1>1, Sizes DEF Init, Banks, Sectors
<1>4. ASSUME NEW i \in Images, NEW b, IsWhole(i, b) PROVE bank[b][1] = i
    BY <1>4, Sizes DEF IsWhole
<1>5. IsWhole(Factory, "A")
    BY <1>1, Sizes DEF Init, IsWhole, Banks, Sectors
<1>6. ImageIn("A") = Factory
    BY <1>1, <1>3, <1>4, <1>5, WholeImage
<1>7. "blank" \notin Images
    <2>1. {"blank", "torn"} \cap Images = {}
        BY FirmwareAssumption, Zenon
    <2> QED
        BY <2>1
<1>8. ImageIn("B") = NoImage
    BY <1>3, <1>4, <1>7 DEF ImageIn
<1> QED
    BY <1>2, <1>6, <1>8 DEF Promise!Init

\* The two banks of the bootloader are what FirmwareBanks promises: an update is
\* prepared beside the image in use, takes over in one step when it is whole, and
\* leaves the old image behind.
THEOREM BanksAsPromised == ASSUME Reliable PROVE Spec => ImplementsBanks
<1>1. Init => Promise!Init
    BY StartsAsPromised
<1>2. Inv /\ Inv' /\ [Next]_vars => [Promise!Next]_(Promise!vars)
    <2> SUFFICES ASSUME Inv, Inv', [Next]_vars PROVE [Promise!Next]_(Promise!vars)
        OBVIOUS
    <2>1. CASE EraseTable /\ Active' # Active
        BY <2>1, Activates
    <2>2. CASE EraseTable /\ Active' = Active
        <3>1. bank'[Active] = bank[Active]
            BY <2>2, EraseTableKeeps
        <3> QED
            BY <2>2, <3>1, Prepares
    <2>3. CASE Next /\ ~EraseTable
        BY <2>3, OtherSteps, Prepares
    <2>4. CASE UNCHANGED vars
        <3>1. UNCHANGED <<bank, table, fica, page>>
            BY <2>4 DEF vars
        <3>2. Active' = Active /\ bank'[Active] = bank[Active]
            BY <3>1 DEF Active, CurrentBank, Initialized
        <3> QED
            BY <3>2, Prepares
    <2> QED
        BY <2>1, <2>2, <2>3, <2>4
<1> QED
    BY <1>1, <1>2, Invariance, PTL DEF Spec, ImplementsBanks, Promise!Spec

================================================================================
