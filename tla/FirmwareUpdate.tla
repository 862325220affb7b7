----------------------------- MODULE FirmwareUpdate -----------------------------
(* The bootloader: its choice of an application bank, the image configuration  *)
(* area (FICA) in the last sector of the flash, and the update over USB mass   *)
(* storage, from flash_ica_driver.c, bootloader.c, sln_msc_vfs.c and disk.c.   *)
(*                                                                             *)
(* The bootloader runs one script at a time.  A script is the sequence of FICA *)
(* operations one of its functions performs; each operation either succeeds    *)
(* and gives way to the next one or fails the whole script.  FICA_write_db is  *)
(* not one step: the sector is erased and then programmed page by page, and    *)
(* power may go between any two of them.                                       *)
EXTENDS Naturals, Sequences, FiniteSets

CONSTANTS
    Images,       \* the firmware files there are
    For,          \* the bank each one is linked for
    Length,       \* its length, in sectors written by the host
    Factory,      \* the image bank A is made with
    BankSize,     \* sectors in a bank: FICA_IMG_APP_A_SIZE, FICA_IMG_APP_B_SIZE
    Entries,      \* the lengths that sectors of a copy of the file announce
    Repeats,      \* may the host write a sector of the file twice?
    Faults,       \* the flash operations that may fail
    TornTable,    \* may power go while the sector of the FICA has no header?
    NoImage,      \* a bank that holds no whole image
    Erased,       \* what an erased page reads as
    MaxSessions   \* bound: update sessions in one behaviour

Banks == {"A", "B"}
Flags == {"OTA", "NAI", "NAV", "NAP", "USB"}

ASSUME FirmwareAssumption ==
    /\ For \in [Images -> Banks]
    /\ BankSize \in Nat \ {0}
    /\ Length \in [Images -> Nat \ {0}]
    /\ Factory \in Images /\ For[Factory] = "A" /\ Length[Factory] <= BankSize
    /\ Entries \in [Images -> SUBSET Nat]
    /\ Repeats \in BOOLEAN /\ TornTable \in BOOLEAN
    /\ Faults \subseteq {"bank erase", "bank write", "table erase", "table write"}
    /\ NoImage \notin Images
    /\ MaxSessions \in Nat
    /\ {"blank", "torn"} \cap Images = {}
    /\ Erased \notin Nat
    /\ Erased \notin [comm : SUBSET {"OTA", "NAI", "NAV", "NAP", "USB"},
                      curr : {"A", "B", "bootloader"}, new : {"A", "B", "bootloader"}]

VARIABLES
    bank,         \* the two banks, sector by sector
    table,        \* the FICA in flash: header, record of bank A, record of bank B
    fica,         \* s_fica, its copy in RAM
    stage,        \* what the bootloader is doing
    script,       \* the operations it still has to perform
    page,         \* FICA_write_db: 0 not writing, 1 to erase, 2..4 to program
    file, sent,   \* the host: the file it copies, the sectors it has written
    sector,       \* the sector being handled by MSC_VFS_WriteResponse
    transfer,     \* s_transferState
    fileLength,   \* s_fileLength
    dataWritten,  \* s_dataWritten
    newType,      \* s_newAppImgType
    newLength,    \* s_newAppCurrLen
    sessions      \* update sessions so far

host == <<file, sent>>
usb == <<transfer, fileLength, dataWritten, newType, newLength>>
vars == <<bank, table, fica, stage, script, page, host, sector, usb, sessions>>

Other(b) == IF b = "A" THEN "B" ELSE "A"
Sectors == 1 .. BankSize

-------------------------------------------------------------------------------
(* The configuration area.  It takes four pages: the header is in the first,   *)
(* the length of image A in the second and that of image B in the third; the   *)
(* last page holds nothing the bootloader reads.                               *)

Header == [comm : SUBSET Flags, curr : Banks \cup {"bootloader"},
           new : Banks \cup {"bootloader"}]

Pages == <<"header", "A", "B">>

\* FICA_initialize: bank A, nothing pending, every record empty.
Fresh == [header |-> [comm |-> {"OTA"}, curr |-> "A", new |-> "bootloader"],
          A |-> 0, B |-> 0]

\* is_FICA_initialized: the descriptor and the version are the first words of
\* the header.
Initialized(t) == t.header # Erased

\* Every bit of an erased header reads as one.
Flagged(t, flag) == Initialized(t) => flag \in t.header.comm

\* The bank the next boot takes: the current one of the table, the one being
\* written into it, or the bank FICA_initialize would choose.
CurrentBank ==
    IF Initialized(table) THEN table.header.curr
    ELSE IF page # 0 THEN fica.header.curr ELSE "A"

-------------------------------------------------------------------------------
(* The banks.                                                                  *)

IsWhole(i, b) ==
    /\ For[i] = b /\ Length[i] <= BankSize
    /\ \A k \in 1 .. Length[i] : bank[b][k] = i

ImageIn(b) ==
    IF \E i \in Images : IsWhole(i, b)
    THEN CHOOSE i \in Images : IsWhole(i, b) ELSE NoImage

\* Programming can only clear bits: a sector that is not blank is spoiled by
\* anything but its own contents.
Programmed(old, new) == IF old \in {"blank", new} THEN new ELSE "torn"

-------------------------------------------------------------------------------
(* The scripts, and how an operation of one ends.  A call of FICA_initialize   *)
(* right after another finds the table and changes nothing: one stands for all.*)

ToBoot == << <<"init">>, <<"default">> >>
ToUsb == << <<"init">>, <<"set", "USB">> >>
ToStart == << <<"init">>, <<"default">>, <<"check">>, <<"bank", 1>>,
              <<"set", "NAI">>, <<"store">> >>
ToStore == << <<"store">> >>
\* Seeded bug: the update is never marked as done.
ToFinalizeOpen == << <<"length">>, <<"set", "NAV">>, <<"new">>, <<"set", "NAP">> >>

ToFinalize == << <<"length">>, <<"set", "NAV">>, <<"new">>, <<"set", "NAP">>,
                 <<"clear", "NAI">> >>
ToActivate == << <<"init">>, <<"pending">>, <<"current">>, <<"clear", "NAV">>,
                 <<"clear", "NAP">>, <<"set", "OTA">> >>

Doing(what) == script # << >> /\ page = 0 /\ Head(script)[1] = what

Done == script' = Tail(script) /\ UNCHANGED <<stage, transfer>>

\* A script that fails: the error is ignored when the button was looked at,
\* starts the bootloader over when it was looking for the application, and
\* ends the transfer otherwise.
Fail ==
    /\ script' = << >>
    /\ page' = 0
    /\ stage' = CASE stage = "button" -> "button"
                  [] stage = "boot" -> "off"
                  [] OTHER -> "usb"
    /\ transfer' = IF stage \in {"store", "final"} THEN "ERROR" ELSE transfer

\* FICA_write_db, called with the new contents of s_fica.
WriteTable(t) ==
    /\ fica' = t
    /\ page' = 1
    /\ UNCHANGED <<script, stage, transfer>>

EraseTable ==
    /\ page = 1
    /\ \/ /\ table' = [p \in DOMAIN table |-> Erased]
          /\ page' = 2
          /\ UNCHANGED <<stage, script, transfer>>
       \/ "table erase" \in Faults /\ Fail /\ UNCHANGED table
    /\ UNCHANGED <<bank, fica, host, sector, fileLength, dataWritten, newType,
                   newLength, sessions>>

ProgramPage ==
    /\ page > 1
    /\ \/ /\ table' = [table EXCEPT ![Pages[page - 1]] = fica[Pages[page - 1]]]
          /\ page' = (page + 1) % 5
          /\ IF page = 4 THEN Done ELSE UNCHANGED <<stage, script, transfer>>
       \/ "table write" \in Faults /\ Fail /\ UNCHANGED table
    /\ UNCHANGED <<bank, fica, host, sector, fileLength, dataWritten, newType,
                   newLength, sessions>>

-------------------------------------------------------------------------------
(* The operations of flash_ica_driver.c.                                       *)

flash == <<bank, table, page>>
session == <<host, sector, fileLength, dataWritten, newType, newLength, sessions>>

\* FICA_initialize: reads the table, and makes a new one if there is none.
Initialize ==
    /\ Doing("init")
    /\ IF Initialized(table)
       THEN fica' = table /\ Done /\ UNCHANGED <<table, page>>
       ELSE \/ /\ fica' = Fresh
               /\ table' = [p \in DOMAIN table |-> Erased]
               /\ script' = << <<"record">>, <<"record">>, <<"record">> >>
                            \o Tail(script)
               /\ UNCHANGED <<stage, transfer, page>>
            \/ "table erase" \in Faults /\ Fail /\ UNCHANGED <<table, fica>>
    /\ UNCHANGED <<bank, session>>

\* FICA_write_image_info for a new table: one record, and the whole table.
WriteRecord ==
    /\ Doing("record")
    /\ WriteTable(fica)
    /\ UNCHANGED <<bank, table, session>>

\* FICA_GetCurAppStartType, after FICA_initialize.
DefaultType ==
    /\ Doing("default")
    /\ IF fica.header.curr \in Banks
       THEN Done /\ UNCHANGED <<fica, page>>
       ELSE WriteTable([fica EXCEPT !.header.curr = "A"])
    /\ UNCHANGED <<bank, table, session>>

\* Seeded bug: the bank in use is not refused.
CheckTypeAny ==
    /\ Doing("check")
    /\ newLength' = 0 /\ Done
    /\ UNCHANGED <<bank, table, fica, page, host, sector, fileLength, dataWritten,
                   newType, sessions>>

\* FICA_app_program_ext_init refuses the bank in use.
CheckType ==
    /\ Doing("check")
    /\ IF newType # fica.header.curr
       THEN newLength' = 0 /\ Done /\ UNCHANGED page
       ELSE newLength' = 0 /\ Fail
    /\ UNCHANGED <<bank, table, fica, host, sector, fileLength, dataWritten,
                   newType, sessions>>

\* FICA_Erase_Bank, one sector after the other.
EraseBank ==
    /\ Doing("bank")
    /\ LET k == Head(script)[2] IN
       \/ /\ bank' = [bank EXCEPT ![newType][k] = "blank"]
          /\ script' = IF k = BankSize THEN Tail(script)
                       ELSE << <<"bank", k + 1>> >> \o Tail(script)
          /\ UNCHANGED <<stage, transfer, page>>
       \/ "bank erase" \in Faults /\ Fail /\ UNCHANGED bank
    /\ UNCHANGED <<table, fica, session>>

\* FICA_set_comm_flag
SetFlag ==
    /\ Doing("set")
    /\ LET flag == Head(script)[2] IN
       IF Flagged(table, flag)
       THEN fica' = table /\ Done /\ UNCHANGED page
       ELSE WriteTable([table EXCEPT !.header.comm = @ \cup {flag}])
    /\ UNCHANGED <<bank, table, session>>

\* FICA_clr_comm_flag
ClearFlag ==
    /\ Doing("clear")
    /\ LET flag == Head(script)[2] IN
       IF Flagged(table, flag)
       THEN WriteTable([table EXCEPT !.header.comm = @ \ {flag}])
       ELSE fica' = table /\ Done /\ UNCHANGED page
    /\ UNCHANGED <<bank, table, session>>

\* Seeded bug: no bound, so that a sector beyond the end of bank A lands in
\* bank B, which follows it.
StoreAnyOffset ==
    /\ Doing("store") /\ Flagged(table, "NAI")
    /\ LET b == IF sector <= BankSize THEN newType ELSE "B"
           k == IF sector <= BankSize THEN sector ELSE sector - BankSize
       IN bank' = [bank EXCEPT ![b][k] = Programmed(@, file)]
    /\ newLength' = IF sector > newLength THEN sector ELSE newLength
    /\ dataWritten' = dataWritten + 1
    /\ script' = << >> /\ stage' = "usb"
    /\ transfer' = IF fileLength > 0 /\ dataWritten' >= fileLength
                   THEN "FINAL" ELSE "ACTIVE"
    /\ fica' = table
    /\ UNCHANGED <<table, page, host, sector, fileLength, newType, sessions>>

\* FICA_app_program_ext_abs: within the bank, and only after a successful
\* FICA_app_program_ext_init; MSC_VFS_WriteResponse then counts the sector.
Store ==
    /\ Doing("store")
    /\ \/ /\ sector <= BankSize /\ Flagged(table, "NAI")
          /\ bank' = [bank EXCEPT ![newType][sector] = Programmed(@, file)]
          /\ newLength' = IF sector > newLength THEN sector ELSE newLength
          /\ dataWritten' = dataWritten + 1
          /\ script' = << >>
          /\ stage' = "usb"
          /\ transfer' = IF fileLength > 0 /\ dataWritten' >= fileLength
                         THEN "FINAL" ELSE "ACTIVE"
          /\ UNCHANGED page
       \/ /\ sector > BankSize \/ ~Flagged(table, "NAI")
          /\ Fail
          /\ UNCHANGED <<bank, newLength, dataWritten>>
       \/ /\ "bank write" \in Faults
          /\ sector <= BankSize /\ Flagged(table, "NAI")
          /\ bank' = [bank EXCEPT ![newType][sector] = "torn"]
          /\ newLength' = IF sector > newLength THEN sector ELSE newLength
          /\ Fail
          /\ UNCHANGED dataWritten
    /\ fica' = table
    /\ UNCHANGED <<table, host, sector, fileLength, newType, sessions>>

\* FICA_write_image_info for the new application.
WriteLength ==
    /\ Doing("length")
    /\ WriteTable([fica EXCEPT ![newType] = newLength])
    /\ UNCHANGED <<bank, table, session>>

\* FICA_app_program_ext_finalize: the new type, from the copy in RAM.
WriteNewType ==
    /\ Doing("new")
    /\ WriteTable([fica EXCEPT !.header.new = newType])
    /\ UNCHANGED <<bank, table, session>>

\* FICA_app_program_ext_set_reset_vector: nothing to activate without the flag.
CheckPending ==
    /\ Doing("pending")
    /\ fica' = table
    /\ IF Flagged(table, "NAP")
       THEN newType' = table.header.new /\ Done /\ UNCHANGED page
       ELSE Fail /\ UNCHANGED newType
    /\ UNCHANGED <<bank, table, host, sector, fileLength, dataWritten, newLength,
                   sessions>>

\* FICA_SetCurAppStartType
SetCurrentType ==
    /\ Doing("current")
    /\ WriteTable([fica EXCEPT !.header.curr = newType])
    /\ UNCHANGED <<bank, table, session>>

-------------------------------------------------------------------------------
(* The bootloader, the mass storage and the host.                              *)

Init ==
    /\ bank = [b \in Banks |-> [k \in Sectors |->
                 IF b = "A" /\ k <= Length[Factory] THEN Factory ELSE "blank"]]
    /\ table = [p \in {"header", "A", "B"} |-> Erased]
    /\ fica = Fresh
    /\ stage = "off" /\ script = << >> /\ page = 0
    /\ file = Factory /\ sent = {} /\ sector = 0
    /\ transfer = "IDLE" /\ fileLength = 0 /\ dataWritten = 0
    /\ newType = "bootloader" /\ newLength = 0
    /\ sessions = 0

\* The start of the bootloader initializes its variables; s_fica is read from
\* the flash before it is used.
Restart ==
    /\ fica' = Fresh
    /\ script' = << >> /\ page' = 0
    /\ file' = Factory /\ sent' = {} /\ sector' = 0
    /\ transfer' = "IDLE" /\ fileLength' = 0 /\ dataWritten' = 0
    /\ newType' = "bootloader" /\ newLength' = 0
    /\ UNCHANGED <<bank, table, sessions>>

\* BootloaderMain without the button: jumpToMainAppTask.
Boot ==
    /\ stage = "off"
    /\ stage' = "boot" /\ script' = ToBoot
    /\ UNCHANGED <<flash, fica, session, transfer>>

\* The application it found is entered.
Jump ==
    /\ stage = "boot" /\ script = << >> /\ page = 0
    /\ stage' = "app"
    /\ UNCHANGED <<flash, fica, session, script, transfer>>

\* CheckForMSDMode with the button pressed, and a host about to copy a file.
PressButton ==
    /\ stage = "off" /\ sessions < MaxSessions
    /\ sessions' = sessions + 1
    /\ stage' = "button" /\ script' = ToUsb
    /\ file' \in Images
    /\ UNCHANGED <<flash, fica, sent, sector, usb>>

\* The disk is there, whatever became of the flag in the FICA.
ConnectUsb ==
    /\ stage = "button" /\ script = << >> /\ page = 0
    /\ stage' = "usb"
    /\ UNCHANGED <<flash, fica, session, script, transfer>>

Sending(k) ==
    /\ stage = "usb"
    /\ k \in 1 .. Length[file]
    /\ k \notin sent \/ Repeats
    /\ sent' = sent \cup {k}
    /\ sector' = k

\* MSC_VFS_WriteResponse, idle, for the sector with the vector table.
SendFirst ==
    /\ transfer = "IDLE"
    /\ Sending(1)
    /\ transfer' = "START"
    /\ newType' = For[file]
    /\ stage' = "store" /\ script' = ToStart
    /\ UNCHANGED <<flash, fica, file, fileLength, dataWritten, newLength, sessions>>

\* Any other sector: the data is dropped unless a transfer is active.
SendSector(k) ==
    /\ Sending(k)
    /\ \/ /\ transfer = "ACTIVE"
          /\ stage' = "store" /\ script' = ToStore
       \/ /\ transfer \in {"FINAL", "ERROR"} \/ (transfer = "IDLE" /\ k # 1)
          /\ UNCHANGED <<stage, script>>
    /\ UNCHANGED <<flash, fica, transfer, file, fileLength, dataWritten, newType,
                   newLength, sessions>>

\* Seeded bug: the length is compared only when a sector of the file is stored.
SendEntryUnchecked(n) ==
    /\ stage = "usb"
    /\ fileLength' = IF 0 < n /\ n <= BankSize THEN n ELSE fileLength
    /\ UNCHANGED <<flash, fica, host, sector, stage, script, transfer, dataWritten,
                   newType, newLength, sessions>>

\* A sector that announces a length: the directory entry of the file.
SendEntry(n) ==
    /\ stage = "usb"
    /\ fileLength' = IF 0 < n /\ n <= BankSize THEN n ELSE fileLength
    /\ transfer' = IF transfer = "ACTIVE" /\ fileLength' > 0
                      /\ dataWritten >= fileLength'
                   THEN "FINAL" ELSE transfer
    /\ UNCHANGED <<flash, fica, host, sector, stage, script, dataWritten, newType,
                   newLength, sessions>>

\* USB_Transfer_Finalize
Finalize ==
    /\ stage = "usb" /\ transfer = "FINAL" /\ script = << >>
    /\ stage' = "final" /\ script' = ToFinalize \o ToActivate
    /\ UNCHANGED <<flash, fica, session, transfer>>

\* ReRunBootloader, after the finalization or an error.  The address it jumps to
\* is in the table: without one the device needs a reset.
ReRun ==
    /\ script = << >> /\ page = 0
    /\ stage = "final" \/ (stage = "usb" /\ transfer = "ERROR")
    /\ stage' = IF Initialized(table) THEN "off" ELSE "lost"
    /\ Restart

\* Power is lost, or the device is reset.
PowerLoss ==
    /\ stage # "off"
    /\ TornTable \/ Initialized(table) \/ page = 0
    /\ stage' = "off"
    /\ Restart

Next ==
    \/ EraseTable \/ ProgramPage
    \/ Initialize \/ WriteRecord \/ DefaultType \/ CheckType \/ EraseBank
    \/ SetFlag \/ ClearFlag \/ Store \/ WriteLength \/ WriteNewType
    \/ CheckPending \/ SetCurrentType
    \/ Boot \/ Jump \/ PressButton \/ ConnectUsb \/ SendFirst
    \/ \E k \in 1 .. Length[file] : SendSector(k)
    \/ \E n \in Entries[file] : SendEntry(n)
    \/ Finalize \/ ReRun \/ PowerLoss

Spec == Init /\ [][Next]_vars

-------------------------------------------------------------------------------
(* Properties.                                                                 *)

Operations == {<<"init">>, <<"default">>, <<"check">>, <<"record">>, <<"store">>,
               <<"length">>, <<"new">>, <<"pending">>, <<"current">>}
              \cup {<<"bank", k>> : k \in Sectors}
              \cup {<<does, flag>> : does \in {"set", "clear"}, flag \in Flags}

TypeOK ==
    /\ bank \in [Banks -> [Sectors -> Images \cup {"blank", "torn"}]]
    /\ DOMAIN table = {"header", "A", "B"} /\ DOMAIN fica = DOMAIN table
    /\ table.header \in Header \cup {Erased} /\ fica.header \in Header \cup {Erased}
    /\ \A b \in Banks : {table[b], fica[b]} \subseteq 0 .. BankSize \cup {Erased}
    /\ stage \in {"off", "boot", "button", "usb", "store", "final", "app", "lost"}
    /\ script \in Seq(Operations) /\ page \in 0 .. 4
    /\ file \in Images /\ sent \subseteq 1 .. Length[file]
    /\ sector \in 0 .. Length[file]
    /\ transfer \in {"IDLE", "START", "ACTIVE", "FINAL", "ERROR"}
    /\ fileLength \in 0 .. BankSize /\ dataWritten \in Nat
    /\ newType \in Banks \cup {"bootloader"} /\ newLength \in 0 .. BankSize
    /\ sessions \in 0 .. MaxSessions

\* The device boots: whatever the moment power is lost at and whatever the
\* update it interrupts, the bank the next boot takes (jumpToMainAppTask looks
\* at nothing but the type in the FICA) holds the whole of an image linked for it.
BootsWhole == ImageIn(CurrentBank) # NoImage

\* When USB_Transfer_Finalize is through without an error, the file the host
\* copied is in its bank with its length in the FICA, that bank is the current
\* one, and no flag of the update is left set.
FinishedIsActive ==
    stage = "final" /\ script = << >> /\ page = 0 =>
        /\ IsWhole(file, table.header.curr)
        /\ table[table.header.curr] = Length[file]
        /\ table.header.comm \cap {"NAI", "NAV", "NAP"} = {}
        /\ "OTA" \in table.header.comm

\* A transfer whose file is in the bank and whose length was announced, in
\* whatever order the sectors came, is not left waiting for another write.
NotLeftWaiting ==
    stage = "usb" /\ transfer = "ACTIVE" /\ fileLength = Length[file] =>
        ~IsWhole(file, newType)

\* The two banks keep the promise of FirmwareBanks: what is active changes in
\* one step, to a whole image, and the image it replaces stays behind.
Promise == INSTANCE FirmwareBanks
    WITH active <- ImageIn(CurrentBank), spare <- ImageIn(Other(CurrentBank))
ImplementsBanks == Promise!Spec

=========================
