-------------------------------- MODULE Swfw --------------------------------
(***************************************************************************)
(* The semaphores between the two PCI functions of an 82599 and its        *)
(* firmware: kmod/ixmap_eeprom.c, and their users in kmod/ixmap_82599.c    *)
(* and kmod/ixmap_common.c.  SMBI (taken by reading it as 0) and SWESMBI   *)
(* (set, then checked) protect GSSR, whose bits are the locks proper.      *)
(*                                                                         *)
(* The drivers run their code concurrently, one access of SMBI or GSSR a   *)
(* step; a try for SWESMBI, which sets it and reads it back, is one step.  *)
(* Time: a try counts towards a time-out only if whoever is in the way     *)
(* hangs; the time-outs (100 ms, 1 s) are much longer than a working       *)
(* holder needs.                                                           *)
(***************************************************************************)
EXTENDS Integers

CONSTANTS
  Driver,      \* the PCI functions
  Op,          \* the operations that are run, of the four below
  Tries,       \* 200: tries of ixmap_acquire_swfw_sync
  SemTries     \* 2000: tries of each loop of ixmap_get_eeprom_semaphore

Firmware == "fw"
Nobody   == "nobody"

(* The users of the locks, and the GSSR bit each takes: EEP_SM, MAC_CSR_SM *)
(* or SW_MNG_SM.                                                           *)
User == [read_eeprom_bit_bang |-> "EEP", prot_autoc_write |-> "MAC_CSR",
         setup_sfp_modules |-> "MAC_CSR", set_fw_drv_ver |-> "SW_MNG"]

Resource == {User[o] : o \in Op}

ASSUME SwfwAssumption ==
  /\ Tries \in Nat \ {0} /\ SemTries \in Nat \ {0}
  /\ Op \subseteq DOMAIN User /\ Op # {}
  /\ Firmware \notin Driver /\ Nobody \notin Driver
  /\ \A c, d, e \in Driver : c = d \/ d = e \/ c = e  \* an 82599 has two functions

VARIABLES
  smbi,     \* who took SMBI last: a driver, or Nobody if the bit is clear
  swesmbi,  \* the bit
  fwsmbi,   \* the firmware has its semaphore, so SWESMBI cannot be set
  gssr,     \* the bits that are set: <<"sw" or "fw", resource>>
  fwhas,    \* the resources the firmware has locked
  hung,     \* the actors that hang
  pc,       \* where each driver is
  goal,     \* what it takes the semaphore for: "acquire", "break", "release"
  op,       \* the operation it is to lock for
  mask,     \* the bits it is to clear
  copy,     \* its local variable gssr
  tries, sem  \* its loop counters

regs  == <<smbi, swesmbi, gssr>>
fwvar == <<fwsmbi, fwhas>>
local == <<pc, goal, op, mask, copy, tries, sem>>
vars  == <<regs, fwvar, hung, local>>

-----------------------------------------------------------------------------
Bits(o) == [sw |-> <<"sw", User[o]>>, fw |-> <<"fw", User[o]>>]

Goto(d, l) == pc' = [pc EXCEPT ![d] = l]

(* Who has the lock of an operation. *)
Has(d) == \/ pc[d] = "using"
          \/ goal[d] = "acquire" /\ pc[d] = "unlock"
          \/ goal[d] = "release" /\ pc[d] # "idle"
Holder(o) ==
  {d \in Driver : Bits(op[d]).sw = Bits(o).sw /\ Has(d)}
    \union (IF User[o] \in fwhas THEN {Firmware} ELSE {})

(* The operation begins: acquire_swfw_sync. *)
Start(d, o) ==
  /\ pc[d] = "idle"
  /\ Goto(d, "smbi")
  /\ goal' = [goal EXCEPT ![d] = "acquire"]
  /\ op' = [op EXCEPT ![d] = o]
  /\ tries' = [tries EXCEPT ![d] = 0]
  /\ sem' = [sem EXCEPT ![d] = 0]
  /\ UNCHANGED <<regs, fwvar, hung, mask, copy>>

(* ixmap_get_eeprom_semaphore, the loop for SMBI. *)
GetSmbi(d) ==
  /\ pc[d] = "smbi"
  /\ IF smbi = Nobody
     THEN smbi' = d /\ Goto(d, "swesmbi") /\ sem' = [sem EXCEPT ![d] = 0]
     ELSE /\ smbi \in hung
          /\ sem' = [sem EXCEPT ![d] = @ + 1]
          /\ IF sem[d] + 1 = SemTries THEN Goto(d, "force") ELSE UNCHANGED pc
          /\ UNCHANGED smbi
  /\ UNCHANGED <<swesmbi, gssr, fwvar, hung, goal, op, mask, copy, tries>>

(* Its time-out: both semaphores are cleared, whoever has them. *)
ForceSmbi(d) ==
  /\ pc[d] = "force"
  /\ smbi' = Nobody /\ swesmbi' = FALSE
  /\ Goto(d, "last")
  /\ UNCHANGED <<gssr, fwvar, hung, goal, op, mask, copy, tries, sem>>

(* Where a failed ixmap_get_eeprom_semaphore leads: acquire_swfw_sync      *)
(* returns an error, release_swfw_sync does not look.                      *)
NoSemaphore(d) == Goto(d, IF goal[d] = "acquire" THEN "idle" ELSE "read")

(* One last try. *)
LastSmbi(d) ==
  /\ pc[d] = "last"
  /\ IF smbi = Nobody
     THEN smbi' = d /\ Goto(d, "swesmbi") /\ sem' = [sem EXCEPT ![d] = 0]
     ELSE NoSemaphore(d) /\ UNCHANGED <<smbi, sem>>
  /\ UNCHANGED <<swesmbi, gssr, fwvar, hung, goal, op, mask, copy, tries>>

(* The loop for SWESMBI: the bit is set if the firmware lets it. *)
GetSwesmbi(d) ==
  /\ pc[d] = "swesmbi"
  /\ IF ~ fwsmbi
     THEN swesmbi' = TRUE /\ Goto(d, "read") /\ UNCHANGED <<smbi, sem>>
     ELSE /\ Firmware \in hung
          /\ sem' = [sem EXCEPT ![d] = @ + 1]
          /\ IF sem[d] + 1 < SemTries
             THEN UNCHANGED <<smbi, swesmbi, pc>>
             ELSE smbi' = Nobody /\ swesmbi' = FALSE /\ NoSemaphore(d)
  /\ UNCHANGED <<gssr, fwvar, hung, goal, op, mask, copy, tries>>

(* Mutant: only the bit of the drivers is looked at. *)
ReadGssrSw(d) ==
  /\ pc[d] = "read"
  /\ copy' = [copy EXCEPT ![d] = gssr]
  /\ Goto(d, IF goal[d] = "acquire" /\ Bits(op[d]).sw \in gssr THEN "busy" ELSE "write")
  /\ UNCHANGED <<regs, fwvar, hung, goal, op, mask, tries, sem>>

(* GSSR is read; to acquire, both bits have to be clear. *)
ReadGssr(d) ==
  LET b == Bits(op[d])
  IN  /\ pc[d] = "read"
      /\ copy' = [copy EXCEPT ![d] = gssr]
      /\ Goto(d, IF goal[d] = "acquire" /\ {b.sw, b.fw} \intersect gssr # {}
                 THEN "busy" ELSE "write")
      /\ UNCHANGED <<regs, fwvar, hung, goal, op, mask, tries, sem>>

WriteGssr(d) ==
  /\ pc[d] = "write"
  /\ gssr' = IF goal[d] = "acquire" THEN copy[d] \union {Bits(op[d]).sw}
             ELSE copy[d] \ mask[d]
  /\ Goto(d, "unlock")
  /\ UNCHANGED <<smbi, swesmbi, fwvar, hung, goal, op, mask, copy, tries, sem>>

(* ixmap_release_eeprom_semaphore, and the end of acquire or release. *)
Unlock(d) ==
  /\ pc[d] = "unlock"
  /\ smbi' = Nobody /\ swesmbi' = FALSE
  /\ Goto(d, IF goal[d] = "acquire" THEN "using" ELSE "idle")
  /\ UNCHANGED <<gssr, fwvar, hung, goal, op, mask, copy, tries, sem>>

(* Mutant: after the last try the bits stay. *)
BusyGiveUp(d) ==
  LET n == tries[d] + (IF Holder(op[d]) \subseteq hung THEN 1 ELSE 0)
  IN  /\ pc[d] = "busy"
      /\ smbi' = Nobody /\ swesmbi' = FALSE
      /\ tries' = [tries EXCEPT ![d] = n]
      /\ sem' = [sem EXCEPT ![d] = 0]
      /\ Goto(d, IF n < Tries THEN "smbi" ELSE "idle")
      /\ UNCHANGED <<gssr, fwvar, hung, op, copy, goal, mask>>

(* The lock is busy: the semaphore is released, and after a pause comes    *)
(* the next try.  With the last one the bits in the way are cleared; the   *)
(* lock is not tried again, an error is returned.                          *)
Busy(d) ==
  LET b == Bits(op[d])
      n == tries[d] + (IF Holder(op[d]) \subseteq hung THEN 1 ELSE 0)
  IN  /\ pc[d] = "busy"
      /\ smbi' = Nobody /\ swesmbi' = FALSE
      /\ tries' = [tries EXCEPT ![d] = n]
      /\ sem' = [sem EXCEPT ![d] = 0]
      /\ Goto(d, "smbi")
      /\ IF n < Tries
         THEN UNCHANGED <<goal, mask>>
         ELSE /\ goal' = [goal EXCEPT ![d] = "break"]
              /\ mask' = [mask EXCEPT ![d] = {b.sw, b.fw} \intersect copy[d]]
      /\ UNCHANGED <<gssr, fwvar, hung, op, copy>>

(* Mutant: an error of the operation returns with the lock. *)
FinishError(d) ==
  /\ pc[d] = "using"
  /\ \/ /\ Goto(d, "smbi")
        /\ goal' = [goal EXCEPT ![d] = "release"]
        /\ mask' = [mask EXCEPT ![d] = {Bits(op[d]).sw}]
        /\ sem' = [sem EXCEPT ![d] = 0]
     \/ Goto(d, "idle") /\ UNCHANGED <<goal, mask, sem>>
  /\ UNCHANGED <<regs, fwvar, hung, op, copy, tries>>

(* The operation is over, with success or not, and the lock is released:   *)
(* ixmap_release_swfw_sync.                                                *)
Finish(d) ==
  /\ pc[d] = "using"
  /\ Goto(d, "smbi")
  /\ goal' = [goal EXCEPT ![d] = "release"]
  /\ mask' = [mask EXCEPT ![d] = {Bits(op[d]).sw}]
  /\ sem' = [sem EXCEPT ![d] = 0]
  /\ UNCHANGED <<regs, fwvar, hung, op, copy, tries>>

DriverStep(d) ==
  \/ GetSmbi(d) \/ ForceSmbi(d) \/ LastSmbi(d) \/ GetSwesmbi(d)
  \/ ReadGssr(d) \/ WriteGssr(d) \/ Unlock(d) \/ Busy(d) \/ Finish(d)

-----------------------------------------------------------------------------
(* The firmware keeps to the protocol; it takes and leaves its semaphore   *)
(* in the same step, unless it hangs in between.                           *)
FwTake(r) ==
  /\ ~ swesmbi /\ fwhas = {}
  /\ {<<"sw", r>>, <<"fw", r>>} \intersect gssr = {}
  /\ gssr' = gssr \union {<<"fw", r>>}
  /\ fwhas' = {r}
  /\ UNCHANGED <<smbi, swesmbi, fwsmbi, hung, local>>

FwGive ==
  /\ ~ swesmbi /\ fwhas # {}
  /\ gssr' = gssr \ {<<"fw", r>> : r \in fwhas}
  /\ fwhas' = {}
  /\ UNCHANGED <<smbi, swesmbi, fwsmbi, hung, local>>

FwStep == FwGive \/ \E r \in Resource : FwTake(r)

(* One of them hangs, for good: the firmware, perhaps in its semaphore, or *)
(* the driver of a function (which may be another driver's, or a guest's). *)
HangFirmware ==
  /\ hung = {}
  /\ hung' = {Firmware}
  /\ fwsmbi' \in {FALSE, ~ swesmbi}
  /\ UNCHANGED <<regs, fwhas, local>>

HangDriver(d) ==
  /\ hung = {}
  /\ pc[d] # "idle"
  /\ hung' = {d}
  /\ UNCHANGED <<regs, fwvar, local>>

Init ==
  /\ smbi = Nobody /\ swesmbi = FALSE /\ fwsmbi = FALSE
  /\ gssr = {} /\ fwhas = {} /\ hung = {}
  /\ pc = [d \in Driver |-> "idle"]
  /\ goal = [d \in Driver |-> "acquire"]
  /\ op = [d \in Driver |-> CHOOSE o \in Op : TRUE]
  /\ mask = [d \in Driver |-> {}] /\ copy = [d \in Driver |-> {}]
  /\ tries = [d \in Driver |-> 0] /\ sem = [d \in Driver |-> 0]

Next ==
  \/ \E d \in Driver \ hung : DriverStep(d) \/ \E o \in Op : Start(d, o)
  \/ Firmware \notin hung /\ FwStep
  \/ HangFirmware
  \/ \E d \in Driver : HangDriver(d)

Spec == Init /\ [][Next]_vars

(* A driver that waits for the semaphore polls it every 50 us, and whoever *)
(* does not hang pauses for milliseconds after it had it: it finds the     *)
(* semaphore free if it is so again and again.                             *)
FairSpec ==
  /\ Spec
  /\ \A d \in Driver : /\ WF_vars(d \notin hung /\ DriverStep(d))
                       /\ SF_vars(d \notin hung /\ GetSmbi(d))

-----------------------------------------------------------------------------
(* Types; the loop counters stay within the limits of their loops. *)
TypeOK ==
  /\ smbi \in Driver \union {Nobody}
  /\ swesmbi \in BOOLEAN /\ fwsmbi \in BOOLEAN
  /\ gssr \subseteq {"sw", "fw"} \X Resource
  /\ fwhas \subseteq Resource /\ hung \subseteq Driver \union {Firmware}
  /\ pc \in [Driver -> {"idle", "smbi", "force", "last", "swesmbi", "read",
                        "write", "unlock", "busy", "using"}]
  /\ goal \in [Driver -> {"acquire", "break", "release"}]
  /\ op \in [Driver -> Op]
  /\ \A d \in Driver : /\ mask[d] \subseteq {"sw", "fw"} \X Resource
                       /\ copy[d] \subseteq {"sw", "fw"} \X Resource
  /\ tries \in [Driver -> 0 .. Tries] /\ sem \in [Driver -> 0 .. SemTries]

(* A lock has one holder among those that do not hang, although a driver   *)
(* that runs into a time-out clears the semaphore, and the lock's bits,    *)
(* under whoever had them.                                                 *)
Exclusive ==
  \A d \in Driver \ hung : Has(d) => Holder(op[d]) \subseteq hung \union {d}

(* The firmware hangs in its semaphore: no driver gets SWESMBI any more. *)
SemaphoreLost == fwsmbi /\ Firmware \in hung

(* No bit of a driver is left behind in GSSR with nobody to clear it,      *)
(* although the bits of all locks are in one register that is read and     *)
(* written back, and release_swfw_sync does so even if it did not get the  *)
(* semaphore.  (With SemaphoreLost two releases may undo each other.)  The *)
(* loops end in time too: see TypeOK.                                      *)
NoOrphanBit ==
  /\ TypeOK
  /\ SemaphoreLost \/ \A o \in Op : Bits(o).sw \in gssr => Holder(o) # {}

(* An operation whose lock is with someone that hangs. *)
Stuck(o) ==
  /\ Holder(o) \intersect hung # {}
  /\ {Bits(o).sw, Bits(o).fw} \intersect gssr # {}

(* A lock that is with someone that hangs is given up by force in the end  *)
(* if a driver keeps asking for it: acquire_swfw_sync clears the bits when *)
(* its tries are used up.                                                  *)
StuckIsBroken ==
  \A d \in Driver, o \in Op :
    ([]<><<d \notin hung /\ Start(d, o)>>_vars) => []<>(~ Stuck(o) \/ SemaphoreLost)
=============================================================================
