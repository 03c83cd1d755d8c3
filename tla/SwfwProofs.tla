----------------------------- MODULE SwfwProofs -----------------------------
(***************************************************************************)
(* Proofs about Swfw for any operations and any number of tries.  That a   *)
(* chip has two functions is needed: with a third, two drivers may run     *)
(* into the time-out for the same semaphore, and the second clears it      *)
(* under the first.                                                        *)
(***************************************************************************)
EXTENDS Swfw, TLAPS

Working == Driver \ hung
Bit     == {"sw", "fw"} \X Resource
sw(d)   == <<"sw", User[op[d]]>>
fw(d)   == <<"fw", User[op[d]]>>

Types ==
  /\ smbi \in Driver \union {Nobody}
  /\ swesmbi \in BOOLEAN /\ fwsmbi \in BOOLEAN
  /\ gssr \subseteq Bit
  /\ fwhas \subseteq Resource
  /\ pc \in [Driver -> {"idle", "smbi", "force", "last", "swesmbi", "read",
                        "write", "unlock", "busy", "using"}]
  /\ goal \in [Driver -> {"acquire", "break", "release"}]
  /\ op \in [Driver -> Op]
  /\ mask \in [Driver -> SUBSET Bit] /\ copy \in [Driver -> SUBSET Bit]
  /\ tries \in [Driver -> 0 .. Tries] /\ sem \in [Driver -> 0 .. SemTries]

(* The loop counters are below the limit where they are counted up. *)
Counters ==
  \A d \in Driver : /\ goal[d] = "acquire" => tries[d] < Tries
                    /\ pc[d] \in {"smbi", "swesmbi"} => sem[d] < SemTries

(* At most one actor hangs, and the semaphore of the firmware is taken for *)
(* longer than a step only when it does.                                   *)
Hangs ==
  /\ hung \subseteq Driver \union {Firmware}
  /\ \A x, y \in hung : x = y
  /\ fwsmbi => Firmware \in hung

(* What the goals go with. *)
Goals ==
  \A d \in Driver :
    /\ pc[d] \in {"using", "busy"} => goal[d] = "acquire"
    /\ goal[d] = "release" /\ pc[d] # "idle" => mask[d] = {sw(d)}

(* Between the semaphores. *)
InSemaphore(d) == pc[d] \in {"read", "write", "unlock", "busy"}

(* A driver that works is between the semaphores only with both of them;   *)
(* once the firmware hangs in its own, only to clear bits.  A time-out     *)
(* means that the other driver hangs.                                      *)
Semaphore ==
  \A d \in Working :
    /\ ~ fwsmbi => /\ pc[d] = "swesmbi" => smbi = d
                   /\ InSemaphore(d) => smbi = d /\ swesmbi
    /\ fwsmbi /\ InSemaphore(d) => goal[d] # "acquire"
    /\ pc[d] = "force" => smbi \in hung
    /\ pc[d] = "last" => smbi = Nobody /\ hung \intersect Driver # {}

(* GSSR does not change while a driver has read it and not yet written it. *)
Fresh ==
  ~ fwsmbi => \A d \in Working :
    /\ pc[d] \in {"write", "busy"} => copy[d] = gssr
    /\ pc[d] = "write" /\ goal[d] = "acquire" => {sw(d), fw(d)} \intersect gssr = {}

(* The bits are those of the holders. *)
SwBits ==
  ~ fwsmbi =>
    /\ \A d \in Working : Has(d) /\ ~ (goal[d] = "release" /\ pc[d] = "unlock") => sw(d) \in gssr
    /\ \A d \in Working : goal[d] = "release" /\ pc[d] = "unlock" => sw(d) \notin gssr
    /\ \A r \in Resource : <<"sw", r>> \in gssr => \E d \in Driver : Has(d) /\ User[op[d]] = r
FwBits ==
  ~ fwsmbi => \A r \in Resource :
    /\ <<"fw", r>> \in gssr => r \in fwhas
    /\ Firmware \notin hung /\ r \in fwhas => <<"fw", r>> \in gssr

(* A driver sets out to clear bits of who hangs only. *)
Breaks ==
  ~ fwsmbi => \A d \in Working : goal[d] = "break" /\ pc[d] # "idle" =>
    /\ \A r \in Resource : <<"fw", r>> \in mask[d] => Firmware \in hung
    /\ \A r \in Resource : <<"sw", r>> \in mask[d] => hung \intersect Driver # {}

(* The locks of those that do not hang are different. *)
Apart ==
  /\ \A d, e \in Working : Has(d) /\ Has(e) /\ User[op[d]] = User[op[e]] => d = e
  /\ Firmware \notin hung => \A d \in Working : Has(d) => User[op[d]] \notin fwhas

Inv == /\ Types /\ Counters /\ Hangs /\ Goals /\ Semaphore
       /\ Fresh /\ SwBits /\ FwBits /\ Breaks /\ Apart

(* The bits of a driver's operation. *)
LEMMA BitFacts ==
  ASSUME Types
  PROVE  /\ \A d \in Driver : /\ User[op[d]] \in Resource
                              /\ Bits(op[d]).sw = sw(d) /\ Bits(op[d]).fw = fw(d)
                              /\ sw(d) \in Bit /\ fw(d) \in Bit
         /\ \A r \in Resource : <<"fw", r>> \in Bit /\ <<"sw", r>> \in Bit
         /\ \A b \in Bit : \E r \in Resource : b = <<"sw", r>> \/ b = <<"fw", r>>
         /\ \A x, y : <<"sw", x>> # <<"fw", y>>
<1>1. \A d \in Driver : User[op[d]] \in Resource
  BY DEF Types, Resource
<1>2. \A r \in Resource : <<"fw", r>> \in Bit /\ <<"sw", r>> \in Bit
  BY DEF Bit
<1>3. \A b \in Bit : \E r \in Resource : b = <<"sw", r>> \/ b = <<"fw", r>>
  BY DEF Bit
<1>4. \A o : Bits(o).sw = <<"sw", User[o]>> /\ Bits(o).fw = <<"fw", User[o]>>
  BY DEF Bits
<1> QED BY <1>1, <1>2, <1>3, <1>4 DEF sw, fw

(* Who the actors are; if a driver hangs, one driver and the firmware are  *)
(* left.                                                                   *)
LEMMA ActorFacts ==
  ASSUME Hangs
  PROVE  /\ Nobody \notin hung /\ Firmware \notin Driver /\ Nobody \notin Driver
         /\ hung \intersect Driver # {} =>
              /\ \A d, e \in Working : d = e
              /\ ~ fwsmbi /\ Firmware \notin hung
<1>1. Nobody # Firmware
  BY DEF Nobody, Firmware
<1>2. Firmware \notin Driver /\ Nobody \notin Driver
  BY SwfwAssumption
<1>3. Nobody \notin hung
  BY <1>1, <1>2 DEF Hangs
<1>4. ASSUME NEW c \in hung, c \in Driver
      PROVE  (\A d, e \in Working : d = e) /\ ~ fwsmbi /\ Firmware \notin hung
  <2>1. Firmware \notin hung
    BY <1>2, <1>4 DEF Hangs
  <2>2. \A d, e \in Working : d = e
    BY <1>4, SwfwAssumption DEF Working
  <2> QED BY <2>1, <2>2 DEF Hangs
<1> QED BY <1>2, <1>3, <1>4

(* The operation begins. *)
LEMMA StartInv ==
  ASSUME Inv, NEW d \in Working, NEW o \in Op, Start(d, o) PROVE Inv'
<1> USE SwfwAssumption DEF Inv, Start, Goto, regs, fwvar, local, Working
<1>1. Types'
  BY DEF Types
<1>2. Counters'
  BY DEF Types, Counters
<1>3. Hangs'
  BY DEF Hangs
<1>4. Goals'
  BY DEF Types, Goals, sw
<1>5. Semaphore'
  BY DEF Types, Hangs, Semaphore, InSemaphore
<1>6. Fresh'
  BY DEF Types, Semaphore, InSemaphore, Fresh, sw, fw
<1>7. SwBits'
  BY DEF Types, SwBits, sw, Has
<1>8. FwBits'
  BY DEF Types, FwBits
<1>9. Breaks'
  BY DEF Types, Breaks
<1>10. Apart'
  BY DEF Types, Apart, Has
<1> QED BY <1>1, <1>2, <1>3, <1>4, <1>5, <1>6, <1>7, <1>8, <1>9, <1>10

(* SMBI is taken if it is free, a try is counted if its holder hangs. *)
LEMMA GetSmbiInv ==
  ASSUME Inv, NEW d \in Working, GetSmbi(d) PROVE Inv'
<1> USE SwfwAssumption DEF Inv, GetSmbi, Goto, regs, fwvar, local, Working
<1>1. Types'
  BY DEF Types, Counters
<1>2. Counters'
  BY DEF Types, Counters
<1>3. Hangs'
  BY DEF Hangs
<1>4. Goals'
  BY DEF Types, Goals, sw
<1>5. Semaphore'
  <2>1. CASE smbi = Nobody
    <3>1. smbi' = d /\ swesmbi' = swesmbi /\ fwsmbi' = fwsmbi /\ hung' = hung
          /\ pc' = [pc EXCEPT ![d] = "swesmbi"] /\ goal' = goal
      BY <2>1
    <3>2. \A e \in Working : pc[e] # "force" /\ (~ fwsmbi => ~ InSemaphore(e) /\ pc[e] # "swesmbi")
      BY <2>1, ActorFacts DEF Semaphore
    <3>3. \A e \in Working : pc[e] # "last"
      BY ActorFacts DEF Semaphore
    <3> QED BY <3>1, <3>2, <3>3 DEF Types, Semaphore, InSemaphore
  <2>2. CASE smbi # Nobody
    <3>1. smbi' = smbi /\ swesmbi' = swesmbi /\ smbi \in hung /\ smbi \in Driver
      BY <2>2 DEF Types
    <3>2. pc' = pc \/ pc' = [pc EXCEPT ![d] = "force"]
      BY <2>2
    <3> QED BY <3>1, <3>2 DEF Types, Hangs, Semaphore, InSemaphore
  <2> QED BY <2>1, <2>2
<1>6. Fresh'
  BY DEF Types, Semaphore, InSemaphore, Fresh, sw, fw
<1>7. SwBits'
  BY DEF Types, SwBits, sw, Has
<1>8. FwBits'
  BY DEF Types, FwBits
<1>9. Breaks'
  BY DEF Types, Breaks
<1>10. Apart'
  BY DEF Types, Apart, Has
<1> QED BY <1>1, <1>2, <1>3, <1>4, <1>5, <1>6, <1>7, <1>8, <1>9, <1>10

(* The semaphores are cleared under a driver that hangs. *)
LEMMA ForceSmbiInv ==
  ASSUME Inv, NEW d \in Working, ForceSmbi(d) PROVE Inv'
<1> USE SwfwAssumption DEF Inv, ForceSmbi, Goto, regs, fwvar, local, Working
<1>1. Types'
  BY DEF Types
<1>2. Counters'
  BY DEF Types, Counters
<1>3. Hangs'
  BY DEF Hangs
<1>4. Goals'
  BY DEF Types, Goals, sw
<1>5. Semaphore'
  <2>1. smbi \in hung /\ smbi \in Driver
    BY ActorFacts DEF Types, Semaphore
  <2>2. Working = {d} /\ Working' = {d} /\ ~ fwsmbi
    BY <2>1, ActorFacts
  <2>3. smbi' = Nobody /\ hung' = hung /\ fwsmbi' = fwsmbi /\ pc'[d] = "last"
    BY DEF Types
  <2> QED BY <2>1, <2>2, <2>3 DEF Semaphore, InSemaphore
<1>6. Fresh'
  BY DEF Types, Semaphore, InSemaphore, Fresh, sw, fw
<1>7. SwBits'
  BY DEF Types, SwBits, sw, Has
<1>8. FwBits'
  BY DEF Types, FwBits
<1>9. Breaks'
  BY DEF Types, Breaks
<1>10. Apart'
  BY DEF Types, Apart, Has
<1> QED BY <1>1, <1>2, <1>3, <1>4, <1>5, <1>6, <1>7, <1>8, <1>9, <1>10

(* With two drivers the last try succeeds: whoever had SMBI hangs. *)
LEMMA LastSmbiIs ==
  ASSUME Inv, NEW d \in Working, LastSmbi(d)
  PROVE  /\ pc[d] = "last" /\ smbi' = d
         /\ pc' = [pc EXCEPT ![d] = "swesmbi"] /\ sem' = [sem EXCEPT ![d] = 0]
         /\ UNCHANGED <<swesmbi, gssr, fwsmbi, fwhas, hung, goal, op, mask, copy, tries>>
         /\ Working = {d} /\ ~ fwsmbi
<1>1. smbi = Nobody /\ hung \intersect Driver # {}
  BY DEF Inv, Semaphore, LastSmbi
<1>2. Working = {d} /\ ~ fwsmbi
  BY <1>1, SwfwAssumption DEF Inv, Hangs, Working
<1> QED BY <1>1, <1>2 DEF LastSmbi, Goto, fwvar

(* SMBI is taken after it was cleared. *)
LEMMA LastSmbiInv ==
  ASSUME Inv, NEW d \in Working, LastSmbi(d) PROVE Inv'
<1> USE LastSmbiIs, SwfwAssumption DEF Inv, Working
<1>1. Types'
  BY DEF Types
<1>2. Counters'
  BY DEF Types, Counters
<1>3. Hangs'
  BY DEF Hangs
<1>4. Goals'
  BY DEF Types, Goals, sw
<1>5. Semaphore'
  BY DEF Types, Semaphore, InSemaphore
<1>6. Fresh'
  BY DEF Types, Fresh, sw, fw
<1>7. SwBits'
  BY DEF Types, SwBits, sw, Has
<1>8. FwBits'
  BY DEF Types, FwBits
<1>9. Breaks'
  BY DEF Types, Breaks
<1>10. Apart'
  BY DEF Types, Apart, Has
<1> QED BY <1>1, <1>2, <1>3, <1>4, <1>5, <1>6, <1>7, <1>8, <1>9, <1>10

(* SWESMBI is set, or the firmware hangs in its semaphore. *)
LEMMA GetSwesmbiIs ==
  ASSUME Inv, NEW d \in Working, GetSwesmbi(d)
  PROVE  /\ pc[d] = "swesmbi"
         /\ UNCHANGED <<gssr, fwsmbi, fwhas, hung, goal, op, mask, copy, tries>>
         /\ \/ /\ ~ fwsmbi /\ swesmbi' = TRUE /\ smbi' = smbi /\ sem' = sem
               /\ pc' = [pc EXCEPT ![d] = "read"]
            \/ /\ fwsmbi /\ sem[d] + 1 < SemTries /\ sem' = [sem EXCEPT ![d] = @ + 1]
               /\ smbi' = smbi /\ swesmbi' = swesmbi /\ pc' = pc
            \/ /\ fwsmbi /\ ~ (sem[d] + 1 < SemTries) /\ sem' = [sem EXCEPT ![d] = @ + 1]
               /\ smbi' = Nobody /\ swesmbi' = FALSE
               /\ \/ goal[d] = "acquire" /\ pc' = [pc EXCEPT ![d] = "idle"]
                  \/ goal[d] # "acquire" /\ pc' = [pc EXCEPT ![d] = "read"]
BY DEF GetSwesmbi, NoSemaphore, Goto, fwvar

(* The three outcomes of the loop for SWESMBI. *)
LEMMA GetSwesmbiInv ==
  ASSUME Inv, NEW d \in Working, GetSwesmbi(d) PROVE Inv'
<1> USE SwfwAssumption DEF Inv, Working
<1> DEFINE Same == UNCHANGED <<gssr, fwsmbi, fwhas, hung, goal, op, mask, copy, tries>>
<1>0. pc[d] = "swesmbi" /\ Same
  BY GetSwesmbiIs
<1>1. CASE ~ fwsmbi /\ swesmbi' = TRUE /\ smbi' = smbi /\ sem' = sem
           /\ pc' = [pc EXCEPT ![d] = "read"]
  <2>1. Types'
    <3>1. swesmbi' \in BOOLEAN
      BY <1>1
    <3>2. pc' \in [Driver -> {"idle", "smbi", "force", "last", "swesmbi", "read",
                             "write", "unlock", "busy", "using"}]
      BY <1>1 DEF Types
    <3> QED BY <3>1, <3>2, <1>0, <1>1 DEF Types
  <2>2. Counters'
    BY <1>0, <1>1 DEF Types, Counters
  <2>3. Hangs'
    BY <1>0, <1>1 DEF Hangs
  <2>4. Goals'
    BY <1>0, <1>1 DEF Types, Goals, sw
  <2>5. Semaphore'
    BY <1>0, <1>1 DEF Types, Semaphore, InSemaphore
  <2>6. Fresh'
    BY <1>0, <1>1 DEF Types, Fresh, sw, fw
  <2>7. SwBits'
    BY <1>0, <1>1 DEF Types, SwBits, sw, Has
  <2>8. FwBits'
    BY <1>0, <1>1 DEF Types, FwBits
  <2>9. Breaks'
    BY <1>0, <1>1 DEF Types, Breaks
  <2>10. Apart'
    BY <1>0, <1>1 DEF Types, Apart, Has
  <2> QED BY <2>1, <2>2, <2>3, <2>4, <2>5, <2>6, <2>7, <2>8, <2>9, <2>10
<1>2. CASE fwsmbi /\ sem[d] + 1 < SemTries /\ sem' = [sem EXCEPT ![d] = @ + 1]
           /\ smbi' = smbi /\ swesmbi' = swesmbi /\ pc' = pc
  <2>1. Types'
    BY <1>0, <1>2 DEF Types, Counters
  <2>2. Counters'
    BY <1>0, <1>2 DEF Types, Counters
  <2>3. Hangs'
    BY <1>0, <1>2 DEF Hangs
  <2>4. Goals'
    BY <1>0, <1>2 DEF Types, Goals, sw
  <2>5. Semaphore'
    BY <1>0, <1>2 DEF Types, Semaphore, InSemaphore
  <2>6. Fresh'
    BY <1>0, <1>2 DEF Types, Fresh, sw, fw
  <2>7. SwBits'
    BY <1>0, <1>2 DEF Types, SwBits, sw, Has
  <2>8. FwBits'
    BY <1>0, <1>2 DEF Types, FwBits
  <2>9. Breaks'
    BY <1>0, <1>2 DEF Types, Breaks
  <2>10. Apart'
    BY <1>0, <1>2 DEF Types, Apart, Has
  <2> QED BY <2>1, <2>2, <2>3, <2>4, <2>5, <2>6, <2>7, <2>8, <2>9, <2>10
<1>3. CASE /\ fwsmbi /\ ~ (sem[d] + 1 < SemTries) /\ sem' = [sem EXCEPT ![d] = @ + 1]
           /\ smbi' = Nobody /\ swesmbi' = FALSE
           /\ \/ goal[d] = "acquire" /\ pc' = [pc EXCEPT ![d] = "idle"]
              \/ goal[d] # "acquire" /\ pc' = [pc EXCEPT ![d] = "read"]
  <2>0. Firmware \in hung /\ hung \intersect Driver = {}
    BY <1>3 DEF Hangs
  <2>1. Types'
    <3>1. smbi' \in Driver \union {Nobody} /\ swesmbi' \in BOOLEAN
      BY <1>3
    <3>2. pc' \in [Driver -> {"idle", "smbi", "force", "last", "swesmbi", "read",
                             "write", "unlock", "busy", "using"}]
      BY <1>3 DEF Types
    <3>3. sem' \in [Driver -> 0 .. SemTries]
      BY <1>0, <1>3 DEF Types, Counters
    <3> QED BY <3>1, <3>2, <3>3, <1>0 DEF Types
  <2>2. Counters'
    BY <1>0, <1>3, <2>0 DEF Types, Counters
  <2>3. Hangs'
    BY <1>0, <1>3, <2>0 DEF Hangs
  <2>4. Goals'
    BY <1>0, <1>3, <2>0 DEF Types, Goals, sw
  <2>5. Semaphore'
    BY <1>0, <1>3, <2>0 DEF Types, Semaphore, InSemaphore
  <2>6. Fresh'
    BY <1>0, <1>3, <2>0 DEF Types, Fresh, sw, fw
  <2>7. SwBits'
    BY <1>0, <1>3, <2>0 DEF Types, SwBits, sw, Has
  <2>8. FwBits'
    BY <1>0, <1>3, <2>0 DEF Types, FwBits
  <2>9. Breaks'
    BY <1>0, <1>3, <2>0 DEF Types, Breaks
  <2>10. Apart'
    BY <1>0, <1>3, <2>0 DEF Types, Apart, Has
  <2> QED BY <2>1, <2>2, <2>3, <2>4, <2>5, <2>6, <2>7, <2>8, <2>9, <2>10
<1> QED BY <1>1, <1>2, <1>3, GetSwesmbiIs

(* Nobody else is in the semaphore when GSSR is read. *)
LEMMA ReadGssrInv ==
  ASSUME Inv, NEW d \in Working, ReadGssr(d) PROVE Inv'
<1> USE SwfwAssumption DEF Inv, ReadGssr, Goto, regs, fwvar, local, Working
<1>1. Types'
  BY DEF Types
<1>2. Counters'
  BY DEF Types, Counters
<1>3. Hangs'
  BY DEF Hangs
<1>4. Goals'
  BY DEF Types, Goals, sw
<1>5. Semaphore'
  BY DEF Types, Hangs, Semaphore, InSemaphore
<1>6. Fresh'
  <2>1. ~ fwsmbi => \A e \in Working : e # d => ~ InSemaphore(e)
    BY DEF Semaphore, InSemaphore
  <2>2. /\ copy'[d] = gssr
        /\ pc'[d] = "write" /\ goal[d] = "acquire" => {sw(d), fw(d)} \intersect gssr = {}
        /\ \A e \in Driver : e # d => pc'[e] = pc[e] /\ copy'[e] = copy[e]
    BY BitFacts DEF Types
  <2> QED BY <2>1, <2>2 DEF Fresh, InSemaphore, sw, fw
<1>7. SwBits'
  BY DEF Types, SwBits, sw, Has
<1>8. FwBits'
  BY DEF Types, FwBits
<1>9. Breaks'
  BY DEF Types, Breaks
<1>10. Apart'
  BY DEF Types, Apart, Has
<1> QED BY <1>1, <1>2, <1>3, <1>4, <1>5, <1>6, <1>7, <1>8, <1>9, <1>10

(* What is written differs from GSSR in bits of this driver or of who hangs. *)
LEMMA WriteGssrInv ==
  ASSUME Inv, NEW d \in Working, WriteGssr(d) PROVE Inv'
<1> USE SwfwAssumption DEF Inv, WriteGssr, Goto, regs, fwvar, local, Working
<1>0. /\ gssr' = IF goal[d] = "acquire" THEN copy[d] \union {sw(d)} ELSE copy[d] \ mask[d]
      /\ pc[d] = "write" /\ pc' = [pc EXCEPT ![d] = "unlock"]
      /\ UNCHANGED <<smbi, swesmbi, fwsmbi, fwhas, hung, goal, op, mask, copy, tries, sem>>
  BY BitFacts
<1>f1. ~ fwsmbi => copy[d] = gssr /\ smbi = d
  BY <1>0 DEF Fresh, Semaphore, InSemaphore
<1>f2. goal[d] = "acquire" => ~ fwsmbi /\ sw(d) \notin gssr /\ fw(d) \notin gssr
  BY <1>0 DEF Fresh, Semaphore, InSemaphore
<1>f3. ~ fwsmbi => \A e \in Working : e # d => ~ InSemaphore(e)
  BY <1>f1 DEF Semaphore
<1>f4. \A e \in Driver : /\ e # d => (Has(e)' <=> Has(e)) /\ pc'[e] = pc[e]
                         /\ Has(e) => Has(e)'
                         /\ sw(e)' = sw(e)
  BY <1>0 DEF Has, Types, sw
<1>f5. pc'[d] = "unlock" /\ (Has(d)' <=> goal[d] # "break") /\ (Has(d) <=> goal[d] = "release")
  BY <1>0 DEF Has, Types
<1>1. Types'
  <2>1. gssr' \subseteq Bit
    BY <1>0, BitFacts DEF Types
  <2> QED BY <1>0, <2>1 DEF Types
<1>2. Counters'
  BY DEF Types, Counters
<1>3. Hangs'
  BY DEF Hangs
<1>4. Goals'
  BY DEF Types, Goals, sw
<1>5. Semaphore'
  BY DEF Types, Hangs, Semaphore, InSemaphore
<1>6. Fresh'
  BY DEF Types, Semaphore, InSemaphore, Fresh, sw, fw
<1>7. SwBits'
  <2> SUFFICES ASSUME ~ fwsmbi PROVE SwBits'
    BY <1>0 DEF SwBits
  <2>1. CASE goal[d] = "acquire"
    <3>1. gssr' = gssr \union {sw(d)}
      BY <1>0, <1>f1, <2>1
    <3>2. ASSUME NEW e \in Working PROVE
            /\ Has(e)' /\ ~ (goal[e] = "release" /\ pc'[e] = "unlock") => sw(e) \in gssr'
            /\ goal[e] = "release" /\ pc'[e] = "unlock" => sw(e) \notin gssr'
      <4>1. CASE e = d
        BY <2>1, <3>1, <4>1
      <4>2. CASE e # d
        BY <1>f3, <1>f4, <3>1, <4>2 DEF SwBits, InSemaphore
      <4> QED BY <4>1, <4>2
    <3>3. ASSUME NEW r \in Resource, <<"sw", r>> \in gssr'
          PROVE  \E e \in Driver : Has(e)' /\ User[op[e]] = r
      <4>1. CASE <<"sw", r>> \in gssr
        BY <1>f4, <4>1 DEF SwBits
      <4>2. CASE <<"sw", r>> = sw(d)
        BY <1>f5, <2>1, <4>2 DEF sw
      <4> QED BY <3>1, <3>3, <4>1, <4>2
    <3> QED BY <1>0, <1>f4, <3>2, <3>3 DEF SwBits
  <2>2. CASE goal[d] # "acquire"
    <3>1. gssr' = gssr \ mask[d]
      BY <1>0, <1>f1, <2>2
    <3>2. ASSUME NEW e \in Working, Has(e), sw(e) \in mask[d] PROVE e = d
      <4>1. CASE goal[d] = "release"
        <5>1. mask[d] = {sw(d)}
          BY <1>0, <4>1 DEF Goals
        <5>2. User[op[e]] = User[op[d]] /\ Has(d)
          BY <1>f5, <3>2, <4>1, <5>1 DEF sw
        <5> QED BY <3>2, <5>2 DEF Apart
      <4>2. CASE goal[d] = "break"
        <5>1. hung \intersect Driver # {}
          BY <1>0, <3>2, <4>2, BitFacts DEF Breaks, sw
        <5> QED BY <5>1, ActorFacts
      <4> QED BY <2>2, <4>1, <4>2 DEF Types
    <3>3. ASSUME NEW e \in Working PROVE
            /\ Has(e)' /\ ~ (goal[e] = "release" /\ pc'[e] = "unlock") => sw(e) \in gssr'
            /\ goal[e] = "release" /\ pc'[e] = "unlock" => sw(e) \notin gssr'
      <4>1. CASE e = d
        <5>1. goal[d] = "release" => mask[d] = {sw(d)}
          BY <1>0 DEF Goals
        <5> QED BY <1>0, <1>f5, <2>2, <3>1, <4>1, <5>1 DEF Types
      <4>2. CASE e # d
        BY <1>f3, <1>f4, <3>1, <3>2, <4>2 DEF SwBits, InSemaphore
      <4> QED BY <4>1, <4>2
    <3> QED BY <1>0, <1>f4, <3>1, <3>3 DEF SwBits
  <2> QED BY <2>1, <2>2
<1>8. FwBits'
  <2>0. fwsmbi' = fwsmbi /\ fwhas' = fwhas /\ hung' = hung
    BY <1>0
  <2> HIDE DEF Inv, WriteGssr
  <2> SUFFICES ASSUME ~ fwsmbi, NEW r \in Resource
               PROVE  /\ <<"fw", r>> \in gssr' => r \in fwhas
                      /\ Firmware \notin hung /\ r \in fwhas => <<"fw", r>> \in gssr'
    BY <2>0 DEF FwBits
  <2> USE DEF Inv
  <2>1. <<"fw", r>> \in gssr' => <<"fw", r>> \in gssr
    BY <1>0, <1>f1, BitFacts DEF sw
  <2>2. ASSUME Firmware \notin hung, <<"fw", r>> \in gssr PROVE <<"fw", r>> \in gssr'
    <3>1. CASE goal[d] = "acquire"
      BY <1>0, <1>f1, <2>2, <3>1
    <3>2. CASE goal[d] = "release"
      <4>1. mask[d] = {sw(d)}
        BY <1>0, <3>2 DEF Goals
      <4> QED BY <1>0, <1>f1, <2>2, <3>2, <4>1, BitFacts DEF sw
    <3>3. CASE goal[d] = "break"
      BY <1>0, <1>f1, <2>2, <3>3 DEF Breaks
    <3> QED BY <3>1, <3>2, <3>3 DEF Types
  <2> QED BY <2>1, <2>2 DEF FwBits
<1>9. Breaks'
  BY DEF Types, Breaks
<1>10. Apart'
  <2>1. CASE goal[d] = "acquire"
    <3>1. ASSUME NEW e \in Working, e # d, Has(e) PROVE User[op[e]] # User[op[d]]
      BY <1>f2, <1>f3, <2>1, <3>1 DEF SwBits, InSemaphore, sw
    <3>2. Firmware \notin hung => User[op[d]] \notin fwhas
      BY <1>f2, <2>1, BitFacts DEF FwBits, fw
    <3> QED BY <1>0, <1>f4, <3>1, <3>2 DEF Apart
  <2>2. CASE goal[d] # "acquire"
    <3>1. \A e \in Working : Has(e)' => Has(e)
      BY <1>0, <1>f4, <1>f5, <2>2 DEF Types
    <3> QED BY <1>0, <3>1 DEF Apart
  <2> QED BY <2>1, <2>2
<1> QED BY <1>1, <1>2, <1>3, <1>4, <1>5, <1>6, <1>7, <1>8, <1>9, <1>10

(* The semaphore is given back with the bits as the goal wants them. *)
LEMMA UnlockInv ==
  ASSUME Inv, NEW d \in Working, Unlock(d) PROVE Inv'
<1> USE SwfwAssumption DEF Inv, Unlock, Goto, regs, fwvar, local, Working
<1>1. Types'
  BY DEF Types
<1>2. Counters'
  BY DEF Types, Counters
<1>3. Hangs'
  BY DEF Hangs
<1>4. Goals'
  BY DEF Types, Goals, sw
<1>5. Semaphore'
  BY DEF Types, Hangs, Semaphore, InSemaphore
<1>6. Fresh'
  BY DEF Types, Semaphore, InSemaphore, Fresh, sw, fw
<1>7. SwBits'
  <2> SUFFICES ASSUME ~ fwsmbi PROVE SwBits'
    BY DEF SwBits
  <2>1. /\ \A e \in Driver : e # d => (Has(e)' <=> Has(e)) /\ pc'[e] = pc[e]
        /\ Has(d)' <=> goal[d] = "acquire"
        /\ goal[d] = "acquire" => Has(d)
        /\ \A e \in Driver : sw(e)' = sw(e)
        /\ pc'[d] # "unlock" /\ gssr' = gssr /\ goal' = goal /\ op' = op
    BY DEF Has, Types, sw
  <2>2. \A e \in Working :
          /\ Has(e)' /\ ~ (goal[e] = "release" /\ pc'[e] = "unlock") => sw(e) \in gssr
          /\ goal[e] = "release" /\ pc'[e] = "unlock" => sw(e) \notin gssr
    BY <2>1 DEF SwBits
  <2>3. ASSUME NEW r \in Resource, <<"sw", r>> \in gssr
        PROVE  \E e \in Driver : Has(e)' /\ User[op[e]] = r
    <3>1. PICK e \in Driver : Has(e) /\ User[op[e]] = r
      BY <2>3 DEF SwBits
    <3>2. CASE e # d
      BY <2>1, <3>1, <3>2
    <3>3. CASE e = d /\ goal[d] = "acquire"
      BY <2>1, <3>1, <3>3
    <3>4. CASE e = d /\ goal[d] # "acquire"
      <4>1. goal[d] = "release"
        BY <3>1, <3>4 DEF Has
      <4> QED BY <2>3, <3>1, <3>4, <4>1 DEF SwBits, sw
    <3> QED BY <3>2, <3>3, <3>4
  <2> QED BY <2>1, <2>2, <2>3 DEF SwBits
<1>8. FwBits'
  BY DEF Types, FwBits
<1>9. Breaks'
  BY DEF Types, Breaks
<1>10. Apart'
  BY DEF Types, Apart, Has
<1> QED BY <1>1, <1>2, <1>3, <1>4, <1>5, <1>6, <1>7, <1>8, <1>9, <1>10

(* The bits to clear after the last try are of someone who hangs. *)
LEMMA BusyInv ==
  ASSUME Inv, NEW d \in Working, Busy(d) PROVE Inv'
<1> USE SwfwAssumption DEF Inv, Busy, Goto, regs, fwvar, local, Working
<1>0. /\ pc[d] = "busy" /\ pc' = [pc EXCEPT ![d] = "smbi"] /\ goal[d] = "acquire"
      /\ UNCHANGED <<gssr, fwsmbi, fwhas, hung, op, copy>>
  BY DEF Goals
<1>f1. /\ tries[d] \in Nat /\ tries[d] < Tries
       /\ tries' = [tries EXCEPT ![d] = tries[d]] \/ tries' = [tries EXCEPT ![d] = tries[d] + 1]
  <2>1. tries[d] \in Nat /\ tries[d] < Tries
    BY <1>0 DEF Types, Counters
  <2>2. CASE Holder(op[d]) \subseteq hung
    BY <2>1, <2>2
  <2>3. CASE ~ (Holder(op[d]) \subseteq hung)
    <3> DEFINE n == tries[d] + (IF Holder(op[d]) \subseteq hung THEN 1 ELSE 0)
    <3>1. n = tries[d]
      BY <2>1, <2>3
    <3>2. tries' = [tries EXCEPT ![d] = n]
      OBVIOUS
    <3> HIDE DEF n, Busy
    <3> QED BY <2>1, <3>1, <3>2
  <2> QED BY <2>1, <2>2, <2>3
<1>f2. \/ goal' = goal /\ mask' = mask /\ tries'[d] < Tries
       \/ /\ goal' = [goal EXCEPT ![d] = "break"]
          /\ mask' = [mask EXCEPT ![d] = {sw(d), fw(d)} \intersect copy[d]]
          /\ Holder(op[d]) \subseteq hung
  <2>1. Bits(op[d]).sw = sw(d) /\ Bits(op[d]).fw = fw(d)
    BY BitFacts
  <2>2. CASE Holder(op[d]) \subseteq hung /\ tries[d] + 1 < Tries
    BY <1>f1, <2>2 DEF Types
  <2>3. CASE Holder(op[d]) \subseteq hung /\ ~ (tries[d] + 1 < Tries)
    BY <2>1, <2>3
  <2>4. CASE ~ (Holder(op[d]) \subseteq hung)
    BY <1>f1, <2>4 DEF Types
  <2> QED BY <2>2, <2>3, <2>4
<1>1. Types'
  <2>1. smbi' \in Driver \union {Nobody} /\ swesmbi' \in BOOLEAN
    OBVIOUS
  <2>2. tries' \in [Driver -> 0 .. Tries]
    BY <1>f1 DEF Types
  <2>3. goal' \in [Driver -> {"acquire", "break", "release"}] /\ mask' \in [Driver -> SUBSET Bit]
    <3>1. {sw(d), fw(d)} \intersect copy[d] \in SUBSET Bit
      BY DEF Types
    <3> HIDE DEF Busy
    <3> QED BY <1>f2, <3>1 DEF Types
  <2>4. sem' \in [Driver -> 0 .. SemTries]
    BY DEF Types
  <2> QED BY <1>0, <2>1, <2>2, <2>3, <2>4 DEF Types
<1>2. Counters'
  <2>1. tries'[d] < Tries \/ goal'[d] = "break"
    BY <1>f2 DEF Types
  <2>2. sem'[d] = 0 /\ \A e \in Driver : e # d => tries'[e] = tries[e] /\ sem'[e] = sem[e]
    BY DEF Types
  <2>3. \A e \in Driver : e # d => goal'[e] = goal[e] /\ pc'[e] = pc[e]
    BY <1>0, <1>f2 DEF Types
  <2> QED BY <2>1, <2>2, <2>3 DEF Types, Counters
<1>3. Hangs'
  BY DEF Hangs
<1>4. Goals'
  BY DEF Types, Goals, sw
<1>5. Semaphore'
  BY DEF Types, Hangs, Semaphore, InSemaphore
<1>6. Fresh'
  BY DEF Types, Semaphore, InSemaphore, Fresh, sw, fw
<1>7. SwBits'
  <2>1. \A e \in Driver : /\ Has(e)' <=> Has(e)
                          /\ e # d => goal'[e] = goal[e] /\ pc'[e] = pc[e]
    BY <1>0, <1>f2 DEF Has, Types
  <2>2. pc'[d] = "smbi" /\ ~ Has(d)
    BY <1>0 DEF Has, Types
  <2> QED BY <1>0, <2>1, <2>2 DEF SwBits, sw
<1>8. FwBits'
  BY DEF Types, FwBits
<1>9. Breaks'
  <2> SUFFICES ASSUME ~ fwsmbi PROVE Breaks'
    BY <1>0 DEF Breaks
  <2>1. CASE goal' = goal /\ mask' = mask
    BY <1>0, <2>1 DEF Breaks, Types
  <2>2. CASE /\ goal' = [goal EXCEPT ![d] = "break"]
             /\ mask' = [mask EXCEPT ![d] = {sw(d), fw(d)} \intersect copy[d]]
             /\ Holder(op[d]) \subseteq hung
    <3>1. mask'[d] = {sw(d), fw(d)} \intersect gssr
      BY <1>0, <2>2 DEF Fresh, Types
    <3>2. ASSUME NEW r \in Resource, <<"fw", r>> \in mask'[d] PROVE Firmware \in hung
      <4>1. r = User[op[d]] /\ <<"fw", r>> \in gssr
        BY <3>1, <3>2 DEF sw, fw
      <4> QED BY <2>2, <4>1 DEF FwBits, Holder
    <3>3. ASSUME NEW r \in Resource, <<"sw", r>> \in mask'[d] PROVE hung \intersect Driver # {}
      <4>1. r = User[op[d]] /\ <<"sw", r>> \in gssr
        BY <3>1, <3>3 DEF sw, fw
      <4>2. PICK e \in Driver : Has(e) /\ User[op[e]] = r
        BY <4>1 DEF SwBits
      <4>3. Bits(op[e]).sw = Bits(op[d]).sw
        BY <4>1, <4>2 DEF Bits
      <4> QED BY <2>2, <4>2, <4>3 DEF Holder
    <3>4. \A e \in Driver : e # d => goal'[e] = goal[e] /\ pc'[e] = pc[e] /\ mask'[e] = mask[e]
      BY <1>0, <2>2 DEF Types
    <3> QED BY <1>0, <3>2, <3>3, <3>4 DEF Breaks
  <2> QED BY <1>f2, <2>1, <2>2
<1>10. Apart'
  BY DEF Types, Apart, Has
<1> QED BY <1>1, <1>2, <1>3, <1>4, <1>5, <1>6, <1>7, <1>8, <1>9, <1>10

(* The operation ends and its bit is to be cleared. *)
LEMMA FinishInv ==
  ASSUME Inv, NEW d \in Working, Finish(d) PROVE Inv'
<1> USE SwfwAssumption DEF Inv, Finish, Goto, regs, fwvar, local, Working
<1>0. mask' = [mask EXCEPT ![d] = {sw(d)}]
  BY BitFacts
<1>1. Types'
  BY <1>0, BitFacts DEF Types
<1>2. Counters'
  BY DEF Types, Counters
<1>3. Hangs'
  BY DEF Hangs
<1>4. Goals'
  BY <1>0 DEF Types, Goals, sw
<1>5. Semaphore'
  BY DEF Types, Hangs, Semaphore, InSemaphore
<1>6. Fresh'
  BY DEF Types, Semaphore, InSemaphore, Fresh, sw, fw
<1>7. SwBits'
  BY DEF Types, SwBits, sw, Has
<1>8. FwBits'
  BY DEF Types, FwBits
<1>9. Breaks'
  BY DEF Types, Breaks
<1>10. Apart'
  BY DEF Types, Apart, Has
<1> QED BY <1>1, <1>2, <1>3, <1>4, <1>5, <1>6, <1>7, <1>8, <1>9, <1>10

(* The firmware takes a lock nobody has. *)
LEMMA FwTakeInv ==
  ASSUME Inv, NEW r \in Resource, Firmware \notin hung, FwTake(r) PROVE Inv'
<1> USE SwfwAssumption DEF Inv, FwTake, Goto, regs, fwvar, local, Working
<1>0. ~ fwsmbi /\ \A d \in Working : ~ InSemaphore(d)
  BY DEF Hangs, Semaphore
<1>1. Types'
  <2>1. gssr' \subseteq Bit
    <3>1. <<"fw", r>> \in Bit /\ gssr \subseteq Bit
      BY BitFacts DEF Types
    <3> QED BY <3>1
  <2> QED BY <2>1 DEF Types
<1>2. Counters'
  BY DEF Types, Counters
<1>3. Hangs'
  BY DEF Hangs
<1>4. Goals'
  BY DEF Types, Goals, sw
<1>5. Semaphore'
  BY DEF Types, Hangs, Semaphore, InSemaphore
<1>6. Fresh'
  BY DEF Types, Semaphore, InSemaphore, Fresh, sw, fw
<1>7. SwBits'
  BY DEF Types, SwBits, sw, Has
<1>8. FwBits'
  BY DEF Types, FwBits
<1>9. Breaks'
  BY DEF Types, Breaks
<1>10. Apart'
  <2>1. \A d \in Working : Has(d) => User[op[d]] # r
    BY <1>0 DEF SwBits, InSemaphore, sw
  <2> QED BY <2>1 DEF Apart, Has
<1> QED BY <1>1, <1>2, <1>3, <1>4, <1>5, <1>6, <1>7, <1>8, <1>9, <1>10

(* The firmware gives its locks back. *)
LEMMA FwGiveInv ==
  ASSUME Inv, Firmware \notin hung, FwGive PROVE Inv'
<1> USE SwfwAssumption DEF Inv, FwGive, Goto, regs, fwvar, local, Working
<1>1. Types'
  BY DEF Types
<1>2. Counters'
  BY DEF Types, Counters
<1>3. Hangs'
  BY DEF Hangs
<1>4. Goals'
  BY DEF Types, Goals, sw
<1>5. Semaphore'
  BY DEF Types, Hangs, Semaphore, InSemaphore
<1>6. Fresh'
  BY DEF Types, Semaphore, InSemaphore, Fresh, sw, fw
<1>7. SwBits'
  BY DEF Types, SwBits, sw, Has
<1>8. FwBits'
  <2> SUFFICES ASSUME NEW r \in Resource, <<"fw", r>> \in gssr', ~ fwsmbi PROVE FALSE
    BY DEF FwBits
  <2>1. r \in fwhas
    BY DEF FwBits
  <2> QED BY <2>1
<1>9. Breaks'
  BY DEF Types, Breaks
<1>10. Apart'
  BY DEF Types, Apart, Has
<1> QED BY <1>1, <1>2, <1>3, <1>4, <1>5, <1>6, <1>7, <1>8, <1>9, <1>10

(* If it hangs in its semaphore, no driver is in theirs. *)
LEMMA HangFirmwareInv ==
  ASSUME Inv, HangFirmware PROVE Inv'
<1> USE SwfwAssumption DEF Inv, HangFirmware, Goto, regs, fwvar, local, Working
<1>0. fwsmbi' => \A d \in Working : ~ InSemaphore(d) \/ fwsmbi
  BY DEF Semaphore, Types
<1>f1. fwsmbi' \in BOOLEAN /\ ~ fwsmbi
  BY DEF Hangs
<1>f2. \A d \in Working' : d \in Working
  BY DEF Working
<1>1. Types'
  BY DEF Types
<1>2. Counters'
  BY DEF Types, Counters
<1>3. Hangs'
  BY DEF Hangs
<1>4. Goals'
  BY DEF Types, Goals, sw
<1>5. Semaphore'
  BY <1>0, <1>f1, <1>f2 DEF Types, Hangs, Semaphore, InSemaphore
<1>6. Fresh'
  BY <1>0, <1>f1 DEF Fresh, sw, fw
<1>7. SwBits'
  BY <1>0, <1>f1 DEF SwBits, sw, Has
<1>8. FwBits'
  BY <1>0, <1>f1 DEF FwBits
<1>9. Breaks'
  BY <1>0, <1>f1 DEF Breaks
<1>10. Apart'
  BY DEF Types, Apart, Has
<1> QED BY <1>1, <1>2, <1>3, <1>4, <1>5, <1>6, <1>7, <1>8, <1>9, <1>10

(* A driver that hangs is one less of whom something is promised. *)
LEMMA HangDriverInv ==
  ASSUME Inv, NEW d \in Driver, HangDriver(d) PROVE Inv'
<1> USE SwfwAssumption DEF Inv, HangDriver, Goto, regs, fwvar, local, Working
<1>1. Types'
  BY DEF Types
<1>2. Counters'
  BY DEF Types, Counters
<1>3. Hangs'
  BY DEF Hangs
<1>4. Goals'
  BY DEF Types, Goals, sw
<1>5. Semaphore'
  BY DEF Types, Hangs, Semaphore, InSemaphore
<1>6. Fresh'
  BY DEF Types, Semaphore, InSemaphore, Fresh, sw, fw
<1>7. SwBits'
  BY DEF Types, SwBits, sw, Has
<1>8. FwBits'
  BY DEF Types, FwBits
<1>9. Breaks'
  BY DEF Types, Breaks
<1>10. Apart'
  BY DEF Types, Apart, Has
<1> QED BY <1>1, <1>2, <1>3, <1>4, <1>5, <1>6, <1>7, <1>8, <1>9, <1>10

(* Nothing is locked at first. *)
LEMMA InitInv == Init => Inv
<1> USE SwfwAssumption DEF Init
<1> SUFFICES ASSUME Init PROVE Inv
  OBVIOUS
<1>1. Types
  <2> DEFINE first == CHOOSE o \in Op : TRUE
  <2>1. first \in Op
    OBVIOUS
  <2>2. op = [d \in Driver |-> first]
    OBVIOUS
  <2>3. /\ smbi = Nobody /\ swesmbi = FALSE /\ fwsmbi = FALSE /\ gssr = {} /\ fwhas = {}
        /\ pc = [d \in Driver |-> "idle"] /\ goal = [d \in Driver |-> "acquire"]
        /\ mask = [d \in Driver |-> {}] /\ copy = [d \in Driver |-> {}]
        /\ tries = [d \in Driver |-> 0] /\ sem = [d \in Driver |-> 0]
    OBVIOUS
  <2> HIDE DEF first, Init
  <2>4. op \in [Driver -> Op]
    BY <2>1, <2>2
  <2>5. swesmbi \in BOOLEAN /\ fwsmbi \in BOOLEAN
    BY <2>3
  <2> QED BY <2>3, <2>4, <2>5 DEF Types
<1>2. Counters /\ Hangs /\ Goals
  BY DEF Counters, Hangs, Goals
<1>3. Semaphore /\ Fresh /\ Breaks
  BY DEF Semaphore, InSemaphore, Fresh, Breaks, Working
<1>4. SwBits /\ FwBits /\ Apart
  BY DEF SwBits, FwBits, Apart, Has, Working
<1> QED BY <1>1, <1>2, <1>3, <1>4 DEF Inv

(* Every step of a driver or the firmware keeps the invariant. *)
LEMMA StepInv == Inv /\ [Next]_vars => Inv'
<1> SUFFICES ASSUME Inv, [Next]_vars PROVE Inv'
  OBVIOUS
<1>1. ASSUME NEW d \in Driver \ hung, DriverStep(d) \/ \E o \in Op : Start(d, o) PROVE Inv'
  <2>1. d \in Working
    BY DEF Working
  <2> QED
    BY <1>1, <2>1, StartInv, GetSmbiInv, ForceSmbiInv, LastSmbiInv, GetSwesmbiInv,
       ReadGssrInv, WriteGssrInv, UnlockInv, BusyInv, FinishInv DEF DriverStep
<1>2. CASE Firmware \notin hung /\ FwStep
  BY <1>2, FwTakeInv, FwGiveInv DEF FwStep
<1>3. CASE HangFirmware
  BY <1>3, HangFirmwareInv
<1>4. ASSUME NEW d \in Driver, HangDriver(d) PROVE Inv'
  BY <1>4, HangDriverInv
<1>5. CASE UNCHANGED vars
  <2> USE <1>5 DEF Inv, vars, regs, fwvar, local, Working
  <2>1. (Types /\ Counters /\ Hangs /\ Goals)'
    BY DEF Types, Counters, Hangs, Goals, sw
  <2>2. (Semaphore /\ Fresh)'
    BY DEF Semaphore, InSemaphore, Fresh, sw, fw
  <2>3. (SwBits /\ FwBits /\ Breaks /\ Apart)'
    BY DEF SwBits, FwBits, Breaks, Apart, Has, sw
  <2> QED BY <2>1, <2>2, <2>3
<1> QED BY <1>1, <1>2, <1>3, <1>4, <1>5 DEF Next

(* The invariant of the semaphores and the locks. *)
THEOREM SwfwInvariant == Spec => []Inv
<1>1. Init => Inv
  BY InitInv
<1>2. Inv /\ [Next]_vars => Inv'
  BY StepInv
<1> QED BY <1>1, <1>2, PTL DEF Spec

(* What the invariant says of the holder of a lock. *)
LEMMA InvExclusive == Inv => Exclusive
<1> SUFFICES ASSUME Inv, NEW d \in Driver \ hung, Has(d), NEW x \in Holder(op[d]), x \notin hung
             PROVE  x = d
  BY DEF Exclusive
<1>1. CASE x \in Driver
  <2>1. Has(x) /\ User[op[x]] = User[op[d]]
    BY <1>1, SwfwAssumption DEF Holder, Bits
  <2> QED BY <1>1, <2>1 DEF Inv, Apart, Working
<1>2. CASE x \notin Driver
  <2>1. x = Firmware /\ User[op[d]] \in fwhas
    BY <1>2 DEF Holder
  <2> QED BY <2>1 DEF Inv, Apart, Working
<1> QED BY <1>1, <1>2

(* Among those that do not hang a lock of GSSR has one holder, the drivers *)
(* and the firmware taken together, whatever time-outs cleared before.     *)
THEOREM SwfwExclusive == Spec => []Exclusive
BY SwfwInvariant, InvExclusive, PTL

(* What the invariant says of the bits that are set, and of the types. *)
LEMMA InvNoOrphanBit == Inv => NoOrphanBit
<1> SUFFICES ASSUME Inv PROVE NoOrphanBit
  OBVIOUS
<1>1. TypeOK
  BY DEF Inv, Types, Hangs, TypeOK, Bit
<1>2. ASSUME ~ SemaphoreLost, NEW o \in Op, Bits(o).sw \in gssr PROVE Holder(o) # {}
  <2>1. ~ fwsmbi
    BY <1>2 DEF Inv, Hangs, SemaphoreLost
  <2>2. User[o] \in Resource /\ <<"sw", User[o]>> \in gssr
    BY <1>2 DEF Resource, Bits
  <2>3. PICK d \in Driver : Has(d) /\ User[op[d]] = User[o]
    BY <2>1, <2>2 DEF Inv, SwBits
  <2>4. Bits(op[d]).sw = Bits(o).sw
    BY <2>3 DEF Bits
  <2> QED BY <2>3, <2>4 DEF Holder
<1> QED BY <1>1, <1>2 DEF NoOrphanBit

(* No driver's bit of GSSR is left without a holder, and the loops end     *)
(* within their limits, unless the firmware hangs in its semaphore.        *)
THEOREM SwfwNoOrphanBit == Spec => []NoOrphanBit
BY SwfwInvariant, InvNoOrphanBit, PTL
=============================================================================
