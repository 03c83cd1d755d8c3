-------------------------- MODULE LifecycleProofs --------------------------
(***************************************************************************)
(* Proofs about Lifecycle for any number of processes, adapters, ports and *)
(* cores.  The invariant is put together in layers, each proved with the   *)
(* ones before it: what a process holds, by the place it is at in its      *)
(* program; its signals; who has which adapter open and how far that       *)
(* adapter is brought up; the DMA areas and the pages under them; what the *)
(* NIC was told; and whose rings are programmed, and where they are.  That *)
(* the program holds its parts in a useful order is proved in              *)
(* LifecycleProgram.                                                       *)
(***************************************************************************)
EXTENDS LifecycleProgram, FiniteSetTheorems

FileStep(i) == S("open", "file", 0, i)
UpStep(i) == S("open", "up", 0, i)
DownStep(i) == S("open", "down", 0, i)
PageStep(k, c) == S(k, "mmap", c, 0)
ThreadStep(c) == S("thread", "thread", c, 0)
KillStep(c) == S("thread", "kill", c, 0)
IrqStep(c, r, i) == S("plane", IF r = "rx" THEN "rxirq" ELSE "txirq", c, i)
RegisterStep(i) == S("configure", "registers", 0, i)

Pages == {"desc", "buf"}
Mode == {"off", "start", "wait", "release", "dying", "aborted"}

Releasing(p) == mode[p] \in {"release", "dying", "aborted"}
Now(p) == Startup[pc[p]]

\* The process is past the step x.
Passed(p, x) == \/ mode[p] \in {"off", "start"} /\ Before(x, Now(p))
                \/ mode[p] = "wait"

-----------------------------------------------------------------------------
(* Layer 1: what a process holds.                                          *)

ProcTypes ==
  /\ mode \in [Proc -> Mode]
  /\ pc \in [Proc -> 1 .. Len(Startup)]
  /\ rel \in [Proc -> Seq(ReleaseStep)]
  /\ held \in [Proc -> SUBSET Resource]
  /\ file \in [Proc -> [Port -> Device \cup {None, Freed}]]
  /\ mem \in [Proc -> [Pages -> [Core -> Block \cup {None}]]]
  /\ thr \in [Proc -> [Core -> {"none", "new", "running", "ended"}]]
  /\ sigint \in [Proc -> BOOLEAN]
  /\ usr1 \in [Proc -> SUBSET Core]

\* With a step, what has to be released after it is still to be released.
Closed(s) == \A r \in Members(s), y \in ReleaseStep : Dep(r, y) => y \in Members(s)

\* A process holds what it acquired on the way to the step it is at, and once
\* it gives back, what is still to be released, in an order that is allowed.
Where(p) ==
  /\ ~ Releasing(p) => held[p] = {x \in Resource : Passed(p, x)}
  /\ mode[p] # "start" => pc[p] = 1
  /\ Releasing(p) => /\ Chain(rel[p], Allowed) /\ Closed(rel[p])
                     /\ held[p] = Members(rel[p]) \cap Resource
  /\ mode[p] \in {"dying", "aborted"} => \A r \in Members(rel[p]) : IsFile(r)

\* The threads, pages and files are there as long as they are held.
Handles(p) ==
  /\ \A c \in Core : thr[p][c] # "none" <=> ThreadStep(c) \in held[p]
  /\ \A k \in Pages, c \in Core : mem[p][k][c] # None <=> PageStep(k, c) \in held[p]
  /\ \A i \in Port : file[p][i] # None <=> FileStep(i) \in held[p]

ProcInv == ProcTypes /\ \A p \in Proc : Where(p) /\ Handles(p)

-----------------------------------------------------------------------------
(* The steps by name. *)
LEMMA Named ==
  /\ \A i \in Port : /\ FileStep(i) \in Resource /\ UpStep(i) \in StartStep /\ DownStep(i) \in ReleaseStep
                     /\ RegisterStep(i) \in StartStep
                     /\ FileStep(i).act = "file" /\ UpStep(i).act = "up" /\ DownStep(i).act = "down"
                     /\ RegisterStep(i).act = "registers"
                     /\ FileStep(i).port = i /\ UpStep(i).port = i /\ DownStep(i).port = i
                     /\ RegisterStep(i).port = i
                     /\ FileStep(i).call = "open" /\ DownStep(i).call = "open"
  /\ \A c \in Core : /\ ThreadStep(c) \in Resource /\ KillStep(c) \in ReleaseStep
                     /\ ThreadStep(c).act = "thread" /\ KillStep(c).act = "kill"
                     /\ ThreadStep(c).core = c /\ KillStep(c).core = c
  /\ \A k \in Pages, c \in Core : /\ PageStep(k, c) \in Resource /\ PageStep(k, c).act = "mmap"
                                  /\ PageStep(k, c).call = k /\ PageStep(k, c).core = c
<1>0. 0 \in Nat /\ Port \subseteq Nat /\ Core \subseteq Nat
  BY Sizes
<1>1. ASSUME NEW i \in Port
      PROVE  /\ FileStep(i) \in Resource /\ UpStep(i) \in StartStep /\ DownStep(i) \in ReleaseStep
             /\ RegisterStep(i) \in StartStep
             /\ FileStep(i).act = "file" /\ UpStep(i).act = "up" /\ DownStep(i).act = "down"
             /\ RegisterStep(i).act = "registers"
             /\ FileStep(i).port = i /\ UpStep(i).port = i /\ DownStep(i).port = i
             /\ RegisterStep(i).port = i
             /\ FileStep(i).call = "open" /\ DownStep(i).call = "open"
  <2>1. FileStep(i) \in AnyStep /\ UpStep(i) \in AnyStep /\ DownStep(i) \in AnyStep /\ RegisterStep(i) \in AnyStep
    BY <1>0 DEF FileStep, UpStep, DownStep, RegisterStep, S, AnyStep, Call, Act
  <2>2. IsResource(FileStep(i)) /\ IsPlain(UpStep(i)) /\ IsHalf(DownStep(i)) /\ IsPlain(RegisterStep(i))
    BY DEF FileStep, UpStep, DownStep, RegisterStep, S, IsResource, IsPlain, IsHalf
  <2>3. /\ FileStep(i).act = "file" /\ UpStep(i).act = "up" /\ DownStep(i).act = "down"
        /\ RegisterStep(i).act = "registers"
        /\ FileStep(i).port = i /\ UpStep(i).port = i /\ DownStep(i).port = i
        /\ RegisterStep(i).port = i
        /\ FileStep(i).call = "open" /\ DownStep(i).call = "open"
    BY DEF FileStep, UpStep, DownStep, RegisterStep, S
  <2> QED BY <2>1, <2>2, <2>3, ResourceIff, StartStepIff, ReleaseStepIff
<1>2. ASSUME NEW c \in Core
      PROVE  /\ ThreadStep(c) \in Resource /\ KillStep(c) \in ReleaseStep
             /\ ThreadStep(c).act = "thread" /\ KillStep(c).act = "kill"
             /\ ThreadStep(c).core = c /\ KillStep(c).core = c
  <2>1. ThreadStep(c) \in AnyStep /\ KillStep(c) \in AnyStep
    BY <1>0 DEF ThreadStep, KillStep, S, AnyStep, Call, Act
  <2>2. IsResource(ThreadStep(c)) /\ IsHalf(KillStep(c))
    BY DEF ThreadStep, KillStep, S, IsResource, IsHalf
  <2>3. /\ ThreadStep(c).act = "thread" /\ KillStep(c).act = "kill"
        /\ ThreadStep(c).core = c /\ KillStep(c).core = c
    BY DEF ThreadStep, KillStep, S
  <2> QED BY <2>1, <2>2, <2>3, ResourceIff, ReleaseStepIff
<1>3. ASSUME NEW k \in Pages, NEW c \in Core
      PROVE  /\ PageStep(k, c) \in Resource /\ PageStep(k, c).act = "mmap"
             /\ PageStep(k, c).call = k /\ PageStep(k, c).core = c
  <2>1. PageStep(k, c) \in AnyStep
    BY <1>0 DEF PageStep, Pages, S, AnyStep, Call, Act
  <2>2. IsResource(PageStep(k, c))
    BY DEF PageStep, Pages, S, IsResource
  <2>3. PageStep(k, c).act = "mmap" /\ PageStep(k, c).call = k /\ PageStep(k, c).core = c
    BY DEF PageStep, S
  <2> QED BY <2>1, <2>2, <2>3, ResourceIff
<1> QED BY <1>1, <1>2, <1>3

(* The named steps by their fields. *)
LEMMA NameOf ==
  ASSUME NEW x \in AnyStep, IsResource(x) \/ IsPlain(x) \/ IsHalf(x)
  PROVE  /\ x.act = "file" => x.port \in Port /\ x = FileStep(x.port)
         /\ x.act = "up" => x.port \in Port /\ x = UpStep(x.port)
         /\ x.act = "down" => x.port \in Port /\ x = DownStep(x.port)
         /\ x.act = "registers" => x.port \in Port /\ x = RegisterStep(x.port)
         /\ x.act = "thread" => x.core \in Core /\ x = ThreadStep(x.core)
         /\ x.act = "kill" => x.core \in Core /\ x = KillStep(x.core)
         /\ x.act = "mmap" => x.core \in Core /\ x.call \in Pages /\ x = PageStep(x.call, x.core)
         /\ x.act \in {"rxirq", "txirq"} =>
              /\ x.core \in Core /\ x.port \in Port
              /\ x = IrqStep(x.core, IF x.act = "rxirq" THEN "rx" ELSE "tx", x.port)
         /\ x.act \in {"rxring", "txring", "buffer"} => /\ x.core \in Core /\ x.port \in Port
                                                        /\ x.call = IF x.act = "buffer" THEN "buf" ELSE "desc"
<1>1. x = S(x.call, x.act, x.core, x.port)
  BY StepOf
<1>2. /\ x.act = "file" => x.port \in Port /\ x.call = "open" /\ x.core = 0
      /\ x.act = "up" => x.port \in Port /\ x.call = "open" /\ x.core = 0
      /\ x.act = "down" => x.port \in Port /\ x.call = "open" /\ x.core = 0
      /\ x.act = "registers" => x.port \in Port /\ x.call = "configure" /\ x.core = 0
      /\ x.act = "thread" => x.core \in Core /\ x.call = "thread" /\ x.port = 0
      /\ x.act = "kill" => x.core \in Core /\ x.call = "thread" /\ x.port = 0
      /\ x.act = "mmap" => x.core \in Core /\ x.call \in Pages /\ x.port = 0
      /\ x.act \in {"rxirq", "txirq"} => x.core \in Core /\ x.port \in Port /\ x.call = "plane"
      /\ x.act \in {"rxring", "txring"} => x.core \in Core /\ x.port \in Port /\ x.call = "desc"
      /\ x.act = "buffer" => x.core \in Core /\ x.port \in Port /\ x.call = "buf"
  BY DEF IsResource, IsPlain, IsHalf, Pages
<1>3. x.act \in {"rxirq", "txirq"} => x = IrqStep(x.core, IF x.act = "rxirq" THEN "rx" ELSE "tx", x.port)
  BY <1>1, <1>2 DEF IrqStep
<1>4. /\ x.act = "file" => x = FileStep(x.port)
      /\ x.act = "up" => x = UpStep(x.port)
      /\ x.act = "down" => x = DownStep(x.port)
      /\ x.act = "registers" => x = RegisterStep(x.port)
      /\ x.act = "thread" => x = ThreadStep(x.core)
      /\ x.act = "kill" => x = KillStep(x.core)
      /\ x.act = "mmap" => x = PageStep(x.call, x.core)
  BY <1>1, <1>2 DEF FileStep, UpStep, DownStep, RegisterStep, ThreadStep, KillStep, PageStep
<1> QED BY <1>2, <1>3, <1>4

(* The step main is at. *)
LEMMA StepFacts ==
  ASSUME ProcInv, NEW p \in Proc, NEW acts, NEW s \in Step(p, acts)
  PROVE  /\ s = Now(p) /\ ~fault /\ mode[p] \in {"off", "start"} /\ ~ Releasing(p)
         /\ s \in StartStep /\ s \in AnyStep /\ s.act \in acts /\ (IsResource(s) \/ IsPlain(s))
         /\ s \in Resource <=> IsResource(s)
         /\ s \notin held[p]
<1>1. s = Now(p) /\ ~fault /\ mode[p] \in {"off", "start"} /\ s.act \in acts
  BY DEF Step, Now
<1>2. pc[p] \in 1 .. Len(Startup)
  BY DEF ProcInv, ProcTypes
<1>3. s \in StartStep /\ s \in AnyStep
  BY <1>1, <1>2, StartupOrder DEF Now
<1>4. ~ Before(s, s)
  BY <1>3, BeforeStrict
<1>5. s \notin held[p]
  BY <1>1, <1>4 DEF ProcInv, Where, Releasing, Passed
<1> QED BY <1>1, <1>3, <1>5, StartStepIff, ResourceIff DEF Releasing

(* A process that is not touched stays where it is. *)
LEMMA WhereFrame ==
  ASSUME NEW q, Where(q), mode'[q] = mode[q], pc'[q] = pc[q], rel'[q] = rel[q], held'[q] = held[q]
  PROVE  Where(q)'
BY DEF Where, Releasing, Passed, Now

(* A step of main that succeeds. *)
LEMMA AcquiredFacts ==
  ASSUME ProcInv, NEW p \in Proc, NEW acts, NEW s \in Step(p, acts), Acquired(p, s)
  PROVE  /\ held'[p] = held[p] \cup ({s} \cap Resource)
         /\ mode'[p] \in {"start", "wait"}
         /\ \A x \in StartStep : Passed(p, x)' <=> Passed(p, x) \/ x = s
         /\ \A q \in Proc \ {p} : held'[q] = held[q] /\ mode'[q] = mode[q] /\ pc'[q] = pc[q]
         /\ rel' = rel
         /\ mode' \in [Proc -> Mode] /\ pc' \in [Proc -> 1 .. Len(Startup)]
         /\ held' \in [Proc -> SUBSET Resource]
         /\ \A q \in Proc : Where(q)'
<1>1. /\ s = Now(p) /\ mode[p] \in {"off", "start"} /\ s \in StartStep
      /\ held[p] = {x \in Resource : Before(x, Now(p))}
  BY StepFacts DEF ProcInv, Where, Releasing, Passed
<1>2. pc[p] \in 1 .. Len(Startup) /\ Len(Startup) \in Nat
  BY Progress DEF ProcInv, ProcTypes
<1>3. /\ held' = [held EXCEPT ![p] = @ \cup ({s} \cap Resource)]
      /\ IF pc[p] = Len(Startup)
         THEN mode' = [mode EXCEPT ![p] = "wait"] /\ pc' = [pc EXCEPT ![p] = 1]
         ELSE mode' = [mode EXCEPT ![p] = "start"] /\ pc' = [pc EXCEPT ![p] = @ + 1]
      /\ rel' = rel
  BY DEF Acquired
<1>4. /\ mode \in [Proc -> Mode] /\ pc \in [Proc -> 1 .. Len(Startup)]
      /\ held \in [Proc -> SUBSET Resource]
  BY DEF ProcInv, ProcTypes
<1>5. pc[p] # Len(Startup) => pc[p] + 1 \in 1 .. Len(Startup)
  BY <1>2
<1>6. 1 \in 1 .. Len(Startup)
  BY <1>2
<1>7. /\ mode' \in [Proc -> Mode] /\ pc' \in [Proc -> 1 .. Len(Startup)]
  BY <1>3, <1>4, <1>5, <1>6 DEF Mode
<1>8. held' \in [Proc -> SUBSET Resource] /\ held'[p] = held[p] \cup ({s} \cap Resource)
  BY <1>3, <1>4
<1>9. /\ mode'[p] = IF pc[p] = Len(Startup) THEN "wait" ELSE "start"
      /\ pc'[p] = IF pc[p] = Len(Startup) THEN 1 ELSE pc[p] + 1
  BY <1>3, <1>4
<1>10. \A q \in Proc \ {p} : held'[q] = held[q] /\ mode'[q] = mode[q] /\ pc'[q] = pc[q]
  BY <1>3, <1>4
<1>11. ASSUME NEW x \in StartStep PROVE Passed(p, x)' <=> Passed(p, x) \/ x = s
  <2>1. Passed(p, x) <=> Before(x, Startup[pc[p]])
    BY <1>1 DEF Passed, Now
  <2>2. CASE pc[p] = Len(Startup)
    <3>1. Before(x, Startup[pc[p]]) \/ x = Startup[pc[p]]
      BY <2>2, <1>2, Progress
    <3>2. Passed(p, x)'
      BY <2>2, <1>9 DEF Passed
    <3> QED BY <3>1, <3>2, <2>1, <1>1 DEF Now
  <2>3. CASE pc[p] # Len(Startup)
    <3>1. Passed(p, x)' <=> Before(x, Startup[pc[p] + 1])
      BY <2>3, <1>9 DEF Passed, Now
    <3>2. Before(x, Startup[pc[p] + 1]) <=> Before(x, Startup[pc[p]]) \/ x = Startup[pc[p]]
      BY <2>3, <1>2, Progress
    <3> QED BY <3>1, <3>2, <2>1, <1>1 DEF Now
  <2> QED BY <2>2, <2>3
<1>12. Resource \subseteq StartStep
  BY ResourceIff, StartStepIff
<1>13. Where(p)'
  <2>1. held'[p] = {x \in Resource : Passed(p, x)'}
    <3>1. \A x \in Resource : Passed(p, x) <=> Before(x, Now(p))
      BY <1>1 DEF Passed
    <3>2. \A x \in Resource : Passed(p, x)' <=> x \in held[p] \/ x = s
      BY <3>1, <1>1, <1>11, <1>12
    <3> QED BY <3>2, <1>8, <1>1
  <2>2. mode'[p] # "start" => pc'[p] = 1
    BY <1>9
  <2>3. ~ Releasing(p)' /\ mode'[p] \notin {"dying", "aborted"}
    BY <1>9 DEF Releasing
  <2> QED BY <2>1, <2>2, <2>3 DEF Where
<1>14. ASSUME NEW q \in Proc, q # p PROVE Where(q)'
  BY <1>3, <1>10, <1>14, WhereFrame DEF ProcInv
<1> QED BY <1>3, <1>7, <1>8, <1>9, <1>10, <1>11, <1>13, <1>14

(* Before is transitive. *)
LEMMA BeforeTrans ==
  ASSUME NEW x \in AnyStep, NEW y \in AnyStep, NEW z \in AnyStep, Before(x, y), Before(y, z)
  PROVE  Before(x, z)
<1>1. /\ Stage(x) \in Nat /\ Place(x) \in Nat /\ Second(x) \in Nat
      /\ Stage(y) \in Nat /\ Place(y) \in Nat /\ Second(y) \in Nat
      /\ Stage(z) \in Nat /\ Place(z) \in Nat /\ Second(z) \in Nat
  BY DEF Stage, Place, Second
<1>2. /\ Outer(x) \in Nat /\ Inner(x) \in Nat /\ Outer(y) \in Nat /\ Inner(y) \in Nat
      /\ Outer(z) \in Nat /\ Inner(z) \in Nat
  BY DEF Outer, Inner, AnyStep
<1> QED BY <1>1, <1>2 DEF Before

(* If what resources depend on is held, so it is for release steps. *)
LEMMA ClosedBack ==
  ASSUME NEW have, have \subseteq Resource, \A x \in have, z \in Resource : Dep(x, z) => z \in have,
         NEW r \in ReleaseStep, Of(r) \in have, NEW y \in ReleaseStep, Dep(r, y)
  PROVE  Of(y) \in have
<1>1. /\ r \in AnyStep /\ (IsResource(r) \/ IsHalf(r)) /\ y \in AnyStep /\ (IsResource(y) \/ IsHalf(y))
      /\ Of(y) \in Resource /\ Of(r) \in Resource /\ Of(y) \in AnyStep /\ Of(r) \in AnyStep
      /\ IsResource(Of(r)) /\ IsResource(Of(y))
  BY ReleaseStepIff, ResourceIff
<1>2. CASE r.act = "kill"
  <2>1. IsHalf(r) /\ y.act = "thread" /\ y.core = r.core
    BY <1>1, <1>2 DEF Dep, IsResource
  <2>2. Of(r).act = "thread" /\ Of(r).core = r.core
    BY <2>1, <1>1, <1>2, OfFacts
  <2>3. Of(r) = ThreadStep(r.core) /\ y = ThreadStep(r.core) /\ IsResource(y)
    BY <2>1, <2>2, <1>1, NameOf DEF IsHalf
  <2> QED BY <2>3, <1>1, OfFacts
<1>3. CASE r.act = "down"
  <2>1. IsHalf(r) /\ y.act = "file" /\ y.port = r.port
    BY <1>1, <1>3 DEF Dep, IsResource
  <2>2. Of(r).act = "file" /\ Of(r).port = r.port
    BY <2>1, <1>1, <1>3, OfFacts
  <2>3. Of(r) = FileStep(r.port) /\ y = FileStep(r.port) /\ IsResource(y)
    BY <2>1, <2>2, <1>1, NameOf DEF IsHalf
  <2> QED BY <2>3, <1>1, OfFacts
<1>4. CASE r.act \notin {"kill", "down"}
  <2>1. IsResource(r) /\ Of(r) = r
    BY <1>1, <1>4, OfFacts DEF IsHalf
  <2>2. CASE IsResource(y)
    BY <2>1, <2>2, <1>1, OfFacts
  <2>3. CASE IsHalf(y)
    <3>1. y.call = "open"
      BY <2>1, <2>3, <1>1, <1>4 DEF Dep, IsHalf, IsResource
    <3>2. Of(y).call = "open"
      BY <3>1, <2>3, <1>1, OfFacts
    <3>3. Dep(r, Of(y))
      BY <2>1, <3>1, <3>2, <1>4 DEF Dep
    <3> QED BY <3>3, <2>1, <1>1
  <2> QED BY <2>2, <2>3, <1>1
<1> QED BY <1>2, <1>3, <1>4

(* What is held on the way to a step has what it depends on. *)
LEMMA HaveClosed ==
  ASSUME NEW s \in StartStep, NEW have, have \subseteq Resource,
         \A x \in have : Before(x, s) \/ x = s, \A x \in Resource : Before(x, s) => x \in have
  PROVE  \A x \in have, z \in Resource : Dep(x, z) => z \in have
<1> SUFFICES ASSUME NEW x \in have, NEW z \in Resource, Dep(x, z) PROVE z \in have
  OBVIOUS
<1>1. x \in AnyStep /\ z \in AnyStep /\ s \in AnyStep
  BY ResourceIff, StartStepIff
<1>2. Before(z, x)
  BY DepBefore
<1>3. Before(z, s)
  BY <1>1, <1>2, BeforeTrans
<1> QED BY <1>3

(* A sequence of steps that are released, by its members. *)
LEMMA SeqOver ==
  ASSUME NEW s \in Seq(AnyStep), NEW T, \A x \in Members(s) : x \in T
  PROVE  s \in Seq(T)
<1>1. \A k \in 1 .. Len(s) : s[k] \in T
  BY DEF Members
<1> QED BY <1>1

(* A step of main that fails. *)
LEMMA FailedFacts ==
  ASSUME ProcInv, NEW p \in Proc, NEW acts, NEW s \in Step(p, acts), s.act # "thread",
         NEW have, have = held[p] \/ (s \in Resource /\ have = held[p] \cup {s}), Failed(p, s, have)
  PROVE  /\ held'[p] = have
         /\ mode'[p] = "release"
         /\ \A r : r \in Members(rel'[p]) <=> r \in ReleaseStep /\ Of(r) \in have
         /\ \A q \in Proc \ {p} : /\ held'[q] = held[q] /\ mode'[q] = mode[q] /\ pc'[q] = pc[q]
                                  /\ rel'[q] = rel[q]
         /\ mode' \in [Proc -> Mode] /\ pc' \in [Proc -> 1 .. Len(Startup)]
         /\ held' \in [Proc -> SUBSET Resource] /\ rel' \in [Proc -> Seq(ReleaseStep)]
         /\ \A q \in Proc : Where(q)'
<1>1. /\ s = Now(p) /\ mode[p] \in {"off", "start"} /\ s \in StartStep
      /\ held[p] = {x \in Resource : Before(x, s)}
  BY StepFacts DEF ProcInv, Where, Releasing, Passed
<1>2. /\ held' = [held EXCEPT ![p] = have]
      /\ mode' = [mode EXCEPT ![p] = "release"]
      /\ pc' = [pc EXCEPT ![p] = 1]
      /\ rel' = [rel EXCEPT ![p] = Unwind(s, have)]
  BY DEF Failed
<1>3. /\ mode \in [Proc -> Mode] /\ pc \in [Proc -> 1 .. Len(Startup)]
      /\ held \in [Proc -> SUBSET Resource] /\ rel \in [Proc -> Seq(ReleaseStep)]
  BY DEF ProcInv, ProcTypes
<1>4. have \subseteq Resource /\ \A x \in have : Before(x, s) \/ x = s
  BY <1>1
<1>5. PICK u : u = Unwind(s, have)
  OBVIOUS
<1>6. /\ u \in Seq(AnyStep) /\ Chain(u, Allowed)
      /\ \A x : x \in Members(u) <=> x \in ReleaseStep /\ Of(x) \in have
  BY <1>1, <1>4, <1>5, UnwindFacts
<1>7. u \in Seq(ReleaseStep)
  BY <1>6, SeqOver
<1>8. /\ held'[p] = have /\ mode'[p] = "release" /\ pc'[p] = 1 /\ rel'[p] = u
      /\ \A q \in Proc \ {p} : /\ held'[q] = held[q] /\ mode'[q] = mode[q] /\ pc'[q] = pc[q]
                               /\ rel'[q] = rel[q]
  BY <1>2, <1>3, <1>5
<1>9. 1 \in 1 .. Len(Startup)
  BY Progress
<1>10. /\ mode' \in [Proc -> Mode] /\ pc' \in [Proc -> 1 .. Len(Startup)]
       /\ held' \in [Proc -> SUBSET Resource] /\ rel' \in [Proc -> Seq(ReleaseStep)]
  BY <1>2, <1>3, <1>4, <1>5, <1>7, <1>9 DEF Mode
<1>11. Closed(u)
  <2>1. \A x \in have, z \in Resource : Dep(x, z) => z \in have
    BY <1>1, <1>4, HaveClosed
  <2> SUFFICES ASSUME NEW r \in Members(u), NEW y \in ReleaseStep, Dep(r, y) PROVE y \in Members(u)
    BY DEF Closed
  <2>2. r \in ReleaseStep /\ Of(r) \in have
    BY <1>6
  <2>3. Of(y) \in have
    BY <2>1, <2>2, <1>4, ClosedBack
  <2> QED BY <2>3, <1>6
<1>12. have = Members(u) \cap Resource
  <2>1. ASSUME NEW x \in Resource PROVE x \in ReleaseStep /\ Of(x) = x
    BY ResourceIff, OfFacts
  <2> QED BY <2>1, <1>4, <1>6
<1>13. Where(p)'
  BY <1>6, <1>8, <1>11, <1>12 DEF Where, Releasing
<1>14. ASSUME NEW q \in Proc, q # p PROVE Where(q)'
  BY <1>8, <1>14, WhereFrame DEF ProcInv
<1> QED BY <1>6, <1>8, <1>10, <1>13, <1>14

(* The next step of the release. *)
LEMMA TodoFacts ==
  ASSUME ProcInv, NEW p \in Proc, NEW acts, NEW s \in Todo(p, acts)
  PROVE  /\ s = Head(rel[p]) /\ ~fault /\ Releasing(p) /\ rel[p] # <<>>
         /\ s \in Members(rel[p]) /\ s \in ReleaseStep /\ s \in AnyStep
         /\ s.act \in acts /\ (IsResource(s) \/ IsHalf(s))
         /\ s \in held[p] <=> IsResource(s)
         /\ mode[p] # "release" => s.act \in {"down", "file"}
<1>1. s = Head(rel[p]) /\ ~fault /\ Releasing(p) /\ rel[p] # <<>> /\ s.act \in acts
  BY DEF Todo, Releasing
<1>2. rel[p] \in Seq(ReleaseStep)
  BY DEF ProcInv, ProcTypes
<1>3. s \in Members(rel[p]) /\ s \in ReleaseStep
  <2>1. 1 \in 1 .. Len(rel[p]) /\ Head(rel[p]) = rel[p][1] /\ rel[p][1] \in ReleaseStep
    BY <1>1, <1>2
  <2> QED BY <2>1, <1>1 DEF Members
<1>4. held[p] = Members(rel[p]) \cap Resource
  BY <1>1 DEF ProcInv, Where
<1>5. s \in AnyStep /\ (IsResource(s) \/ IsHalf(s)) /\ (s \in Resource <=> IsResource(s))
  BY <1>3, ReleaseStepIff, ResourceIff
<1>6. mode[p] # "release" => s.act \in {"down", "file"}
  BY <1>1, <1>3 DEF ProcInv, Where, IsFile, Releasing
<1> QED BY <1>1, <1>3, <1>4, <1>5, <1>6

(* The tail of a chain. *)
LEMMA TailFacts ==
  ASSUME NEW X, NEW s \in Seq(X), s # <<>>, X \subseteq AnyStep, Chain(s, Allowed)
  PROVE  /\ Tail(s) \in Seq(X) /\ Chain(Tail(s), Allowed)
         /\ \A r : r \in Members(Tail(s)) <=> r \in Members(s) /\ r # Head(s)
         /\ \A r \in Members(Tail(s)) : ~ Dep(r, Head(s))
         /\ Tail(s) = <<>> => Members(Tail(s)) = {}
<1>1. /\ Tail(s) \in Seq(X) /\ Len(s) \in Nat /\ Len(s) # 0 /\ Len(Tail(s)) = Len(s) - 1 /\ Head(s) = s[1]
      /\ \A k \in 1 .. Len(Tail(s)) : Tail(s)[k] = s[k + 1]
  OBVIOUS
<1>2. PICK t : t = Tail(s)
  OBVIOUS
<1>3. /\ t \in Seq(X) /\ Len(t) = Len(s) - 1 /\ \A k \in 1 .. Len(t) : t[k] = s[k + 1]
  BY <1>1, <1>2
<1>4. \A k \in 1 .. Len(t) : k + 1 \in 1 .. Len(s) /\ 1 < k + 1
  BY <1>1, <1>3
<1>5. 1 \in 1 .. Len(s)
  BY <1>1
<1>6. Chain(t, Allowed)
  <2> SUFFICES ASSUME NEW j \in 1 .. Len(t), NEW k \in 1 .. Len(t), j < k
               PROVE  <<t[j], t[k]>> \in Allowed
    BY DEF Chain
  <2>1. j + 1 < k + 1
    BY <1>1, <1>3
  <2> QED BY <2>1, <1>3, <1>4 DEF Chain
<1>7. ASSUME NEW k \in 1 .. Len(t) PROVE t[k] # s[1] /\ ~ Dep(t[k], s[1])
  <2>1. <<s[1], s[k + 1]>> \in Allowed
    BY <1>4, <1>5 DEF Chain
  <2>2. s[1] \in AnyStep /\ s[k + 1] \in AnyStep
    BY <1>4, <1>5
  <2> QED BY <2>1, <2>2, <1>3, AllowedIff
<1>8. ASSUME NEW r PROVE r \in Members(t) <=> r \in Members(s) /\ r # s[1]
  <2>1. ASSUME r \in Members(t) PROVE r \in Members(s) /\ r # s[1]
    BY <2>1, <1>3, <1>4, <1>7 DEF Members
  <2>2. ASSUME r \in Members(s), r # s[1] PROVE r \in Members(t)
    <3>1. PICK k \in 1 .. Len(s) : r = s[k]
      BY <2>2 DEF Members
    <3>2. k # 1
      BY <2>2, <3>1
    <3>3. k - 1 \in 1 .. Len(t) /\ (k - 1) + 1 = k
      BY <3>2, <1>1, <1>3
    <3>4. t[k - 1] = r
      BY <3>1, <3>3, <1>3
    <3> QED BY <3>3, <3>4 DEF Members
  <2> QED BY <2>1, <2>2
<1>9. \A r \in Members(t) : ~ Dep(r, s[1])
  BY <1>7 DEF Members
<1>10. t = <<>> => Members(t) = {}
  BY DEF Members
<1> QED BY <1>1, <1>2, <1>3, <1>6, <1>8, <1>9, <1>10

(* A step of the release, as long as the process lives on. *)
LEMMA ReleasedFacts ==
  ASSUME ProcInv, NEW p \in Proc, NEW acts, NEW s \in Todo(p, acts), Released(p, s), pc' = pc,
         \/ mode' = mode
         \/ Tail(rel[p]) = <<>> /\ mode' = [mode EXCEPT ![p] = "off"]
  PROVE  /\ held'[p] = held[p] \ {s}
         /\ \A r : r \in Members(rel'[p]) <=> r \in Members(rel[p]) /\ r # s
         /\ \A r \in Members(rel'[p]) : ~ Dep(r, s)
         /\ mode'[p] \in {mode[p], "off"} /\ (mode'[p] = "off" => held'[p] = {})
         /\ \A q \in Proc \ {p} : /\ held'[q] = held[q] /\ mode'[q] = mode[q] /\ pc'[q] = pc[q]
                                  /\ rel'[q] = rel[q]
         /\ mode' \in [Proc -> Mode] /\ pc' \in [Proc -> 1 .. Len(Startup)]
         /\ held' \in [Proc -> SUBSET Resource] /\ rel' \in [Proc -> Seq(ReleaseStep)]
         /\ \A q \in Proc : Where(q)'
<1>1. /\ s = Head(rel[p]) /\ Releasing(p) /\ rel[p] # <<>>
  BY TodoFacts
<1>2. rel' = [rel EXCEPT ![p] = Tail(@)] /\ held' = [held EXCEPT ![p] = @ \ {s}]
  BY DEF Released
<1>3. /\ mode \in [Proc -> Mode] /\ pc \in [Proc -> 1 .. Len(Startup)]
      /\ held \in [Proc -> SUBSET Resource] /\ rel \in [Proc -> Seq(ReleaseStep)]
  BY DEF ProcInv, ProcTypes
<1>4. /\ Chain(rel[p], Allowed) /\ Closed(rel[p]) /\ held[p] = Members(rel[p]) \cap Resource
      /\ pc[p] = 1
      /\ mode[p] \in {"dying", "aborted"} => \A r \in Members(rel[p]) : IsFile(r)
  BY <1>1 DEF ProcInv, Where, Releasing
<1>5. PICK t : t = Tail(rel[p])
  OBVIOUS
<1>6. ReleaseStep \subseteq AnyStep
  BY ResourceIff
<1>7. /\ t \in Seq(ReleaseStep) /\ Chain(t, Allowed)
      /\ \A r : r \in Members(t) <=> r \in Members(rel[p]) /\ r # s
      /\ \A r \in Members(t) : ~ Dep(r, s)
      /\ t = <<>> => Members(t) = {}
  BY <1>1, <1>3, <1>4, <1>5, <1>6, TailFacts
<1>8. /\ rel'[p] = t /\ held'[p] = held[p] \ {s}
      /\ \A q \in Proc \ {p} : /\ held'[q] = held[q] /\ mode'[q] = mode[q] /\ pc'[q] = pc[q]
                               /\ rel'[q] = rel[q]
      /\ mode'[p] = mode[p] \/ (mode'[p] = "off" /\ t = <<>>)
  BY <1>2, <1>3, <1>5
<1>9. held' \in [Proc -> SUBSET Resource] /\ rel' \in [Proc -> Seq(ReleaseStep)]
  BY <1>2, <1>3, <1>5, <1>7
<1>10. mode' \in [Proc -> Mode]
  BY <1>3 DEF Mode
<1>11. held'[p] = Members(t) \cap Resource
  BY <1>4, <1>7, <1>8
<1>12. Closed(t)
  BY <1>4, <1>7 DEF Closed
<1>13. Where(p)'
  <2>1. CASE mode'[p] = mode[p]
    BY <2>1, <1>1, <1>4, <1>7, <1>8, <1>11, <1>12 DEF Where, Releasing
  <2>2. CASE mode'[p] = "off" /\ t = <<>>
    <3>1. held'[p] = {}
      BY <2>2, <1>7, <1>11
    <3>2. \A x \in Resource : ~ Passed(p, x)'
      <4>1. Resource \subseteq StartStep
        BY ResourceIff, StartStepIff
      <4>2. Now(p)' = Startup[1]
        BY <1>4 DEF Now
      <4> QED BY <4>1, <4>2, <2>2, Progress DEF Passed
    <3> QED BY <2>2, <3>1, <3>2, <1>4 DEF Where, Releasing
  <2> QED BY <2>1, <2>2, <1>8
<1>14. ASSUME NEW q \in Proc, q # p PROVE Where(q)'
  BY <1>8, <1>14, WhereFrame DEF ProcInv
<1>15. mode'[p] \in {mode[p], "off"} /\ (mode'[p] = "off" => held'[p] = {})
  <2>1. mode[p] # "off"
    BY <1>1 DEF Releasing
  <2> QED BY <2>1, <1>7, <1>8, <1>11
<1> QED BY <1>3, <1>7, <1>8, <1>9, <1>10, <1>13, <1>14, <1>15

(* sigwait returns: everything is to be released. *)
LEMMA SigWaitFacts ==
  ASSUME ProcInv, NEW p \in Proc, SigWait(p)
  PROVE  /\ held' = held /\ pc' = pc /\ mode[p] = "wait" /\ mode'[p] = "release"
         /\ \A r : r \in Members(rel'[p]) <=> r \in ReleaseStep
         /\ \A q \in Proc \ {p} : mode'[q] = mode[q] /\ rel'[q] = rel[q]
         /\ mode' \in [Proc -> Mode] /\ rel' \in [Proc -> Seq(ReleaseStep)]
         /\ \A q \in Proc : Where(q)'
<1>1. /\ mode[p] = "wait" /\ mode' = [mode EXCEPT ![p] = "release"]
      /\ rel' = [rel EXCEPT ![p] = ReleaseOrder] /\ held' = held /\ pc' = pc
  BY DEF SigWait
<1>2. mode \in [Proc -> Mode] /\ rel \in [Proc -> Seq(ReleaseStep)] /\ held \in [Proc -> SUBSET Resource]
  BY DEF ProcInv, ProcTypes
<1>3. \A r : r \in Members(ReleaseOrder) <=> r \in ReleaseStep
  BY DEF Members, ReleaseStep
<1>4. ReleaseOrder \in Seq(ReleaseStep) /\ Chain(ReleaseOrder, Allowed)
  BY <1>3, ReleaseFacts, SeqOver
<1>5. /\ mode'[p] = "release" /\ rel'[p] = ReleaseOrder /\ pc'[p] = 1
      /\ \A q \in Proc \ {p} : mode'[q] = mode[q] /\ rel'[q] = rel[q]
      /\ mode' \in [Proc -> Mode] /\ rel' \in [Proc -> Seq(ReleaseStep)]
  <2>1. pc[p] = 1
    BY <1>1 DEF ProcInv, Where
  <2> QED BY <2>1, <1>1, <1>2, <1>4 DEF Mode
<1>6. held[p] = Resource
  BY <1>1 DEF ProcInv, Where, Releasing, Passed
<1>7. held'[p] = Members(rel'[p]) \cap Resource
  BY <1>1, <1>3, <1>5, <1>6, ResourceIff
<1>8. Closed(rel'[p])
  BY <1>3, <1>5 DEF Closed
<1>9. Where(p)'
  BY <1>4, <1>5, <1>7, <1>8 DEF Where, Releasing
<1>10. ASSUME NEW q \in Proc, q # p PROVE Where(q)'
  BY <1>1, <1>5, <1>10, WhereFrame DEF ProcInv
<1> QED BY <1>1, <1>3, <1>5, <1>9, <1>10

(* The steps that release a device file. *)
LEMMA FilesOf ==
  ASSUME NEW r \in ReleaseStep, IsFile(r)
  PROVE  /\ r.port \in Port /\ Of(r) = FileStep(r.port) /\ IsFile(Of(r))
         /\ r = FileStep(r.port) \/ r = DownStep(r.port)
         /\ \A y \in ReleaseStep : Dep(r, y) => y = FileStep(r.port) /\ IsFile(y)
<1>1. r \in AnyStep /\ (IsResource(r) \/ IsHalf(r)) /\ Of(r) \in AnyStep /\ IsResource(Of(r))
  BY ReleaseStepIff, ResourceIff
<1>2. r.act = "file" \/ r.act = "down"
  BY DEF IsFile
<1>3. r.port \in Port /\ (r = FileStep(r.port) \/ r = DownStep(r.port))
  BY <1>1, <1>2, NameOf
<1>4. Of(r).act = "file" /\ Of(r).port = r.port
  <2>1. CASE r.act = "file"
    <3>1. IsResource(r)
      BY <2>1, <1>1 DEF IsHalf
    <3> QED BY <3>1, <2>1, <1>1, OfFacts
  <2>2. CASE r.act = "down"
    <3>1. IsHalf(r)
      BY <2>2, <1>1 DEF IsResource
    <3> QED BY <3>1, <2>2, <1>1, OfFacts
  <2> QED BY <2>1, <2>2, <1>2
<1>5. Of(r) = FileStep(r.port) /\ IsFile(Of(r))
  BY <1>1, <1>4, NameOf DEF IsFile
<1>6. ASSUME NEW y \in ReleaseStep, Dep(r, y) PROVE y = FileStep(r.port) /\ IsFile(y)
  <2>1. y.act = "file" /\ y.port = r.port
    BY <1>2, <1>6 DEF Dep
  <2>2. y \in AnyStep /\ (IsResource(y) \/ IsHalf(y))
    BY ReleaseStepIff
  <2> QED BY <2>1, <2>2, NameOf DEF IsFile
<1> QED BY <1>3, <1>5, <1>6

(* A process that is killed keeps its files, to be closed by the kernel. *)
LEMMA CrashFacts ==
  ASSUME ProcInv, NEW p \in Proc, Crash(p)
  PROVE  /\ held'[p] = {r \in held[p] : IsFile(r)}
         /\ mode'[p] = IF mode[p] = "release" THEN "aborted" ELSE "dying"
         /\ ~ fault /\ mode[p] \in {"start", "wait", "release"}
         /\ \A r : r \in Members(rel'[p]) <=>
              /\ r \in ReleaseStep /\ IsFile(r)
              /\ IF mode[p] = "release" THEN r \in Members(rel[p]) ELSE Of(r) \in held[p]
         /\ \A q \in Proc \ {p} : /\ held'[q] = held[q] /\ mode'[q] = mode[q] /\ pc'[q] = pc[q]
                                  /\ rel'[q] = rel[q]
         /\ mode' \in [Proc -> Mode] /\ pc' \in [Proc -> 1 .. Len(Startup)]
         /\ held' \in [Proc -> SUBSET Resource] /\ rel' \in [Proc -> Seq(ReleaseStep)]
         /\ \A q \in Proc : Where(q)'
<1> DEFINE F == {r \in ReleaseStep : IsFile(r)}
           G == {r \in ReleaseStep : IsFile(r) /\ Of(r) \in held[p]}
<1>1. /\ ~ fault /\ mode[p] \in {"start", "wait", "release"}
      /\ mode' = [mode EXCEPT ![p] = IF @ = "release" THEN "aborted" ELSE "dying"]
      /\ rel' = [rel EXCEPT ![p] = IF mode[p] = "release" THEN Only(@, F) ELSE Only(ReleaseOrder, G)]
      /\ held' = [held EXCEPT ![p] = {r \in @ : IsFile(r)}]
      /\ pc' = [pc EXCEPT ![p] = 1]
  BY DEF Crash, Alive
<1>2. /\ mode \in [Proc -> Mode] /\ pc \in [Proc -> 1 .. Len(Startup)]
      /\ held \in [Proc -> SUBSET Resource] /\ rel \in [Proc -> Seq(ReleaseStep)]
  BY DEF ProcInv, ProcTypes
<1>3. PICK t : t = IF mode[p] = "release" THEN Only(rel[p], F) ELSE Only(ReleaseOrder, G)
  OBVIOUS
<1>4. /\ t \in Seq(ReleaseStep) /\ Chain(t, Allowed)
      /\ \A r : r \in Members(t) <=>
           /\ r \in ReleaseStep /\ IsFile(r)
           /\ IF mode[p] = "release" THEN r \in Members(rel[p]) ELSE Of(r) \in held[p]
  <2>1. CASE mode[p] = "release"
    <3>1. rel[p] \in Seq(ReleaseStep) /\ Chain(rel[p], Allowed)
      BY <2>1, <1>2 DEF ProcInv, Where, Releasing
    <3>2. t \in Seq(ReleaseStep) /\ Members(t) = Members(rel[p]) \cap F /\ Chain(t, Allowed)
      BY <3>1, <2>1, <1>3, OnlyFacts
    <3> QED BY <3>2, <2>1
  <2>2. CASE mode[p] # "release"
    <3>1. \A r : r \in Members(ReleaseOrder) <=> r \in ReleaseStep
      BY DEF Members, ReleaseStep
    <3>2. ReleaseOrder \in Seq(ReleaseStep) /\ Chain(ReleaseOrder, Allowed)
      BY <3>1, ReleaseFacts, SeqOver
    <3>3. t \in Seq(ReleaseStep) /\ Members(t) = Members(ReleaseOrder) \cap G /\ Chain(t, Allowed)
      BY <3>2, <2>2, <1>3, OnlyFacts
    <3> QED BY <3>1, <3>3, <2>2
  <2> QED BY <2>1, <2>2
<1> HIDE DEF F, G
<1>5. /\ held'[p] = {r \in held[p] : IsFile(r)} /\ rel'[p] = t /\ pc'[p] = 1
      /\ mode'[p] = IF mode[p] = "release" THEN "aborted" ELSE "dying"
      /\ \A q \in Proc \ {p} : /\ held'[q] = held[q] /\ mode'[q] = mode[q] /\ pc'[q] = pc[q]
                               /\ rel'[q] = rel[q]
  BY <1>1, <1>2, <1>3
<1>6. 1 \in 1 .. Len(Startup)
  BY Progress
<1>7. mode' \in [Proc -> Mode] /\ pc' \in [Proc -> 1 .. Len(Startup)]
  BY <1>1, <1>2, <1>6 DEF Mode
<1>8. held' \in [Proc -> SUBSET Resource]
  <2>1. {r \in held[p] : IsFile(r)} \in SUBSET Resource
    BY <1>2
  <2> QED BY <2>1, <1>1, <1>2
<1>9. rel' \in [Proc -> Seq(ReleaseStep)]
  BY <1>1, <1>2, <1>3, <1>4
<1>10. Closed(t)
  <2> SUFFICES ASSUME NEW r \in Members(t), NEW y \in ReleaseStep, Dep(r, y) PROVE y \in Members(t)
    BY DEF Closed
  <2>1. r \in ReleaseStep /\ IsFile(r)
    BY <1>4
  <2>2. y = FileStep(r.port) /\ IsFile(y) /\ Of(r) = FileStep(r.port)
    BY <2>1, FilesOf
  <2>3. Of(y) = y
    BY <2>1, <2>2, Named, FilesOf
  <2>4. CASE mode[p] = "release"
    BY <2>2, <2>4, <1>4 DEF ProcInv, Where, Releasing, Closed
  <2>5. CASE mode[p] # "release"
    BY <2>2, <2>3, <2>5, <1>4
  <2> QED BY <2>4, <2>5
<1>11. held'[p] = Members(t) \cap Resource
  <2>1. CASE mode[p] = "release"
    <3>1. held[p] = Members(rel[p]) \cap Resource
      BY <2>1 DEF ProcInv, Where, Releasing
    <3> QED BY <3>1, <2>1, <1>4, <1>5, ResourceIff
  <2>2. CASE mode[p] # "release"
    <3>1. \A r \in Resource : r \in ReleaseStep /\ Of(r) = r
      BY ResourceIff, OfFacts
    <3>2. held[p] \subseteq Resource
      BY <1>2
    <3> QED BY <3>1, <3>2, <2>2, <1>4, <1>5
  <2> QED BY <2>1, <2>2
<1>12. Where(p)'
  <2>1. mode'[p] \in {"dying", "aborted"}
    BY <1>5
  <2> QED BY <2>1, <1>4, <1>5, <1>10, <1>11 DEF Where, Releasing
<1>13. ASSUME NEW q \in Proc, q # p PROVE Where(q)'
  BY <1>5, <1>13, WhereFrame DEF ProcInv
<1> QED BY <1>1, <1>4, <1>5, <1>7, <1>8, <1>9, <1>12, <1>13

(* The handles of a process that is not touched, and of one whose          *)
(* threads, pages and files are not touched.                               *)
LEMMA HandlesFrame ==
  ASSUME NEW q \in Proc, Handles(q), thr'[q] = thr[q], mem'[q] = mem[q], file'[q] = file[q],
         \A x \in Resource : x.act \in {"thread", "mmap", "file"} => (x \in held'[q] <=> x \in held[q])
  PROVE  Handles(q)'
<1>1. /\ \A c \in Core : ThreadStep(c) \in held'[q] <=> ThreadStep(c) \in held[q]
      /\ \A k \in Pages, c \in Core : PageStep(k, c) \in held'[q] <=> PageStep(k, c) \in held[q]
      /\ \A i \in Port : FileStep(i) \in held'[q] <=> FileStep(i) \in held[q]
  BY Named
<1> QED BY <1>1 DEF Handles

(* Layer 1 is kept if the process that moves keeps its part. *)
LEMMA ProcBy ==
  ASSUME ProcInv, NEW p \in Proc,
         mode' \in [Proc -> Mode], pc' \in [Proc -> 1 .. Len(Startup)],
         held' \in [Proc -> SUBSET Resource], rel' \in [Proc -> Seq(ReleaseStep)],
         file' \in [Proc -> [Port -> Device \cup {None, Freed}]],
         mem' \in [Proc -> [Pages -> [Core -> Block \cup {None}]]],
         thr' \in [Proc -> [Core -> {"none", "new", "running", "ended"}]],
         sigint' \in [Proc -> BOOLEAN], usr1' \in [Proc -> SUBSET Core],
         \A q \in Proc : Where(q)',
         Handles(p)',
         \A q \in Proc \ {p} : held'[q] = held[q] /\ thr'[q] = thr[q] /\ mem'[q] = mem[q] /\ file'[q] = file[q]
  PROVE  ProcInv'
<1>1. ProcTypes'
  BY DEF ProcTypes
<1>2. ASSUME NEW q \in Proc, q # p PROVE Handles(q)'
  BY <1>2, HandlesFrame DEF ProcInv
<1> QED BY <1>1, <1>2 DEF ProcInv

(* A step of main that leaves the threads, pages and files alone. *)
LEMMA QuietStep ==
  ASSUME ProcInv, NEW p \in Proc, NEW acts, NEW s \in Step(p, acts),
         s.act \notin {"thread", "mmap", "file"},
         Acquired(p, s) \/ (s \in Resource /\ Failed(p, s, held[p] \cup {s})),
         UNCHANGED <<file, mem, thr, sigint, usr1>>
  PROVE  ProcInv'
<1>1. /\ mode' \in [Proc -> Mode] /\ pc' \in [Proc -> 1 .. Len(Startup)]
      /\ held' \in [Proc -> SUBSET Resource] /\ rel' \in [Proc -> Seq(ReleaseStep)]
      /\ \A q \in Proc : Where(q)'
      /\ held'[p] \in {held[p], held[p] \cup {s}} /\ \A q \in Proc \ {p} : held'[q] = held[q]
  <2>1. CASE Acquired(p, s)
    <3>1. held'[p] = held[p] \cup ({s} \cap Resource)
      BY <2>1, AcquiredFacts
    <3>2. held'[p] \in {held[p], held[p] \cup {s}}
      BY <3>1
    <3>3. rel' \in [Proc -> Seq(ReleaseStep)]
      BY <2>1, AcquiredFacts DEF ProcInv, ProcTypes
    <3> QED BY <2>1, <3>2, <3>3, AcquiredFacts
  <2>2. CASE s \in Resource /\ Failed(p, s, held[p] \cup {s})
    BY <2>2, FailedFacts
  <2> QED BY <2>1, <2>2
<1>2. Handles(p)'
  <2>1. Handles(p)
    BY DEF ProcInv
  <2> QED BY <2>1, <1>1, HandlesFrame
<1> QED BY <1>1, <1>2, ProcBy DEF ProcInv, ProcTypes

(* A step of the release that leaves them alone. *)
LEMMA QuietRelease ==
  ASSUME ProcInv, NEW p \in Proc, NEW acts, NEW s \in Todo(p, acts),
         s.act \notin {"thread", "mmap", "file"}, Released(p, s), mode' = mode, pc' = pc,
         UNCHANGED <<file, mem, thr, sigint>>, usr1' \in [Proc -> SUBSET Core]
  PROVE  ProcInv'
<1>1. /\ mode' \in [Proc -> Mode] /\ pc' \in [Proc -> 1 .. Len(Startup)]
      /\ held' \in [Proc -> SUBSET Resource] /\ rel' \in [Proc -> Seq(ReleaseStep)]
      /\ \A q \in Proc : Where(q)'
      /\ held'[p] = held[p] \ {s} /\ \A q \in Proc \ {p} : held'[q] = held[q]
  BY ReleasedFacts
<1>2. Handles(p)'
  <2>1. Handles(p)
    BY DEF ProcInv
  <2> QED BY <2>1, <1>1, HandlesFrame
<1> QED BY <1>1, <1>2, ProcBy DEF ProcInv, ProcTypes

(* A step that moves no process. *)
LEMMA IdleStep ==
  ASSUME ProcInv, UNCHANGED <<mode, pc, rel, held, file, mem>>,
         sigint' \in [Proc -> BOOLEAN], usr1' \in [Proc -> SUBSET Core],
         thr' \in [Proc -> [Core -> {"none", "new", "running", "ended"}]],
         \A q \in Proc, c \in Core : thr'[q][c] = "none" <=> thr[q][c] = "none"
  PROVE  ProcInv'
<1>1. ProcTypes'
  BY DEF ProcInv, ProcTypes
<1>2. ASSUME NEW q \in Proc PROVE Where(q)' /\ Handles(q)'
  <2>1. Where(q)'
    BY WhereFrame DEF ProcInv
  <2>2. Handles(q)'
    BY DEF ProcInv, Handles
  <2> QED BY <2>1, <2>2
<1> QED BY <1>1, <1>2 DEF ProcInv

(* Before anything happened, and after a restart. *)
LEMMA ProcStart ==
  ASSUME mode = [p \in Proc |-> "off"], pc = [p \in Proc |-> 1], rel = [p \in Proc |-> <<>>],
         held = [p \in Proc |-> {}], file = [p \in Proc |-> NoFile], mem = [p \in Proc |-> NoMem],
         thr = [p \in Proc |-> NoThread], sigint = [p \in Proc |-> FALSE], usr1 = [p \in Proc |-> {}]
  PROVE  ProcInv
<1>1. 1 \in 1 .. Len(Startup)
  BY Progress
<1>2. ProcTypes
  BY <1>1 DEF ProcTypes, Mode, NoFile, NoMem, NoThread, Pages
<1>3. ASSUME NEW p \in Proc PROVE Where(p)
  <2>1. \A x \in Resource : ~ Passed(p, x)
    <3>1. Resource \subseteq StartStep
      BY ResourceIff, StartStepIff
    <3> QED BY <3>1, Progress DEF Passed, Now
  <2> QED BY <2>1 DEF Where, Releasing
<1>4. ASSUME NEW p \in Proc PROVE Handles(p)
  BY DEF Handles, NoFile, NoMem, NoThread, Pages
<1> QED BY <1>2, <1>3, <1>4 DEF ProcInv

(* Layer 1 holds at first. *)
LEMMA ProcInit == Init => ProcInv
BY ProcStart DEF Init

(* Every step keeps layer 1: the steps of main. *)
LEMMA ProcMain ==
  ASSUME ProcInv, NEW p \in Proc,
         \/ OpenFile(p) \/ DeviceUp(p) \/ Private(p) \/ OpenQueue(p) \/ MapPages(p) \/ MapArea(p)
         \/ Registers(p) \/ IrqOpen(p) \/ CreateThread(p) \/ FailStep(p) \/ SigWait(p)
  PROVE  ProcInv'
<1>0. ProcTypes
  BY DEF ProcInv
<1>1. CASE OpenFile(p)
  <2>1. PICK s \in Step(p, {"file"}), d \in Bound :
           /\ file' = [file EXCEPT ![p][s.port] = d]
           /\ Acquired(p, s) /\ UNCHANGED <<mem, thr, sigint, usr1>>
    BY <1>1 DEF OpenFile
  <2>2. s \in AnyStep /\ (IsResource(s) \/ IsPlain(s)) /\ s.act = "file"
    BY <2>1, StepFacts
  <2>3. s.port \in Port /\ s = FileStep(s.port) /\ s \in Resource
    BY <2>2, NameOf, Named
  <2>4. d \in Device /\ d # None
    BY LifecycleAssumption DEF Bound
  <2>5. /\ file' \in [Proc -> [Port -> Device \cup {None, Freed}]]
        /\ \A i \in Port : file'[p][i] = IF i = s.port THEN d ELSE file[p][i]
        /\ \A q \in Proc \ {p} : file'[q] = file[q]
    BY <1>0, <2>1, <2>3, <2>4 DEF ProcTypes
  <2>6. /\ held'[p] = held[p] \cup {s} /\ \A q \in Proc \ {p} : held'[q] = held[q]
        /\ mode' \in [Proc -> Mode] /\ pc' \in [Proc -> 1 .. Len(Startup)]
        /\ held' \in [Proc -> SUBSET Resource] /\ \A q \in Proc : Where(q)'
        /\ rel' \in [Proc -> Seq(ReleaseStep)]
    BY <1>0, <2>1, <2>3, AcquiredFacts DEF ProcTypes
  <2>7. Handles(p)'
    <3>1. /\ \A c \in Core : ThreadStep(c) \in held'[p] <=> ThreadStep(c) \in held[p]
          /\ \A k \in Pages, c \in Core : PageStep(k, c) \in held'[p] <=> PageStep(k, c) \in held[p]
          /\ \A i \in Port : FileStep(i) \in held'[p] <=> FileStep(i) \in held[p] \/ i = s.port
      BY <2>2, <2>3, <2>6, Named
    <3> QED BY <3>1, <2>1, <2>4, <2>5 DEF ProcInv, Handles
  <2> QED BY <1>0, <2>1, <2>5, <2>6, <2>7, ProcBy DEF ProcTypes
<1>2. CASE DeviceUp(p)
  <2>1. PICK s \in Step(p, {"up"}) : Acquired(p, s) /\ UNCHANGED <<file, mem, thr, sigint, usr1>>
    BY <1>2 DEF DeviceUp
  <2> QED BY <2>1, StepFacts, QuietStep
<1>3. CASE Private(p)
  <2>1. PICK s \in Step(p, {"bar", "rings", "slots", "pool", "mask", "alloc"}) :
           Acquired(p, s) /\ UNCHANGED <<file, mem, thr, sigint, usr1>>
    BY <1>3 DEF Private
  <2>2. s.act \notin {"thread", "mmap", "file"}
    BY <2>1, StepFacts
  <2> QED BY <2>1, <2>2, QuietStep
<1>4. CASE OpenQueue(p)
  <2>1. PICK s \in Step(p, {"queue"}) :
           AcquiredOrFailed(p, s) /\ UNCHANGED <<file, mem, thr, sigint, usr1>>
    BY <1>4 DEF OpenQueue
  <2>2. s.act = "queue" /\ s \in Resource
    BY <2>1, StepFacts DEF IsPlain
  <2> QED BY <2>1, <2>2, QuietStep DEF AcquiredOrFailed
<1>5. CASE MapPages(p)
  <2>1. PICK s \in Step(p, {"mmap"}), b \in Block :
           /\ mem' = [mem EXCEPT ![p][s.call][s.core] = b]
           /\ Acquired(p, s) /\ UNCHANGED <<file, thr, sigint, usr1>>
    BY <1>5 DEF MapPages
  <2>2. s \in AnyStep /\ (IsResource(s) \/ IsPlain(s)) /\ s.act = "mmap"
    BY <2>1, StepFacts
  <2>3. s.core \in Core /\ s.call \in Pages /\ s = PageStep(s.call, s.core) /\ s \in Resource
    BY <2>2, NameOf, Named
  <2>4. b # None
    BY LifecycleAssumption
  <2>5. /\ mem' \in [Proc -> [Pages -> [Core -> Block \cup {None}]]]
        /\ \A k \in Pages, c \in Core :
             mem'[p][k][c] = IF k = s.call /\ c = s.core THEN b ELSE mem[p][k][c]
        /\ \A q \in Proc \ {p} : mem'[q] = mem[q]
    BY <1>0, <2>1, <2>3 DEF ProcTypes
  <2>6. /\ held'[p] = held[p] \cup {s} /\ \A q \in Proc \ {p} : held'[q] = held[q]
        /\ mode' \in [Proc -> Mode] /\ pc' \in [Proc -> 1 .. Len(Startup)]
        /\ held' \in [Proc -> SUBSET Resource] /\ \A q \in Proc : Where(q)'
        /\ rel' \in [Proc -> Seq(ReleaseStep)]
    BY <1>0, <2>1, <2>3, AcquiredFacts DEF ProcTypes
  <2>7. Handles(p)'
    <3>1. /\ \A c \in Core : ThreadStep(c) \in held'[p] <=> ThreadStep(c) \in held[p]
          /\ \A k \in Pages, c \in Core :
               PageStep(k, c) \in held'[p] <=> PageStep(k, c) \in held[p] \/ (k = s.call /\ c = s.core)
          /\ \A i \in Port : FileStep(i) \in held'[p] <=> FileStep(i) \in held[p]
      BY <2>2, <2>3, <2>6, Named
    <3> QED BY <3>1, <2>1, <2>4, <2>5 DEF ProcInv, Handles
  <2> QED BY <1>0, <2>1, <2>5, <2>6, <2>7, ProcBy DEF ProcTypes
<1>6. CASE MapArea(p)
  <2>1. PICK s \in Step(p, {"rxring", "txring", "buffer"}) :
           Acquired(p, s) \/ AcquiredOrFailed(p, s)
    BY <1>6 DEF MapArea
  <2>2. s.act \in {"rxring", "txring", "buffer"} /\ s \in Resource
    BY <2>1, StepFacts DEF IsPlain
  <2>3. UNCHANGED <<file, mem, thr, sigint, usr1>>
    BY <1>6 DEF MapArea
  <2> QED BY <2>1, <2>2, <2>3, QuietStep DEF AcquiredOrFailed
<1>7. CASE Registers(p)
  <2>1. PICK s \in Step(p, {"registers"}) : Acquired(p, s) /\ UNCHANGED <<file, mem, thr, sigint, usr1>>
    BY <1>7 DEF Registers
  <2> QED BY <2>1, StepFacts, QuietStep
<1>8. CASE IrqOpen(p)
  <2>1. PICK s \in Step(p, {"rxirq", "txirq"}) :
           AcquiredOrFailed(p, s) /\ UNCHANGED <<file, mem, thr, sigint, usr1>>
    BY <1>8 DEF IrqOpen
  <2>2. s.act \in {"rxirq", "txirq"} /\ s \in Resource
    BY <2>1, StepFacts DEF IsPlain
  <2> QED BY <2>1, <2>2, QuietStep DEF AcquiredOrFailed
<1>9. CASE CreateThread(p)
  <2>1. PICK s \in Step(p, {"thread"}) :
           /\ thr' = [thr EXCEPT ![p][s.core] = "new"]
           /\ Acquired(p, s) /\ UNCHANGED <<file, mem, sigint, usr1>>
    BY <1>9 DEF CreateThread
  <2>2. s \in AnyStep /\ (IsResource(s) \/ IsPlain(s)) /\ s.act = "thread"
    BY <2>1, StepFacts
  <2>3. s.core \in Core /\ s = ThreadStep(s.core) /\ s \in Resource
    BY <2>2, NameOf, Named
  <2>5. /\ thr' \in [Proc -> [Core -> {"none", "new", "running", "ended"}]]
        /\ \A c \in Core : thr'[p][c] = IF c = s.core THEN "new" ELSE thr[p][c]
        /\ \A q \in Proc \ {p} : thr'[q] = thr[q]
    BY <1>0, <2>1, <2>3 DEF ProcTypes
  <2>6. /\ held'[p] = held[p] \cup {s} /\ \A q \in Proc \ {p} : held'[q] = held[q]
        /\ mode' \in [Proc -> Mode] /\ pc' \in [Proc -> 1 .. Len(Startup)]
        /\ held' \in [Proc -> SUBSET Resource] /\ \A q \in Proc : Where(q)'
        /\ rel' \in [Proc -> Seq(ReleaseStep)]
    BY <1>0, <2>1, <2>3, AcquiredFacts DEF ProcTypes
  <2>7. Handles(p)'
    <3>1. /\ \A c \in Core : ThreadStep(c) \in held'[p] <=> ThreadStep(c) \in held[p] \/ c = s.core
          /\ \A k \in Pages, c \in Core : PageStep(k, c) \in held'[p] <=> PageStep(k, c) \in held[p]
          /\ \A i \in Port : FileStep(i) \in held'[p] <=> FileStep(i) \in held[p]
      BY <2>2, <2>3, <2>6, Named
    <3> QED BY <3>1, <2>1, <2>5 DEF ProcInv, Handles
  <2> QED BY <1>0, <2>1, <2>5, <2>6, <2>7, ProcBy DEF ProcTypes
<1>10. CASE FailStep(p)
  <2>1. PICK s \in Step(p, Fallible) :
           Failed(p, s, held[p]) /\ UNCHANGED <<file, mem, thr, sigint, usr1>>
    BY <1>10 DEF FailStep
  <2>2. s.act # "thread"
    BY <2>1, StepFacts DEF Fallible
  <2>3. /\ held'[p] = held[p] /\ \A q \in Proc \ {p} : held'[q] = held[q]
        /\ mode' \in [Proc -> Mode] /\ pc' \in [Proc -> 1 .. Len(Startup)]
        /\ held' \in [Proc -> SUBSET Resource] /\ rel' \in [Proc -> Seq(ReleaseStep)]
        /\ \A q \in Proc : Where(q)'
    BY <2>1, <2>2, FailedFacts
  <2>4. Handles(p)'
    BY <2>1, <2>3, HandlesFrame DEF ProcInv
  <2> QED BY <1>0, <2>1, <2>3, <2>4, ProcBy DEF ProcTypes
<1>11. CASE SigWait(p)
  <2>1. /\ sigint' = [sigint EXCEPT ![p] = FALSE] /\ UNCHANGED <<file, mem, thr, usr1>>
    BY <1>11 DEF SigWait
  <2>2. sigint' \in [Proc -> BOOLEAN]
    BY <1>0, <2>1 DEF ProcTypes
  <2>3. /\ held' = held /\ mode' \in [Proc -> Mode] /\ pc' = pc
        /\ rel' \in [Proc -> Seq(ReleaseStep)] /\ \A q \in Proc : Where(q)'
    BY <1>11, SigWaitFacts
  <2>4. Handles(p)'
    BY <2>1, <2>3, HandlesFrame DEF ProcInv
  <2> QED BY <1>0, <2>1, <2>2, <2>3, <2>4, ProcBy DEF ProcTypes
<1> QED BY <1>1, <1>2, <1>3, <1>4, <1>5, <1>6, <1>7, <1>8, <1>9, <1>10, <1>11

(* The steps of the release. *)
LEMMA ProcRelease ==
  ASSUME ProcInv, NEW p \in Proc,
         \/ ThreadKill(p) \/ ThreadJoin(p) \/ ClosePrivate(p) \/ UnmapArea(p)
         \/ UnmapPages(p) \/ CloseDown(p) \/ ClosePut(p)
  PROVE  ProcInv'
<1>0. ProcTypes
  BY DEF ProcInv
<1>1. CASE ThreadKill(p)
  <2>1. PICK s \in Todo(p, {"kill"}) :
           /\ usr1' = [usr1 EXCEPT ![p] = IF thr[p][s.core] = "ended" THEN @ ELSE @ \cup {s.core}]
           /\ Released(p, s) /\ UNCHANGED <<mode, pc, file, mem, thr, sigint>>
    BY <1>1 DEF ThreadKill
  <2>2. s.act = "kill" /\ s.core \in Core
    BY <2>1, TodoFacts, NameOf
  <2>3. usr1' \in [Proc -> SUBSET Core]
    BY <1>0, <2>1, <2>2 DEF ProcTypes
  <2> QED BY <2>1, <2>2, <2>3, QuietRelease
<1>2. CASE ThreadJoin(p)
  <2>1. PICK s \in Todo(p, {"thread"}) :
           /\ thr' = [thr EXCEPT ![p][s.core] = "none"]
           /\ Released(p, s) /\ UNCHANGED <<mode, pc, file, mem, sigint, usr1>>
    BY <1>2 DEF ThreadJoin
  <2>2. s \in AnyStep /\ (IsResource(s) \/ IsHalf(s)) /\ s.act = "thread"
    BY <2>1, TodoFacts
  <2>3. s.core \in Core /\ s = ThreadStep(s.core)
    BY <2>2, NameOf
  <2>5. /\ thr' \in [Proc -> [Core -> {"none", "new", "running", "ended"}]]
        /\ \A c \in Core : thr'[p][c] = IF c = s.core THEN "none" ELSE thr[p][c]
        /\ \A q \in Proc \ {p} : thr'[q] = thr[q]
    BY <1>0, <2>1, <2>3 DEF ProcTypes
  <2>6. /\ held'[p] = held[p] \ {s} /\ \A q \in Proc \ {p} : held'[q] = held[q]
        /\ mode' \in [Proc -> Mode] /\ pc' \in [Proc -> 1 .. Len(Startup)]
        /\ held' \in [Proc -> SUBSET Resource] /\ rel' \in [Proc -> Seq(ReleaseStep)]
        /\ \A q \in Proc : Where(q)'
    BY <2>1, ReleasedFacts
  <2>7. Handles(p)'
    <3>1. /\ \A c \in Core : ThreadStep(c) \in held'[p] <=> ThreadStep(c) \in held[p] /\ c # s.core
          /\ \A k \in Pages, c \in Core : PageStep(k, c) \in held'[p] <=> PageStep(k, c) \in held[p]
          /\ \A i \in Port : FileStep(i) \in held'[p] <=> FileStep(i) \in held[p]
      BY <2>2, <2>3, <2>6, Named
    <3> QED BY <3>1, <2>1, <2>5 DEF ProcInv, Handles
  <2> QED BY <1>0, <2>1, <2>5, <2>6, <2>7, ProcBy DEF ProcTypes
<1>3. CASE ClosePrivate(p)
  <2>1. PICK s \in Todo(p, {"rxirq", "txirq", "queue"}) :
           Released(p, s) /\ UNCHANGED <<mode, pc, file, mem, thr, sigint, usr1>>
    BY <1>3 DEF ClosePrivate
  <2>2. s.act \notin {"thread", "mmap", "file"}
    BY <2>1, TodoFacts
  <2> QED BY <1>0, <2>1, <2>2, QuietRelease DEF ProcTypes
<1>4. CASE UnmapArea(p)
  <2>1. PICK s \in Todo(p, {"rxring", "txring", "buffer"}) :
           Released(p, s) /\ UNCHANGED <<mode, pc, file, mem, thr, sigint, usr1>>
    BY <1>4 DEF UnmapArea
  <2>2. s.act \notin {"thread", "mmap", "file"}
    BY <2>1, TodoFacts
  <2> QED BY <1>0, <2>1, <2>2, QuietRelease DEF ProcTypes
<1>5. CASE UnmapPages(p)
  <2>1. PICK s \in Todo(p, {"mmap"}) :
           /\ mem' = [mem EXCEPT ![p][s.call][s.core] = None]
           /\ Released(p, s) /\ UNCHANGED <<mode, pc, file, thr, sigint, usr1>>
    BY <1>5 DEF UnmapPages
  <2>2. s \in AnyStep /\ (IsResource(s) \/ IsHalf(s)) /\ s.act = "mmap"
    BY <2>1, TodoFacts
  <2>3. s.core \in Core /\ s.call \in Pages /\ s = PageStep(s.call, s.core)
    BY <2>2, NameOf
  <2>5. /\ mem' \in [Proc -> [Pages -> [Core -> Block \cup {None}]]]
        /\ \A k \in Pages, c \in Core :
             mem'[p][k][c] = IF k = s.call /\ c = s.core THEN None ELSE mem[p][k][c]
        /\ \A q \in Proc \ {p} : mem'[q] = mem[q]
    BY <1>0, <2>1, <2>3 DEF ProcTypes
  <2>6. /\ held'[p] = held[p] \ {s} /\ \A q \in Proc \ {p} : held'[q] = held[q]
        /\ mode' \in [Proc -> Mode] /\ pc' \in [Proc -> 1 .. Len(Startup)]
        /\ held' \in [Proc -> SUBSET Resource] /\ rel' \in [Proc -> Seq(ReleaseStep)]
        /\ \A q \in Proc : Where(q)'
    BY <2>1, ReleasedFacts
  <2>7. Handles(p)'
    <3>1. /\ \A c \in Core : ThreadStep(c) \in held'[p] <=> ThreadStep(c) \in held[p]
          /\ \A k \in Pages, c \in Core :
               PageStep(k, c) \in held'[p] <=> PageStep(k, c) \in held[p] /\ ~ (k = s.call /\ c = s.core)
          /\ \A i \in Port : FileStep(i) \in held'[p] <=> FileStep(i) \in held[p]
      BY <2>2, <2>3, <2>6, Named
    <3> QED BY <3>1, <2>1, <2>5 DEF ProcInv, Handles
  <2> QED BY <1>0, <2>1, <2>5, <2>6, <2>7, ProcBy DEF ProcTypes
<1>6. CASE CloseDown(p)
  <2>1. PICK s \in Todo(p, {"down"}) :
           Released(p, s) /\ UNCHANGED <<mode, pc, file, mem, thr, sigint, usr1>>
    BY <1>6 DEF CloseDown
  <2>2. s.act \notin {"thread", "mmap", "file"}
    BY <2>1, TodoFacts
  <2> QED BY <1>0, <2>1, <2>2, QuietRelease DEF ProcTypes
<1>7. CASE ClosePut(p)
  <2>1. PICK s \in Todo(p, {"file"}) :
           /\ file' = [file EXCEPT ![p][s.port] = None]
           /\ Released(p, s)
           /\ mode' = [mode EXCEPT ![p] = IF Tail(rel[p]) = <<>> THEN "off" ELSE @]
           /\ sigint' = [sigint EXCEPT ![p] = @ /\ ~ (Tail(rel[p]) = <<>>)]
           /\ UNCHANGED <<pc, mem, thr, usr1>>
    BY <1>7 DEF ClosePut
  <2>2. s \in AnyStep /\ (IsResource(s) \/ IsHalf(s)) /\ s.act = "file"
    BY <2>1, TodoFacts
  <2>3. s.port \in Port /\ s = FileStep(s.port)
    BY <2>2, NameOf
  <2>4. sigint' \in [Proc -> BOOLEAN]
    BY <1>0, <2>1 DEF ProcTypes
  <2>5. /\ file' \in [Proc -> [Port -> Device \cup {None, Freed}]]
        /\ \A i \in Port : file'[p][i] = IF i = s.port THEN None ELSE file[p][i]
        /\ \A q \in Proc \ {p} : file'[q] = file[q]
    BY <1>0, <2>1, <2>3 DEF ProcTypes
  <2>8. \/ mode' = mode
        \/ Tail(rel[p]) = <<>> /\ mode' = [mode EXCEPT ![p] = "off"]
    BY <1>0, <2>1 DEF ProcTypes
  <2>6. /\ held'[p] = held[p] \ {s} /\ \A q \in Proc \ {p} : held'[q] = held[q]
        /\ mode' \in [Proc -> Mode] /\ pc' \in [Proc -> 1 .. Len(Startup)]
        /\ held' \in [Proc -> SUBSET Resource] /\ rel' \in [Proc -> Seq(ReleaseStep)]
        /\ \A q \in Proc : Where(q)'
    BY <2>1, <2>8, ReleasedFacts, ZenonT(60)
  <2>7. Handles(p)'
    <3>1. /\ \A c \in Core : ThreadStep(c) \in held'[p] <=> ThreadStep(c) \in held[p]
          /\ \A k \in Pages, c \in Core : PageStep(k, c) \in held'[p] <=> PageStep(k, c) \in held[p]
          /\ \A i \in Port : FileStep(i) \in held'[p] <=> FileStep(i) \in held[p] /\ i # s.port
      BY <2>2, <2>3, <2>6, Named
    <3> QED BY <3>1, <2>1, <2>5 DEF ProcInv, Handles
  <2> QED BY <1>0, <2>1, <2>4, <2>5, <2>6, <2>7, ProcBy DEF ProcTypes
<1> QED BY <1>1, <1>2, <1>3, <1>4, <1>5, <1>6, <1>7

(* Every step keeps layer 1. *)
LEMMA ProcStep == ProcInv /\ [Next]_vars => ProcInv'
<1> SUFFICES ASSUME ProcInv, [Next]_vars PROVE ProcInv'
  OBVIOUS
<1>0. ProcTypes
  BY DEF ProcInv
<1>1. ASSUME NEW p \in Proc, Main(p) PROVE ProcInv'
  <2>1. CASE Fault(p)
    BY <1>0, <2>1, IdleStep DEF Fault, procVars, ProcTypes
  <2> QED BY <1>1, <2>1, ProcMain, ProcRelease DEF Main
<1>2. ASSUME NEW p \in Proc, Interrupt(p) PROVE ProcInv'
  <2>1. sigint' \in [Proc -> BOOLEAN]
    BY <1>0, <1>2 DEF Interrupt, ProcTypes
  <2> QED BY <1>0, <1>2, <2>1, IdleStep DEF Interrupt, ProcTypes
<1>3. ASSUME NEW p \in Proc, Crash(p) PROVE ProcInv'
  <2>1. /\ mem' = [mem EXCEPT ![p] = NoMem] /\ thr' = [thr EXCEPT ![p] = NoThread]
        /\ sigint' = [sigint EXCEPT ![p] = FALSE] /\ usr1' = [usr1 EXCEPT ![p] = {}]
        /\ file' = file
    BY <1>3 DEF Crash
  <2>2. /\ held'[p] = {r \in held[p] : IsFile(r)} /\ \A q \in Proc \ {p} : held'[q] = held[q]
        /\ mode' \in [Proc -> Mode] /\ pc' \in [Proc -> 1 .. Len(Startup)]
        /\ held' \in [Proc -> SUBSET Resource] /\ rel' \in [Proc -> Seq(ReleaseStep)]
        /\ \A q \in Proc : Where(q)'
    BY <1>3, CrashFacts
  <2>3. /\ mem' \in [Proc -> [Pages -> [Core -> Block \cup {None}]]] /\ mem'[p] = NoMem
        /\ thr' \in [Proc -> [Core -> {"none", "new", "running", "ended"}]] /\ thr'[p] = NoThread
        /\ sigint' \in [Proc -> BOOLEAN] /\ usr1' \in [Proc -> SUBSET Core]
        /\ \A q \in Proc \ {p} : mem'[q] = mem[q] /\ thr'[q] = thr[q]
    BY <1>0, <2>1 DEF ProcTypes, NoMem, NoThread, Pages
  <2>4. Handles(p)'
    <3>1. /\ \A c \in Core : ThreadStep(c) \notin held'[p]
          /\ \A k \in Pages, c \in Core : PageStep(k, c) \notin held'[p]
          /\ \A i \in Port : FileStep(i) \in held'[p] <=> FileStep(i) \in held[p]
      BY <2>2, Named DEF IsFile
    <3> QED BY <3>1, <2>1, <2>3 DEF ProcInv, Handles, NoMem, NoThread, Pages
  <2> QED BY <1>0, <2>1, <2>2, <2>3, <2>4, ProcBy DEF ProcTypes
<1>4. ASSUME NEW p \in Proc, NEW c \in Core, ThreadRun(p, c) PROVE ProcInv'
  <2>1. /\ thr[p][c] = "new" /\ thr' = [thr EXCEPT ![p][c] = "running"]
        /\ UNCHANGED <<mode, pc, rel, held, file, mem, sigint, usr1>>
    BY <1>4 DEF ThreadRun
  <2>2. /\ thr' \in [Proc -> [Core -> {"none", "new", "running", "ended"}]]
        /\ \A q \in Proc, e \in Core : thr'[q][e] = "none" <=> thr[q][e] = "none"
    BY <1>0, <2>1 DEF ProcTypes
  <2> QED BY <1>0, <2>1, <2>2, IdleStep DEF ProcTypes
<1>5. ASSUME NEW p \in Proc, NEW c \in Core, ThreadEnd(p, c) PROVE ProcInv'
  <2>1. /\ thr[p][c] \in {"new", "running"} /\ thr' = [thr EXCEPT ![p][c] = "ended"]
        /\ sigint' = [sigint EXCEPT ![p] = TRUE] /\ usr1' = [usr1 EXCEPT ![p] = @ \ {c}]
        /\ UNCHANGED <<mode, pc, rel, held, file, mem>>
    BY <1>5 DEF ThreadEnd
  <2>2. /\ thr' \in [Proc -> [Core -> {"none", "new", "running", "ended"}]]
        /\ \A q \in Proc, e \in Core : thr'[q][e] = "none" <=> thr[q][e] = "none"
    BY <1>0, <2>1 DEF ProcTypes
  <2>3. sigint' \in [Proc -> BOOLEAN] /\ usr1' \in [Proc -> SUBSET Core]
    BY <1>0, <2>1 DEF ProcTypes
  <2> QED BY <2>1, <2>2, <2>3, IdleStep
<1>6. ASSUME NEW d \in Device, Probe(d) PROVE ProcInv'
  BY <1>0, <1>6, IdleStep DEF Probe, procVars, ProcTypes
<1>7. ASSUME NEW d \in Device, RemoveDevice(d) PROVE ProcInv'
  <2>1. /\ file' = [p \in Proc |-> [i \in Port |-> IF file[p][i] = d THEN Freed ELSE file[p][i]]]
        /\ UNCHANGED <<mode, pc, rel, held, mem, thr, sigint, usr1>>
    BY <1>7 DEF RemoveDevice
  <2>2. file' \in [Proc -> [Port -> Device \cup {None, Freed}]]
    BY <1>0, <2>1 DEF ProcTypes
  <2>3. d # None /\ Freed # None
    BY LifecycleAssumption
  <2>4. \A p \in Proc, i \in Port : file'[p][i] = None <=> file[p][i] = None
    BY <2>1, <2>3
  <2>5. ProcTypes'
    BY <1>0, <2>1, <2>2 DEF ProcTypes
  <2>6. ASSUME NEW q \in Proc PROVE Where(q)' /\ Handles(q)'
    <3>1. Where(q)'
      BY <2>1, WhereFrame DEF ProcInv
    <3>2. Handles(q)'
      BY <2>1, <2>4 DEF ProcInv, Handles
    <3> QED BY <3>1, <3>2
  <2> QED BY <2>5, <2>6 DEF ProcInv
<1>8. ASSUME Reboot PROVE ProcInv'
  <2>1. /\ mode' = [p \in Proc |-> "off"] /\ pc' = [p \in Proc |-> 1] /\ rel' = [p \in Proc |-> <<>>]
        /\ held' = [p \in Proc |-> {}] /\ file' = [p \in Proc |-> NoFile] /\ mem' = [p \in Proc |-> NoMem]
        /\ thr' = [p \in Proc |-> NoThread] /\ sigint' = [p \in Proc |-> FALSE] /\ usr1' = [p \in Proc |-> {}]
    BY <1>8 DEF Reboot
  <2>2. 1 \in 1 .. Len(Startup)
    BY Progress
  <2>3. ProcTypes'
    BY <2>1, <2>2 DEF ProcTypes, Mode, NoFile, NoMem, NoThread, Pages
  <2>4. ASSUME NEW p \in Proc PROVE Where(p)'
    <3>1. \A x \in Resource : ~ Passed(p, x)'
      <4>1. Resource \subseteq StartStep
        BY ResourceIff, StartStepIff
      <4> QED BY <4>1, <2>1, Progress DEF Passed, Now
    <3> QED BY <2>1, <3>1 DEF Where, Releasing
  <2>5. ASSUME NEW p \in Proc PROVE Handles(p)'
    BY <2>1 DEF Handles, NoFile, NoMem, NoThread, Pages
  <2> QED BY <2>3, <2>4, <2>5 DEF ProcInv
<1>9. CASE UNCHANGED vars
  BY <1>0, <1>9, IdleStep DEF vars, procVars, ProcTypes
<1> QED BY <1>1, <1>2, <1>3, <1>4, <1>5, <1>6, <1>7, <1>8, <1>9 DEF Next

(* A process holds exactly what it acquired and has not given back, in     *)
(* every mode, and gives it back in an order that no dependency forbids:   *)
(* threads before what they use, areas before their pages and files.       *)
THEOREM LifecycleHeld == Spec => []ProcInv
<1>1. Init => ProcInv
  BY ProcInit
<1>2. ProcInv /\ [Next]_vars => ProcInv'
  BY ProcStep
<1> QED BY <1>1, <1>2, PTL DEF Spec

-----------------------------------------------------------------------------
(* Layer 2: the signals between main and the threads.                      *)

\* A thread that ended has left main a SIGINT to find; once main releases, a
\* thread it did not join yet is still to be signalled, was, or has ended.
Signals(p) == \A c \in Core :
  /\ mode[p] \in {"start", "wait"} /\ thr[p][c] = "ended" => sigint[p]
  /\ mode[p] = "release" /\ thr[p][c] # "none" =>
       KillStep(c) \in Members(rel[p]) \/ thr[p][c] = "ended" \/ c \in usr1[p]

SignalInv == \A p \in Proc : Signals(p)

(* The resource behind pthread_kill and behind the first half of close. *)
LEMMA OfHalf ==
  /\ \A c \in Core : Of(KillStep(c)) = ThreadStep(c)
  /\ \A i \in Port : Of(DownStep(i)) = FileStep(i)
<1>1. ASSUME NEW c \in Core PROVE Of(KillStep(c)) = ThreadStep(c)
  <2>1. KillStep(c) \in AnyStep /\ KillStep(c).act = "kill" /\ KillStep(c).core = c
    BY Named, ReleaseStepIff
  <2>2. IsHalf(KillStep(c))
    BY DEF KillStep, S, IsHalf
  <2>3. Of(KillStep(c)) \in AnyStep /\ IsResource(Of(KillStep(c))) /\ Of(KillStep(c)).act = "thread"
        /\ Of(KillStep(c)).core = c
    BY <2>1, <2>2, OfFacts
  <2> QED BY <2>3, NameOf
<1>2. ASSUME NEW i \in Port PROVE Of(DownStep(i)) = FileStep(i)
  <2>1. DownStep(i) \in ReleaseStep /\ IsFile(DownStep(i)) /\ DownStep(i).port = i
    BY Named DEF IsFile
  <2> QED BY <2>1, FilesOf
<1> QED BY <1>1, <1>2

(* A process whose signals, threads and release are not touched. *)
LEMMA SignalsFrame ==
  ASSUME NEW q, Signals(q), mode'[q] = mode[q], rel'[q] = rel[q], thr'[q] = thr[q],
         sigint'[q] = sigint[q], usr1'[q] = usr1[q]
  PROVE  Signals(q)'
BY DEF Signals

(* A step of main that succeeds leaves the signals where they are. *)
LEMMA SignalsAcquired ==
  ASSUME ProcInv, SignalInv, NEW p \in Proc, NEW acts, NEW s \in Step(p, acts), Acquired(p, s),
         \A c \in Core : thr'[p][c] = "ended" => thr[p][c] = "ended",
         \A q \in Proc \ {p} : thr'[q] = thr[q], sigint' = sigint, usr1' = usr1
  PROVE  SignalInv'
<1>1. /\ mode'[p] \in {"start", "wait"} /\ rel' = rel
      /\ \A q \in Proc \ {p} : mode'[q] = mode[q]
  BY AcquiredFacts
<1>2. mode[p] \in {"off", "start"}
  BY StepFacts
<1>3. Signals(p)'
  <2> SUFFICES ASSUME NEW c \in Core, thr'[p][c] = "ended" PROVE sigint[p]
    BY <1>1 DEF Signals
  <2>1. ThreadStep(c) \in held[p]
    BY DEF ProcInv, Handles
  <2>2. mode[p] # "off"
    <3>1. ThreadStep(c) \in StartStep
      BY Named, ResourceIff, StartStepIff
    <3> QED BY <2>1, <3>1, Progress DEF ProcInv, Where, Releasing, Passed, Now
  <2> QED BY <1>2, <2>2 DEF SignalInv, Signals
<1>4. ASSUME NEW q \in Proc, q # p PROVE Signals(q)'
  BY <1>1, <1>4, SignalsFrame DEF SignalInv
<1> QED BY <1>3, <1>4 DEF SignalInv

(* When main starts to release, every thread is still to be signalled. *)
LEMMA SignalsRelease ==
  ASSUME ProcInv, SignalInv, NEW p \in Proc, mode'[p] = "release",
         \A r : r \in ReleaseStep /\ Of(r) \in held[p] => r \in Members(rel'[p]),
         \A q \in Proc \ {p} : mode'[q] = mode[q] /\ rel'[q] = rel[q] /\ sigint'[q] = sigint[q],
         thr' = thr, usr1' = usr1
  PROVE  SignalInv'
<1>1. Signals(p)'
  <2> SUFFICES ASSUME NEW c \in Core, thr[p][c] # "none" PROVE KillStep(c) \in Members(rel'[p])
    BY DEF Signals
  <2>1. ThreadStep(c) \in held[p]
    BY DEF ProcInv, Handles
  <2> QED BY <2>1, OfHalf, Named
<1>2. ASSUME NEW q \in Proc, q # p PROVE Signals(q)'
  BY <1>2, SignalsFrame DEF SignalInv
<1> QED BY <1>1, <1>2 DEF SignalInv

(* A step of the release but those on threads. *)
LEMMA SignalsReleased ==
  ASSUME ProcInv, SignalInv, NEW p \in Proc, NEW acts, NEW s \in Todo(p, acts), Released(p, s),
         s.act \notin {"kill", "thread"}, pc' = pc,
         \/ mode' = mode
         \/ Tail(rel[p]) = <<>> /\ mode' = [mode EXCEPT ![p] = "off"],
         thr' = thr, usr1' = usr1, \A q \in Proc \ {p} : sigint'[q] = sigint[q]
  PROVE  SignalInv'
<1>1. /\ \A r : r \in Members(rel'[p]) <=> r \in Members(rel[p]) /\ r # s
      /\ mode'[p] \in {mode[p], "off"}
      /\ \A q \in Proc \ {p} : mode'[q] = mode[q] /\ rel'[q] = rel[q]
  <2>1. CASE mode' = mode
    BY <2>1, ReleasedFacts, ZenonT(60)
  <2>2. CASE Tail(rel[p]) = <<>> /\ mode' = [mode EXCEPT ![p] = "off"]
    BY <2>2, ReleasedFacts
  <2> QED BY <2>1, <2>2
<1>2. mode[p] \notin {"start", "wait"}
  BY TodoFacts DEF Releasing
<1>3. \A c \in Core : KillStep(c) # s
  BY Named
<1>4. Signals(p)'
  BY <1>1, <1>2, <1>3 DEF SignalInv, Signals
<1>5. ASSUME NEW q \in Proc, q # p PROVE Signals(q)'
  BY <1>1, <1>5, SignalsFrame DEF SignalInv
<1> QED BY <1>4, <1>5 DEF SignalInv

(* Every step keeps layer 2: the steps of main. *)
LEMMA SignalMain ==
  ASSUME ProcInv, SignalInv, NEW p \in Proc, Main(p)
  PROVE  SignalInv'
<1>0. ProcTypes
  BY DEF ProcInv
<1>1. CASE OpenFile(p)
  <2>1. PICK s \in Step(p, {"file"}) : Acquired(p, s) /\ UNCHANGED <<thr, sigint, usr1>>
    BY <1>1 DEF OpenFile
  <2> QED BY <2>1, SignalsAcquired
<1>2. CASE DeviceUp(p)
  <2>1. PICK s \in Step(p, {"up"}) : Acquired(p, s) /\ UNCHANGED <<thr, sigint, usr1>>
    BY <1>2 DEF DeviceUp
  <2> QED BY <2>1, SignalsAcquired
<1>3. CASE Private(p)
  <2>1. PICK s \in Step(p, {"bar", "rings", "slots", "pool", "mask", "alloc"}) :
           Acquired(p, s) /\ UNCHANGED <<thr, sigint, usr1>>
    BY <1>3 DEF Private
  <2> QED BY <2>1, SignalsAcquired
<1>5. CASE MapPages(p)
  <2>1. PICK s \in Step(p, {"mmap"}) : Acquired(p, s) /\ UNCHANGED <<thr, sigint, usr1>>
    BY <1>5 DEF MapPages
  <2> QED BY <2>1, SignalsAcquired
<1>7. CASE Registers(p)
  <2>1. PICK s \in Step(p, {"registers"}) : Acquired(p, s) /\ UNCHANGED <<thr, sigint, usr1>>
    BY <1>7 DEF Registers
  <2> QED BY <2>1, SignalsAcquired
<1>a. ASSUME NEW acts, NEW s \in Step(p, acts), acts \subseteq {"queue", "rxring", "txring", "buffer", "rxirq", "txirq"},
             AcquiredOrFailed(p, s), UNCHANGED <<thr, sigint, usr1>>
      PROVE  SignalInv'
  <2>1. s \in Resource /\ s.act # "thread"
    BY <1>a, StepFacts DEF IsPlain
  <2>2. CASE Acquired(p, s)
    BY <1>a, <2>2, SignalsAcquired
  <2>3. CASE Failed(p, s, held[p] \cup {s})
    <3>1. /\ mode'[p] = "release"
          /\ \A r : r \in Members(rel'[p]) <=> r \in ReleaseStep /\ Of(r) \in held[p] \cup {s}
          /\ \A q \in Proc \ {p} : mode'[q] = mode[q] /\ rel'[q] = rel[q]
      BY <2>1, <2>3, FailedFacts
    <3> QED BY <1>a, <3>1, SignalsRelease
  <2> QED BY <1>a, <2>2, <2>3 DEF AcquiredOrFailed
<1>4. CASE OpenQueue(p)
  <2>1. PICK s \in Step(p, {"queue"}) : AcquiredOrFailed(p, s) /\ UNCHANGED <<thr, sigint, usr1>>
    BY <1>4 DEF OpenQueue
  <2> QED BY <2>1, <1>a
<1>6. CASE MapArea(p)
  <2>1. PICK s \in Step(p, {"rxring", "txring", "buffer"}) : Acquired(p, s) \/ AcquiredOrFailed(p, s)
    BY <1>6 DEF MapArea
  <2>2. UNCHANGED <<thr, sigint, usr1>>
    BY <1>6 DEF MapArea
  <2> QED BY <2>1, <2>2, <1>a DEF AcquiredOrFailed
<1>8. CASE IrqOpen(p)
  <2>1. PICK s \in Step(p, {"rxirq", "txirq"}) : AcquiredOrFailed(p, s) /\ UNCHANGED <<thr, sigint, usr1>>
    BY <1>8 DEF IrqOpen
  <2> QED BY <2>1, <1>a
<1>9. CASE CreateThread(p)
  <2>1. PICK s \in Step(p, {"thread"}) :
           thr' = [thr EXCEPT ![p][s.core] = "new"] /\ Acquired(p, s) /\ UNCHANGED <<sigint, usr1>>
    BY <1>9 DEF CreateThread
  <2>2. /\ \A c \in Core : thr'[p][c] = "ended" => thr[p][c] = "ended"
        /\ \A q \in Proc \ {p} : thr'[q] = thr[q]
    BY <1>0, <2>1 DEF ProcTypes
  <2> QED BY <2>1, <2>2, SignalsAcquired
<1>10. CASE FailStep(p)
  <2>1. PICK s \in Step(p, Fallible) : Failed(p, s, held[p]) /\ UNCHANGED <<thr, sigint, usr1>>
    BY <1>10 DEF FailStep
  <2>2. s.act # "thread"
    BY <2>1, StepFacts DEF Fallible
  <2>3. /\ mode'[p] = "release"
        /\ \A r : r \in Members(rel'[p]) <=> r \in ReleaseStep /\ Of(r) \in held[p]
        /\ \A q \in Proc \ {p} : mode'[q] = mode[q] /\ rel'[q] = rel[q]
    BY <2>1, <2>2, FailedFacts
  <2> QED BY <2>1, <2>3, SignalsRelease
<1>11. CASE SigWait(p)
  <2>1. sigint' = [sigint EXCEPT ![p] = FALSE] /\ UNCHANGED <<thr, usr1>>
    BY <1>11 DEF SigWait
  <2>2. \A q \in Proc \ {p} : sigint'[q] = sigint[q]
    BY <1>0, <2>1 DEF ProcTypes
  <2>3. /\ mode'[p] = "release" /\ \A q \in Proc \ {p} : mode'[q] = mode[q] /\ rel'[q] = rel[q]
        /\ \A r : r \in ReleaseStep => r \in Members(rel'[p])
    BY <1>11, SigWaitFacts
  <2> QED BY <2>1, <2>2, <2>3, SignalsRelease
<1>12. CASE ThreadKill(p)
  <2>1. PICK s \in Todo(p, {"kill"}) :
           /\ usr1' = [usr1 EXCEPT ![p] = IF thr[p][s.core] = "ended" THEN @ ELSE @ \cup {s.core}]
           /\ Released(p, s) /\ UNCHANGED <<mode, pc, thr, sigint>>
    BY <1>12 DEF ThreadKill
  <2>2. s.act = "kill" /\ s.core \in Core /\ s = KillStep(s.core)
    BY <2>1, TodoFacts, NameOf
  <2>3. /\ \A r : r \in Members(rel'[p]) <=> r \in Members(rel[p]) /\ r # s
        /\ \A q \in Proc \ {p} : rel'[q] = rel[q]
    BY <2>1, ReleasedFacts
  <2>4. /\ usr1'[p] = IF thr[p][s.core] = "ended" THEN usr1[p] ELSE usr1[p] \cup {s.core}
        /\ \A q \in Proc \ {p} : usr1'[q] = usr1[q]
    BY <1>0, <2>1 DEF ProcTypes
  <2>5. Signals(p)'
    <3>1. ASSUME NEW c \in Core, mode[p] = "release", thr[p][c] # "none"
          PROVE KillStep(c) \in Members(rel'[p]) \/ thr[p][c] = "ended" \/ c \in usr1'[p]
      <4>1. KillStep(c) \in Members(rel[p]) \/ thr[p][c] = "ended" \/ c \in usr1[p]
        BY <3>1 DEF SignalInv, Signals
      <4>2. CASE c = s.core
        BY <2>4, <4>2
      <4>3. CASE c # s.core
        <5>1. KillStep(c) # s
          BY <2>2, <4>3, Named
        <5> QED BY <4>1, <5>1, <2>3, <2>4
      <4> QED BY <4>2, <4>3
    <3> QED BY <3>1, <2>1 DEF SignalInv, Signals
  <2>6. ASSUME NEW q \in Proc, q # p PROVE Signals(q)'
    BY <2>1, <2>3, <2>4, <2>6, SignalsFrame DEF SignalInv
  <2> QED BY <2>5, <2>6 DEF SignalInv
<1>13. CASE ThreadJoin(p)
  <2>1. PICK s \in Todo(p, {"thread"}) :
           /\ thr' = [thr EXCEPT ![p][s.core] = "none"]
           /\ Released(p, s) /\ UNCHANGED <<mode, pc, sigint, usr1>>
    BY <1>13 DEF ThreadJoin
  <2>2. s.act = "thread" /\ s.core \in Core
    BY <2>1, TodoFacts, NameOf
  <2>3. /\ \A r : r \in Members(rel'[p]) <=> r \in Members(rel[p]) /\ r # s
        /\ \A q \in Proc \ {p} : rel'[q] = rel[q]
    BY <2>1, ReleasedFacts
  <2>4. /\ \A c \in Core : thr'[p][c] = IF c = s.core THEN "none" ELSE thr[p][c]
        /\ \A q \in Proc \ {p} : thr'[q] = thr[q]
    BY <1>0, <2>1, <2>2 DEF ProcTypes
  <2>5. \A c \in Core : KillStep(c) # s
    BY <2>2, Named
  <2>6. Signals(p)'
    <3>1. mode[p] \notin {"start", "wait"}
      BY <2>1, TodoFacts DEF Releasing
    <3> QED BY <3>1, <2>1, <2>3, <2>4, <2>5 DEF SignalInv, Signals
  <2>7. ASSUME NEW q \in Proc, q # p PROVE Signals(q)'
    BY <2>1, <2>3, <2>4, <2>7, SignalsFrame DEF SignalInv
  <2> QED BY <2>6, <2>7 DEF SignalInv
<1>b. ASSUME NEW acts, NEW s \in Todo(p, acts), acts \cap {"kill", "thread"} = {},
             Released(p, s), UNCHANGED <<mode, pc, thr, sigint, usr1>>
      PROVE  SignalInv'
  <2>1. s.act \notin {"kill", "thread"}
    BY <1>b, TodoFacts
  <2> QED BY <1>b, <2>1, SignalsReleased
<1>14. CASE ClosePrivate(p)
  <2>1. PICK s \in Todo(p, {"rxirq", "txirq", "queue"}) :
           Released(p, s) /\ UNCHANGED <<mode, pc, thr, sigint, usr1>>
    BY <1>14 DEF ClosePrivate
  <2> QED BY <2>1, <1>b
<1>15. CASE UnmapArea(p)
  <2>1. PICK s \in Todo(p, {"rxring", "txring", "buffer"}) :
           Released(p, s) /\ UNCHANGED <<mode, pc, thr, sigint, usr1>>
    BY <1>15 DEF UnmapArea
  <2> QED BY <2>1, <1>b
<1>16. CASE UnmapPages(p)
  <2>1. PICK s \in Todo(p, {"mmap"}) : Released(p, s) /\ UNCHANGED <<mode, pc, thr, sigint, usr1>>
    BY <1>16 DEF UnmapPages
  <2> QED BY <2>1, <1>b
<1>17. CASE CloseDown(p)
  <2>1. PICK s \in Todo(p, {"down"}) : Released(p, s) /\ UNCHANGED <<mode, pc, thr, sigint, usr1>>
    BY <1>17 DEF CloseDown
  <2> QED BY <2>1, <1>b
<1>18. CASE ClosePut(p)
  <2>1. PICK s \in Todo(p, {"file"}) :
           /\ Released(p, s)
           /\ mode' = [mode EXCEPT ![p] = IF Tail(rel[p]) = <<>> THEN "off" ELSE @]
           /\ sigint' = [sigint EXCEPT ![p] = @ /\ ~ (Tail(rel[p]) = <<>>)]
           /\ UNCHANGED <<pc, thr, usr1>>
    BY <1>18 DEF ClosePut
  <2>2. s.act \notin {"kill", "thread"}
    BY <2>1, TodoFacts
  <2>3. \/ mode' = mode
        \/ Tail(rel[p]) = <<>> /\ mode' = [mode EXCEPT ![p] = "off"]
    BY <1>0, <2>1 DEF ProcTypes
  <2>4. \A q \in Proc \ {p} : sigint'[q] = sigint[q]
    BY <1>0, <2>1 DEF ProcTypes
  <2> QED BY <2>1, <2>2, <2>3, <2>4, SignalsReleased
<1>19. CASE Fault(p)
  BY <1>19 DEF Fault, procVars, SignalInv, Signals
<1> QED BY <1>1, <1>2, <1>3, <1>4, <1>5, <1>6, <1>7, <1>8, <1>9, <1>10, <1>11, <1>12, <1>13, <1>14,
           <1>15, <1>16, <1>17, <1>18, <1>19 DEF Main

(* Every step keeps layer 2. *)
LEMMA SignalStep == ProcInv /\ SignalInv /\ [Next]_vars => SignalInv'
<1> SUFFICES ASSUME ProcInv, SignalInv, [Next]_vars PROVE SignalInv'
  OBVIOUS
<1>0. ProcTypes
  BY DEF ProcInv
<1>1. ASSUME NEW p \in Proc, Main(p) PROVE SignalInv'
  BY <1>1, SignalMain
<1>2. ASSUME NEW p \in Proc, Interrupt(p) PROVE SignalInv'
  <2>1. sigint' = [sigint EXCEPT ![p] = TRUE] /\ UNCHANGED <<mode, rel, thr, usr1>>
    BY <1>2 DEF Interrupt
  <2>2. \A q \in Proc : sigint[q] => sigint'[q]
    BY <1>0, <2>1 DEF ProcTypes
  <2> QED BY <2>1, <2>2 DEF SignalInv, Signals
<1>3. ASSUME NEW p \in Proc, Crash(p) PROVE SignalInv'
  <2>1. /\ thr' = [thr EXCEPT ![p] = NoThread] /\ sigint' = [sigint EXCEPT ![p] = FALSE]
        /\ usr1' = [usr1 EXCEPT ![p] = {}]
    BY <1>3 DEF Crash
  <2>2. /\ mode'[p] \in {"aborted", "dying"}
        /\ \A q \in Proc \ {p} : mode'[q] = mode[q] /\ rel'[q] = rel[q]
    BY <1>3, CrashFacts
  <2>3. \A q \in Proc \ {p} : thr'[q] = thr[q] /\ sigint'[q] = sigint[q] /\ usr1'[q] = usr1[q]
    BY <1>0, <2>1 DEF ProcTypes
  <2>4. Signals(p)'
    BY <2>2 DEF Signals
  <2>5. ASSUME NEW q \in Proc, q # p PROVE Signals(q)'
    BY <2>2, <2>3, <2>5, SignalsFrame DEF SignalInv
  <2> QED BY <2>4, <2>5 DEF SignalInv
<1>4. ASSUME NEW p \in Proc, NEW c \in Core, ThreadRun(p, c) PROVE SignalInv'
  <2>1. thr[p][c] = "new" /\ thr' = [thr EXCEPT ![p][c] = "running"] /\ UNCHANGED <<mode, rel, sigint, usr1>>
    BY <1>4 DEF ThreadRun
  <2>2. \A q \in Proc, e \in Core : /\ thr'[q][e] = "none" <=> thr[q][e] = "none"
                                    /\ thr'[q][e] = "ended" <=> thr[q][e] = "ended"
    BY <1>0, <2>1 DEF ProcTypes
  <2> QED BY <2>1, <2>2 DEF SignalInv, Signals
<1>5. ASSUME NEW p \in Proc, NEW c \in Core, ThreadEnd(p, c) PROVE SignalInv'
  <2>1. /\ thr' = [thr EXCEPT ![p][c] = "ended"] /\ sigint' = [sigint EXCEPT ![p] = TRUE]
        /\ usr1' = [usr1 EXCEPT ![p] = @ \ {c}] /\ UNCHANGED <<mode, rel>>
        /\ thr[p][c] \in {"new", "running"}
    BY <1>5 DEF ThreadEnd
  <2>2. /\ \A e \in Core : thr'[p][e] = IF e = c THEN "ended" ELSE thr[p][e]
        /\ sigint'[p] /\ usr1'[p] = usr1[p] \ {c}
        /\ \A q \in Proc \ {p} : thr'[q] = thr[q] /\ sigint'[q] = sigint[q] /\ usr1'[q] = usr1[q]
    BY <1>0, <2>1 DEF ProcTypes
  <2>3. Signals(p)'
    BY <2>1, <2>2 DEF SignalInv, Signals
  <2>4. ASSUME NEW q \in Proc, q # p PROVE Signals(q)'
    BY <2>1, <2>2, <2>4, SignalsFrame DEF SignalInv
  <2> QED BY <2>3, <2>4 DEF SignalInv
<1>6. ASSUME NEW d \in Device, Probe(d) PROVE SignalInv'
  BY <1>6 DEF Probe, procVars, SignalInv, Signals
<1>7. ASSUME NEW d \in Device, RemoveDevice(d) PROVE SignalInv'
  BY <1>7 DEF RemoveDevice, SignalInv, Signals
<1>8. ASSUME Reboot PROVE SignalInv'
  BY <1>8 DEF Reboot, SignalInv, Signals
<1>9. CASE UNCHANGED vars
  BY <1>9 DEF vars, procVars, SignalInv, Signals
<1> QED BY <1>1, <1>2, <1>3, <1>4, <1>5, <1>6, <1>7, <1>8, <1>9 DEF Next

(* main and the threads wait for each other only where an answer is due.   *)
LEMMA SignalsAnswer == ProcInv /\ SignalInv => WaitIsAnswered
<1> SUFFICES ASSUME ProcInv, SignalInv, NEW p \in Proc, NEW c \in Core,
                    mode[p] = "release", rel[p] # <<>>, Head(rel[p]) = ThreadStep(c)
             PROVE  thr[p][c] = "ended" \/ c \in usr1[p]
  BY DEF WaitIsAnswered, ThreadStep, SignalInv, Signals
<1>1. /\ rel[p] \in Seq(ReleaseStep) /\ Chain(rel[p], Allowed) /\ ReleaseStep \subseteq AnyStep
      /\ held[p] = Members(rel[p]) \cap Resource
  BY ResourceIff DEF ProcInv, ProcTypes, Where, Releasing
<1>2. /\ \A r : r \in Members(Tail(rel[p])) <=> r \in Members(rel[p]) /\ r # ThreadStep(c)
      /\ \A r \in Members(Tail(rel[p])) : ~ Dep(r, ThreadStep(c))
  BY <1>1, TailFacts
<1>3. KillStep(c) # ThreadStep(c) /\ Dep(KillStep(c), ThreadStep(c))
  BY Named DEF Dep
<1>4. KillStep(c) \notin Members(rel[p])
  BY <1>2, <1>3
<1>5. thr[p][c] # "none"
  <2>1. ThreadStep(c) \in Members(rel[p])
    <3>1. 1 \in 1 .. Len(rel[p]) /\ Head(rel[p]) = rel[p][1]
      BY <1>1
    <3> QED BY <3>1 DEF Members
  <2> QED BY <2>1, <1>1, Named DEF ProcInv, Handles
<1> QED BY <1>4, <1>5 DEF SignalInv, Signals

(* main and the threads wait for each other only where an answer is due:   *)
(* it is not left in sigwait after a thread has ended, and joins a thread  *)
(* only after it was told to end.                                          *)
THEOREM LifecycleWaitIsAnswered == Spec => []WaitIsAnswered
<1>1. Init => SignalInv
  BY DEF Init, SignalInv, Signals, NoThread
<1>2. ProcInv /\ SignalInv /\ [Next]_vars => SignalInv'
  BY SignalStep
<1>3. ProcInv /\ SignalInv => WaitIsAnswered
  BY SignalsAnswer
<1> QED BY <1>1, <1>2, <1>3, LifecycleHeld, PTL DEF Spec

-----------------------------------------------------------------------------
(* The list of DMA areas.                                                  *)

Area == [addr : Nat, len : Nat]

(* A part of a sequence. *)
LEMMA PartOf ==
  ASSUME NEW X, NEW s \in Seq(X), NEW m \in Int, NEW n \in Int, 1 <= m, n <= Len(s), m <= n + 1
  PROVE  /\ SubSeq(s, m, n) \in Seq(X) /\ Len(SubSeq(s, m, n)) = n - m + 1
         /\ \A k \in 1 .. n - m + 1 : SubSeq(s, m, n)[k] = s[m + k - 1]
OBVIOUS

(* The elements of a concatenation. *)
LEMMA JoinFacts ==
  ASSUME NEW X, NEW a \in Seq(X), NEW b \in Seq(X), NEW t, t = a \o b
  PROVE  /\ t \in Seq(X) /\ Len(t) = Len(a) + Len(b) /\ Len(a) \in Nat /\ Len(b) \in Nat
         /\ \A k \in 1 .. Len(a) : t[k] = a[k]
         /\ \A k \in 1 .. Len(b) : t[Len(a) + k] = b[k]
OBVIOUS

(* What InsertAt does. *)
LEMMA InsertFacts ==
  ASSUME NEW X, NEW s \in Seq(X), NEW e \in X, NEW i \in 1 .. Len(s) + 1, NEW t, t = InsertAt(s, i, e)
  PROVE  /\ t \in Seq(X) /\ Len(t) = Len(s) + 1
         /\ \A k \in 1 .. Len(t) : t[k] = IF k < i THEN s[k] ELSE IF k = i THEN e ELSE s[k - 1]
         /\ \A x : x \in Members(t) <=> x \in Members(s) \/ x = e
<1>0. Len(s) \in Nat /\ i \in Int /\ 1 <= i /\ i <= Len(s) + 1
  OBVIOUS
<1>1. PICK a : a = SubSeq(s, 1, i - 1)
  OBVIOUS
<1>2. PICK b : b = SubSeq(s, i, Len(s))
  OBVIOUS
<1>3. /\ a \in Seq(X) /\ Len(a) = i - 1 /\ \A k \in 1 .. i - 1 : a[k] = s[k]
  <2>1. /\ a \in Seq(X) /\ Len(a) = (i - 1) - 1 + 1 /\ \A k \in 1 .. (i - 1) - 1 + 1 : a[k] = s[1 + k - 1]
    BY <1>0, <1>1, PartOf
  <2>2. (i - 1) - 1 + 1 = i - 1 /\ \A k \in 1 .. i - 1 : 1 + k - 1 = k
    BY <1>0
  <2> QED BY <2>1, <2>2
<1>4. /\ b \in Seq(X) /\ Len(b) = Len(s) - i + 1 /\ \A k \in 1 .. Len(s) - i + 1 : b[k] = s[i + k - 1]
  BY <1>0, <1>2, PartOf
<1>5. t = a \o <<e>> \o b
  BY <1>1, <1>2 DEF InsertAt
<1>6. PICK d : d = a \o <<e>>
  OBVIOUS
<1>7. /\ d \in Seq(X) /\ Len(d) = i /\ \A k \in 1 .. i : d[k] = IF k < i THEN s[k] ELSE e
  <2>1. /\ <<e>> \in Seq(X) /\ Len(<<e>>) = 1 /\ <<e>>[1] = e
    OBVIOUS
  <2>2. /\ d \in Seq(X) /\ Len(d) = Len(a) + 1 /\ \A k \in 1 .. Len(a) : d[k] = a[k]
        /\ d[Len(a) + 1] = e
    BY <2>1, <1>3, <1>6
  <2>3. ASSUME NEW k \in 1 .. i PROVE d[k] = IF k < i THEN s[k] ELSE e
    <3>1. CASE k < i
      <4>1. k \in 1 .. Len(a) /\ k \in 1 .. i - 1
        BY <3>1, <1>0, <1>3
      <4> QED BY <4>1, <3>1, <2>2, <1>3
    <3>2. CASE ~ (k < i)
      <4>1. k = Len(a) + 1
        BY <3>2, <1>0, <1>3
      <4> QED BY <4>1, <3>2, <2>2
    <3> QED BY <3>1, <3>2
  <2> QED BY <2>2, <2>3, <1>0, <1>3
<1>8. t = d \o b
  BY <1>5, <1>6
<1>9. /\ t \in Seq(X) /\ Len(t) = Len(d) + Len(b) /\ \A k \in 1 .. Len(d) : t[k] = d[k]
      /\ \A k \in 1 .. Len(b) : t[Len(d) + k] = b[k]
  BY <1>4, <1>7, <1>8
<1>10. Len(t) = Len(s) + 1
  BY <1>0, <1>4, <1>7, <1>9
<1>11. ASSUME NEW k \in 1 .. Len(t) PROVE t[k] = IF k < i THEN s[k] ELSE IF k = i THEN e ELSE s[k - 1]
  <2>1. CASE k <= i
    <3>1. k \in 1 .. Len(d) /\ k \in 1 .. i
      BY <2>1, <1>7
    <3> QED BY <3>1, <2>1, <1>7, <1>9
  <2>2. CASE ~ (k <= i)
    <3>1. k - i \in 1 .. Len(b) /\ Len(d) + (k - i) = k /\ k - i \in 1 .. Len(s) - i + 1 /\ i + (k - i) - 1 = k - 1
      BY <2>2, <1>0, <1>4, <1>7, <1>10
    <3>2. t[k] = s[k - 1]
      BY <3>1, <1>4, <1>9, ZenonT(60)
    <3> QED BY <3>2, <2>2, <1>0
  <2> QED BY <2>1, <2>2, <1>0
<1>12. ASSUME NEW x PROVE x \in Members(t) <=> x \in Members(s) \/ x = e
  <2>1. ASSUME x \in Members(t) PROVE x \in Members(s) \/ x = e
    <3>1. PICK k \in 1 .. Len(t) : x = t[k]
      BY <2>1 DEF Members
    <3>2. (k < i => k \in 1 .. Len(s)) /\ (~ (k < i) /\ k # i => k - 1 \in 1 .. Len(s))
      BY <1>0, <1>10
    <3> QED BY <3>1, <3>2, <1>11 DEF Members
  <2>2. ASSUME x = e PROVE x \in Members(t)
    <3>1. i \in 1 .. Len(t) /\ ~ (i < i)
      BY <1>0, <1>10
    <3> QED BY <3>1, <2>2, <1>11 DEF Members
  <2>3. ASSUME x \in Members(s) PROVE x \in Members(t)
    <3>1. PICK k \in 1 .. Len(s) : x = s[k]
      BY <2>3 DEF Members
    <3>2. CASE k < i
      <4>1. k \in 1 .. Len(t)
        BY <1>10
      <4> QED BY <4>1, <3>1, <3>2, <1>11 DEF Members
    <3>3. CASE ~ (k < i)
      <4>1. k + 1 \in 1 .. Len(t) /\ ~ (k + 1 < i) /\ k + 1 # i /\ (k + 1) - 1 = k
        BY <3>3, <1>0, <1>10
      <4> QED BY <4>1, <3>1, <1>11 DEF Members
    <3> QED BY <3>2, <3>3
  <2> QED BY <2>1, <2>2, <2>3
<1> QED BY <1>9, <1>10, <1>11, <1>12

(* What RemoveAt does. *)
LEMMA RemoveFacts ==
  ASSUME NEW X, NEW s \in Seq(X), NEW i \in 1 .. Len(s), NEW t, t = RemoveAt(s, i)
  PROVE  /\ t \in Seq(X) /\ Len(t) = Len(s) - 1
         /\ \A k \in 1 .. Len(t) : t[k] = IF k < i THEN s[k] ELSE s[k + 1]
         /\ \A x \in Members(t) : \E k \in 1 .. Len(s) : k # i /\ x = s[k]
         /\ \A k \in 1 .. Len(s) : k # i => s[k] \in Members(t)
<1>0. Len(s) \in Nat /\ i \in Int /\ 1 <= i /\ i <= Len(s)
  OBVIOUS
<1>1. PICK a : a = SubSeq(s, 1, i - 1)
  OBVIOUS
<1>2. PICK b : b = SubSeq(s, i + 1, Len(s))
  OBVIOUS
<1>3. /\ a \in Seq(X) /\ Len(a) = i - 1 /\ \A k \in 1 .. i - 1 : a[k] = s[k]
  <2>1. /\ a \in Seq(X) /\ Len(a) = (i - 1) - 1 + 1 /\ \A k \in 1 .. (i - 1) - 1 + 1 : a[k] = s[1 + k - 1]
    BY <1>0, <1>1, PartOf
  <2>2. (i - 1) - 1 + 1 = i - 1 /\ \A k \in 1 .. i - 1 : 1 + k - 1 = k
    BY <1>0
  <2> QED BY <2>1, <2>2
<1>4. /\ b \in Seq(X) /\ Len(b) = Len(s) - i /\ \A k \in 1 .. Len(s) - i : b[k] = s[i + k]
  <2>1. /\ b \in Seq(X) /\ Len(b) = Len(s) - (i + 1) + 1
        /\ \A k \in 1 .. Len(s) - (i + 1) + 1 : b[k] = s[(i + 1) + k - 1]
    BY <1>0, <1>2, PartOf
  <2>2. Len(s) - (i + 1) + 1 = Len(s) - i /\ \A k \in 1 .. Len(s) - i : (i + 1) + k - 1 = i + k
    BY <1>0
  <2> QED BY <2>1, <2>2
<1>5. t = a \o b
  BY <1>1, <1>2 DEF RemoveAt
<1>9. /\ t \in Seq(X) /\ Len(t) = Len(a) + Len(b) /\ \A k \in 1 .. Len(a) : t[k] = a[k]
      /\ \A k \in 1 .. Len(b) : t[Len(a) + k] = b[k]
  <2>1. a \in Seq(X) /\ b \in Seq(X)
    BY <1>3, <1>4
  <2> QED BY <2>1, <1>5, JoinFacts
<1>10. Len(t) = Len(s) - 1
  BY <1>0, <1>3, <1>4, <1>9
<1>11. ASSUME NEW k \in 1 .. Len(t) PROVE t[k] = IF k < i THEN s[k] ELSE s[k + 1]
  <2>1. CASE k < i
    <3>1. k \in 1 .. Len(a) /\ k \in 1 .. i - 1
      BY <2>1, <1>0, <1>3
    <3> QED BY <3>1, <2>1, <1>3, <1>9
  <2>2. CASE ~ (k < i)
    <3>0. PICK j : j = k - (i - 1)
      OBVIOUS
    <3>1. j \in 1 .. Len(b) /\ Len(a) + j = k /\ j \in 1 .. Len(s) - i /\ i + j = k + 1
      BY <3>0, <2>2, <1>0, <1>3, <1>4, <1>10
    <3>2. t[k] = s[k + 1]
      <4>1. t[Len(a) + j] = b[j] /\ b[j] = s[i + j]
        BY <3>1, <1>4, <1>9
      <4> QED BY <3>1, <4>1
    <3> QED BY <3>2, <2>2
  <2> QED BY <2>1, <2>2
<1>12. ASSUME NEW x \in Members(t) PROVE \E k \in 1 .. Len(s) : k # i /\ x = s[k]
  <2>1. PICK k \in 1 .. Len(t) : x = t[k]
    BY DEF Members
  <2>2. (k < i => k \in 1 .. Len(s) /\ k # i) /\ (~ (k < i) => k + 1 \in 1 .. Len(s) /\ k + 1 # i)
    BY <1>0, <1>10
  <2> QED BY <2>1, <2>2, <1>11
<1>13. ASSUME NEW k \in 1 .. Len(s), k # i PROVE s[k] \in Members(t)
  <2>1. CASE k < i
    <3>1. k \in 1 .. Len(t)
      BY <2>1, <1>0, <1>10
    <3> QED BY <3>1, <2>1, <1>11 DEF Members
  <2>2. CASE ~ (k < i)
    <3>1. k - 1 \in 1 .. Len(t) /\ ~ (k - 1 < i) /\ (k - 1) + 1 = k
      BY <2>2, <1>13, <1>0, <1>10
    <3> QED BY <3>1, <1>11 DEF Members
  <2> QED BY <2>1, <2>2
<1> QED BY <1>9, <1>10, <1>11, <1>12, <1>13

(* Where a new area goes: it lies behind no earlier area's end, and before *)
(* the start of the next.                                                  *)
LEMMA WheretoFacts ==
  ASSUME NEW s \in Seq(Area), NEW addr \in Nat, NEW len \in Nat, NEW w, w = whereto(s, addr, len)
  PROVE  \/ w = -1
         \/ /\ w \in 0 .. Len(s)
            /\ \A k \in 1 .. w : /\ addr + len > s[k].addr
                                 /\ ~ (addr >= s[k].addr /\ addr < s[k].addr + s[k].len)
                                 /\ ~ (addr + len <= s[k].addr + s[k].len)
            /\ w < Len(s) => addr + len <= s[w + 1].addr
<1> DEFINE Behind(k) == addr + len <= s[k].addr
           Overlaps(k) == \/ addr >= s[k].addr /\ addr < s[k].addr + s[k].len
                          \/ addr + len > s[k].addr /\ addr + len <= s[k].addr + s[k].len
           stop == {k \in 1 .. Len(s) : Behind(k) \/ Overlaps(k)}
           first == CHOOSE k \in stop : \A j \in stop : k <= j
<1>1. w = IF stop = {} THEN Len(s) ELSE IF Behind(first) THEN first - 1 ELSE -1
  BY DEF whereto
<1>2. Len(s) \in Nat /\ \A k \in 1 .. Len(s) : s[k].addr \in Nat /\ s[k].len \in Nat
  <2>1. Len(s) \in Nat /\ \A k \in 1 .. Len(s) : s[k] \in Area
    OBVIOUS
  <2> QED BY <2>1 DEF Area
<1>3. ASSUME NEW k \in 1 .. Len(s), k \notin stop
      PROVE  /\ addr + len > s[k].addr
             /\ ~ (addr >= s[k].addr /\ addr < s[k].addr + s[k].len)
             /\ ~ (addr + len <= s[k].addr + s[k].len)
  BY <1>2, <1>3
<1>4. CASE stop = {}
  <2>1. w = Len(s) /\ \A k \in 1 .. Len(s) : k \notin stop
    <3> HIDE DEF stop, first, Behind, Overlaps
    <3> QED BY <1>1, <1>4
  <2>2. w \in 0 .. Len(s) /\ ~ (w < Len(s))
    BY ONLY <2>1, <1>2
  <2> HIDE DEF stop, first, Behind, Overlaps
  <2> QED BY <2>1, <2>2, <1>3
<1>5. CASE stop # {}
  <2>1. stop \subseteq Nat
    <3> HIDE DEF Behind, Overlaps
    <3> QED OBVIOUS
  <2>2. \E x \in stop : \A y \in stop : x <= y
    <3> HIDE DEF stop
    <3> QED BY <1>5, <2>1, LeastExists
  <2>3. first \in stop /\ \A j \in stop : first <= j
    <3> HIDE DEF stop
    <3> QED BY <2>2
  <2>4. CASE Behind(first)
    <3>1. w = first - 1 /\ first \in 1 .. Len(s)
      BY <1>1, <1>5, <2>3, <2>4
    <3>2. w \in 0 .. Len(s) /\ w + 1 = first
      <4> HIDE DEF stop, first
      <4> QED BY <3>1, <1>2
    <3>3. ASSUME NEW k \in 1 .. w PROVE k \in 1 .. Len(s) /\ k \notin stop
      <4> HIDE DEF stop, first
      <4> QED BY <3>1, <3>2, <2>3, <1>2
    <3>4. addr + len <= s[w + 1].addr
      BY <3>2, <2>4
    <3> HIDE DEF stop, first, Behind, Overlaps
    <3> QED BY <3>2, <3>3, <3>4, <1>3, SMTT(40)
  <2>5. CASE ~ Behind(first)
    BY <1>1, <1>5, <2>5
  <2> QED BY <2>4, <2>5
<1> QED BY <1>4, <1>5

-----------------------------------------------------------------------------
(* The commands of the adapter, by the fields they change.                 *)

\* The commands on areas and registers leave these fields alone.
Alike(a, b) == /\ b.phase = a.phase /\ b.refcount = a.refcount /\ b.up = a.up /\ b.msix = a.msix
               /\ b.ctx = a.ctx /\ b.posted = a.posted

(* The parts of an adapter. *)
LEMMA AdapterFields ==
  ASSUME NEW a \in AdapterType
  PROVE  /\ a.phase \in {"absent", "alloc", "init", "bound"} /\ a.id \in Nat /\ a.refcount \in 0 .. 2
         /\ a.up \in BOOLEAN /\ a.num \in {0, NumCores} /\ a.msix \in {"none", "ok", "failed"}
         /\ a.ctx \in [Vector -> Proc \cup {None}] /\ a.areas \in Seq(Area)
         /\ a.ring \in [Core -> [rx : Nat, tx : Nat] \cup {None}] /\ a.posted \in [Core -> Nat \cup {None}]
BY DEF AdapterType, Area, AddrOrNone

(* An adapter with one part replaced. *)
LEMMA AdapterExcept ==
  ASSUME NEW a \in AdapterType
  PROVE  /\ \A x \in {"absent", "alloc", "init", "bound"} : [a EXCEPT !.phase = x] \in AdapterType
         /\ \A x \in 0 .. 2 : [a EXCEPT !.refcount = x] \in AdapterType
         /\ \A x \in BOOLEAN : [a EXCEPT !.up = x] \in AdapterType
         /\ \A x \in {0, NumCores} : [a EXCEPT !.num = x] \in AdapterType
         /\ \A x \in {"none", "ok", "failed"} : [a EXCEPT !.msix = x] \in AdapterType
         /\ \A x \in [Vector -> Proc \cup {None}] : [a EXCEPT !.ctx = x] \in AdapterType
         /\ \A x \in Seq(Area) : [a EXCEPT !.areas = x] \in AdapterType
         /\ \A x \in [Core -> [rx : Nat, tx : Nat] \cup {None}] : [a EXCEPT !.ring = x] \in AdapterType
         /\ \A x \in [Core -> Nat \cup {None}] : [a EXCEPT !.posted = x] \in AdapterType
<1>1. /\ \A x \in {"absent", "alloc", "init", "bound"} : [a EXCEPT !.phase = x] \in AdapterType
      /\ \A x \in 0 .. 2 : [a EXCEPT !.refcount = x] \in AdapterType
      /\ \A x \in {0, NumCores} : [a EXCEPT !.num = x] \in AdapterType
      /\ \A x \in {"none", "ok", "failed"} : [a EXCEPT !.msix = x] \in AdapterType
  BY DEF AdapterType
<1>2. \A x \in BOOLEAN : [a EXCEPT !.up = x] \in AdapterType
  BY DEF AdapterType
<1>3. \A x \in [Vector -> Proc \cup {None}] : [a EXCEPT !.ctx = x] \in AdapterType
  BY DEF AdapterType
<1>4. \A x \in Seq(Area) : [a EXCEPT !.areas = x] \in AdapterType
  BY DEF AdapterType, Area
<1>5. \A x \in [Core -> [rx : Nat, tx : Nat] \cup {None}] : [a EXCEPT !.ring = x] \in AdapterType
  BY DEF AdapterType
<1>6. \A x \in [Core -> Nat \cup {None}] : [a EXCEPT !.posted = x] \in AdapterType
  BY DEF AdapterType, AddrOrNone
<1> QED BY <1>1, <1>2, <1>3, <1>4, <1>5, <1>6

(* open and close. *)
LEMMA CountFacts ==
  ASSUME NEW a \in AdapterType, NEW b
  PROVE  /\ a.refcount = 1 /\ b = adapter_get(a) =>
              /\ b \in AdapterType /\ b.refcount = 2 /\ b.phase = a.phase /\ b.up = a.up
              /\ b.msix = a.msix /\ b.ctx = a.ctx /\ b.posted = a.posted /\ b.areas = a.areas /\ b.ring = a.ring
         /\ a.refcount = 2 /\ b = adapter_put(a) =>
              /\ b \in AdapterType /\ b.refcount = 1 /\ b.phase = a.phase /\ b.up = a.up
              /\ b.msix = a.msix /\ b.ctx = a.ctx /\ b.posted = a.posted /\ b.areas = a.areas /\ b.ring = a.ring
<1>1. ASSUME NEW n \in 0 .. 2, b = [a EXCEPT !.refcount = n]
      PROVE  /\ b \in AdapterType /\ b.refcount = n /\ b.phase = a.phase /\ b.up = a.up
             /\ b.msix = a.msix /\ b.ctx = a.ctx /\ b.posted = a.posted /\ b.areas = a.areas /\ b.ring = a.ring
  <2>1. b \in AdapterType
    BY <1>1, AdapterExcept
  <2> QED BY <1>1, <2>1 DEF AdapterType
<1>2. a.refcount = 1 => adapter_get(a) = [a EXCEPT !.refcount = 2]
  BY DEF adapter_get
<1>3. a.refcount = 2 => adapter_put(a) = [a EXCEPT !.refcount = 1]
  BY DEF adapter_put
<1> QED BY <1>1, <1>2, <1>3

(* IXMAP_UP. *)
LEMMA UpFacts ==
  ASSUME NEW a \in AdapterType, NEW m \in {"ok", "failed"}, NEW b, b = cmd_up(a, m)
  PROVE  /\ b \in AdapterType /\ b.up = TRUE /\ b.msix = m /\ b.phase = a.phase /\ b.refcount = a.refcount
         /\ b.ctx = a.ctx /\ b.posted = a.posted /\ b.areas = a.areas /\ b.ring = a.ring
<1>1. b = [[[a EXCEPT !.num = NumCores] EXCEPT !.msix = m] EXCEPT !.up = TRUE]
  BY DEF cmd_up, ixmap_up, configure_msix
<1>2. PICK c : c = [a EXCEPT !.num = NumCores]
  OBVIOUS
<1>3. c \in AdapterType /\ c.phase = a.phase /\ c.refcount = a.refcount
      /\ c.ctx = a.ctx /\ c.posted = a.posted /\ c.areas = a.areas /\ c.ring = a.ring
  <2>1. c \in AdapterType
    BY <1>2, AdapterExcept
  <2> QED BY <1>2, <2>1 DEF AdapterType
<1>4. PICK d : d = [c EXCEPT !.msix = m]
  OBVIOUS
<1>5. d \in AdapterType /\ d.phase = a.phase /\ d.refcount = a.refcount /\ d.msix = m
      /\ d.ctx = a.ctx /\ d.posted = a.posted /\ d.areas = a.areas /\ d.ring = a.ring
  <2>1. d \in AdapterType
    BY <1>3, <1>4, AdapterExcept
  <2> QED BY <1>3, <1>4, <2>1 DEF AdapterType
<1>6. b = [d EXCEPT !.up = TRUE]
  BY <1>1, <1>2, <1>4
<1>7. b \in AdapterType
  BY <1>5, <1>6, AdapterExcept
<1> QED BY <1>5, <1>6, <1>7 DEF AdapterType

(* The adapter without eventfds and without slots. *)
LEMMA NothingThere ==
  /\ NoCtx \in [Vector -> Proc \cup {None}] /\ NoRing \in [Core -> [rx : Nat, tx : Nat] \cup {None}]
  /\ NoRing \in [Core -> Nat \cup {None}]
  /\ \A v \in Vector : NoCtx[v] = None
  /\ \A q \in Core : NoRing[q] = None
BY DEF NoCtx, NoRing

(* close: the adapter is brought down if it is up. *)
LEMMA DownFacts ==
  ASSUME NEW a \in AdapterType, NEW b, b = cmd_down(a)
  PROVE  /\ b \in AdapterType /\ b.phase = a.phase /\ b.refcount = a.refcount /\ b.areas = a.areas
         /\ b.up = FALSE
         /\ a.up => b.msix = "none" /\ b.ctx = NoCtx /\ b.posted = NoRing /\ b.ring = NoRing
         /\ ~ a.up => b = a
<1>1. CASE ~ a.up
  <2>1. a.up \in BOOLEAN
    BY AdapterFields
  <2> QED BY <1>1, <2>1 DEF cmd_down
<1>2. CASE a.up
  <2>2. b = [[[a EXCEPT !.ring = NoRing, !.posted = NoRing] EXCEPT !.up = FALSE, !.num = 0]
               EXCEPT !.msix = "none", !.ctx = NoCtx]
    BY <1>2 DEF cmd_down, ixmap_down, free_msix, ixmap_reset, reset_hw, stop_adapter
  <2>3. PICK c : c = [a EXCEPT !.ring = NoRing, !.posted = NoRing]
    OBVIOUS
  <2>4. c \in AdapterType /\ c.phase = a.phase /\ c.refcount = a.refcount /\ c.areas = a.areas
        /\ c.ring = NoRing /\ c.posted = NoRing
    BY <2>3, NothingThere DEF AdapterType, AddrOrNone
  <2>5. PICK d : d = [c EXCEPT !.up = FALSE, !.num = 0]
    OBVIOUS
  <2>6. d \in AdapterType /\ d.phase = a.phase /\ d.refcount = a.refcount /\ d.areas = a.areas
        /\ d.ring = NoRing /\ d.posted = NoRing /\ d.up = FALSE
    BY <2>4, <2>5 DEF AdapterType
  <2>7. b = [d EXCEPT !.msix = "none", !.ctx = NoCtx]
    BY <2>2, <2>3, <2>5
  <2>8. b \in AdapterType /\ b.phase = a.phase /\ b.refcount = a.refcount /\ b.areas = a.areas
        /\ b.ring = NoRing /\ b.posted = NoRing /\ b.up = FALSE /\ b.msix = "none" /\ b.ctx = NoCtx
    BY <2>6, <2>7, NothingThere DEF AdapterType
  <2> QED BY <2>8, <1>2
<1> QED BY <1>1, <1>2

(* IXMAP_IRQ, the registers, and the slots. *)
LEMMA AssignFacts ==
  ASSUME NEW a \in AdapterType, NEW b
  PROVE  /\ \A v \in Vector, p \in Proc : b = irq_assign(a, v, p) =>
              /\ b \in AdapterType /\ b.phase = a.phase /\ b.refcount = a.refcount /\ b.up = a.up
              /\ b.msix = a.msix /\ b.posted = a.posted /\ b.areas = a.areas /\ b.ring = a.ring
              /\ \A u \in Vector : b.ctx[u] = IF u = v THEN p ELSE a.ctx[u]
         /\ \A g \in [Core -> [rx : Nat, tx : Nat]] : b = configure(a, g) =>
              b \in AdapterType /\ Alike(a, b) /\ b.areas = a.areas /\ b.ring = g
         /\ \A q \in Core, x \in Nat : b = rx_assign(a, q, x) =>
              /\ b \in AdapterType /\ b.phase = a.phase /\ b.refcount = a.refcount /\ b.up = a.up
              /\ b.msix = a.msix /\ b.ctx = a.ctx /\ b.areas = a.areas /\ b.ring = a.ring
              /\ \A e \in Core : b.posted[e] = IF e = q THEN x ELSE a.posted[e]
<1>0. a.ctx \in [Vector -> Proc \cup {None}] /\ a.posted \in [Core -> Nat \cup {None}]
  BY AdapterFields
<1>1. ASSUME NEW v \in Vector, NEW p \in Proc, b = irq_assign(a, v, p)
      PROVE  /\ b \in AdapterType /\ b.phase = a.phase /\ b.refcount = a.refcount /\ b.up = a.up
             /\ b.msix = a.msix /\ b.posted = a.posted /\ b.areas = a.areas /\ b.ring = a.ring
             /\ \A u \in Vector : b.ctx[u] = IF u = v THEN p ELSE a.ctx[u]
  <2>1. PICK x : x = [a.ctx EXCEPT ![v] = p]
    OBVIOUS
  <2>2. x \in [Vector -> Proc \cup {None}] /\ \A u \in Vector : x[u] = IF u = v THEN p ELSE a.ctx[u]
    BY <1>0, <2>1
  <2>3. b = [a EXCEPT !.ctx = x]
    BY <1>1, <2>1 DEF irq_assign
  <2>4. b \in AdapterType
    BY <2>2, <2>3, AdapterExcept
  <2>5. /\ b.phase = a.phase /\ b.refcount = a.refcount /\ b.up = a.up /\ b.ctx = x
        /\ b.msix = a.msix /\ b.posted = a.posted /\ b.areas = a.areas /\ b.ring = a.ring
    BY <2>3 DEF AdapterType
  <2> QED BY <2>2, <2>4, <2>5
<1>2. ASSUME NEW g \in [Core -> [rx : Nat, tx : Nat]], b = configure(a, g)
      PROVE  b \in AdapterType /\ Alike(a, b) /\ b.areas = a.areas /\ b.ring = g
  <2>1. g \in [Core -> [rx : Nat, tx : Nat] \cup {None}]
    OBVIOUS
  <2>2. b = [a EXCEPT !.ring = g]
    BY <1>2 DEF configure
  <2>3. b \in AdapterType
    BY <2>1, <2>2, AdapterExcept
  <2> QED BY <2>2, <2>3 DEF AdapterType, Alike
<1>3. ASSUME NEW q \in Core, NEW x \in Nat, b = rx_assign(a, q, x)
      PROVE  /\ b \in AdapterType /\ b.phase = a.phase /\ b.refcount = a.refcount /\ b.up = a.up
             /\ b.msix = a.msix /\ b.ctx = a.ctx /\ b.areas = a.areas /\ b.ring = a.ring
             /\ \A e \in Core : b.posted[e] = IF e = q THEN x ELSE a.posted[e]
  <2>1. PICK z : z = [a.posted EXCEPT ![q] = x]
    OBVIOUS
  <2>2. z \in [Core -> Nat \cup {None}] /\ \A e \in Core : z[e] = IF e = q THEN x ELSE a.posted[e]
    BY <1>0, <2>1
  <2>3. b = [a EXCEPT !.posted = z]
    BY <1>3, <2>1 DEF rx_assign
  <2>4. b \in AdapterType
    BY <2>2, <2>3, AdapterExcept
  <2>5. /\ b.phase = a.phase /\ b.refcount = a.refcount /\ b.up = a.up /\ b.posted = z
        /\ b.msix = a.msix /\ b.ctx = a.ctx /\ b.areas = a.areas /\ b.ring = a.ring
    BY <2>3 DEF AdapterType
  <2> QED BY <2>2, <2>4, <2>5
<1> QED BY <1>1, <1>2, <1>3

(* IXMAP_MAP. *)
LEMMA MapFacts ==
  ASSUME NEW a \in AdapterType, NEW addr \in Nat, NEW len \in Nat, CanMap(a, addr, len),
         NEW b, b = dma_map(a, addr, len)
  PROVE  /\ b \in AdapterType /\ Alike(a, b) /\ b.ring = a.ring
         /\ whereto(a.areas, addr, len) \in 0 .. Len(a.areas)
         /\ b.areas = InsertAt(a.areas, whereto(a.areas, addr, len) + 1, [addr |-> addr, len |-> len])
         /\ \A x : x \in Members(b.areas) <=> x \in Members(a.areas) \/ x = [addr |-> addr, len |-> len]
<1>1. PICK w : w = whereto(a.areas, addr, len)
  OBVIOUS
<1>2. a.areas \in Seq(Area)
  BY AdapterFields
<1>3. w \in 0 .. Len(a.areas)
  BY <1>1, <1>2, WheretoFacts DEF CanMap
<1>4. PICK e : e = [addr |-> addr, len |-> len]
  OBVIOUS
<1>5. PICK t : t = InsertAt(a.areas, w + 1, e)
  OBVIOUS
<1>6. w + 1 \in 1 .. Len(a.areas) + 1 /\ e \in Area
  BY <1>2, <1>3, <1>4 DEF Area
<1>7. t \in Seq(Area) /\ \A x : x \in Members(t) <=> x \in Members(a.areas) \/ x = e
  BY <1>2, <1>5, <1>6, InsertFacts
<1>8. b = [a EXCEPT !.areas = t]
  BY <1>1, <1>4, <1>5 DEF dma_map
<1>9. b \in AdapterType
  BY <1>7, <1>8, AdapterExcept, ZenonT(60)
<1>10. Alike(a, b) /\ b.ring = a.ring /\ b.areas = t
  BY <1>8 DEF AdapterType, Alike
<1> QED BY <1>1, <1>3, <1>4, <1>5, <1>7, <1>9, <1>10

\* The list t is s without the area at addr, if there is one.
Without(s, t, addr) ==
  \/ \A k \in 1 .. Len(s) : s[k].addr # addr
  \/ \E k \in 1 .. Len(s) : s[k].addr = addr /\ t = RemoveAt(s, k)

(* IXMAP_UNMAP. *)
LEMMA UnmapFacts ==
  ASSUME NEW a \in AdapterType, NEW addr \in Nat, NEW b, b = dma_unmap(a, addr)
  PROVE  /\ b \in AdapterType /\ Alike(a, b) /\ b.ring = a.ring
         /\ Without(a.areas, b.areas, addr)
<1> DEFINE at == {k \in 1 .. Len(a.areas) : a.areas[k].addr = addr}
<1>1. a.areas \in Seq(Area) /\ Len(a.areas) \in Nat
  BY AdapterFields
<1>2. CASE at = {}
  BY <1>2 DEF dma_unmap, Alike, Without
<1>3. CASE at # {}
  <2>1. PICK k : k = CHOOSE i \in at : \A j \in at : i <= j
    OBVIOUS
  <2>2. b = [a EXCEPT !.areas = RemoveAt(@, k)]
    BY <1>3, <2>1 DEF dma_unmap
  <2>3. at \subseteq Nat
    BY <1>1
  <2>4. \E x \in at : \A y \in at : x <= y
    <3> HIDE DEF at
    <3> QED BY <1>3, <2>3, LeastExists
  <2>5. k \in at
    <3> HIDE DEF at
    <3> QED BY <2>1, <2>4
  <2>6. PICK t : t = RemoveAt(a.areas, k)
    OBVIOUS
  <2>7. t \in Seq(Area)
    BY <1>1, <2>5, <2>6, RemoveFacts
  <2>8. b = [a EXCEPT !.areas = t]
    BY <2>2, <2>6
  <2>9. b \in AdapterType
    BY <2>7, <2>8, AdapterExcept, ZenonT(60)
  <2>10. Alike(a, b) /\ b.ring = a.ring /\ b.areas = t
    BY <2>8 DEF AdapterType, Alike
  <2>11. Without(a.areas, b.areas, addr)
    BY <2>5, <2>6, <2>10 DEF Without
  <2> QED BY <2>9, <2>10, <2>11
<1> QED BY <1>2, <1>3

(* A device nobody probed. *)
LEMMA AbsentFacts ==
  /\ Absent \in AdapterType /\ Absent.phase = "absent" /\ Absent.refcount = 0 /\ Absent.up = FALSE
  /\ Absent.msix = "none" /\ Absent.ctx = NoCtx /\ Absent.posted = NoRing /\ Absent.areas = <<>>
  /\ Absent.ring = NoRing
<1>1. <<>> \in Seq([addr : Nat, len : Nat])
  OBVIOUS
<1> QED BY <1>1, NothingThere DEF Absent, AdapterType, AddrOrNone

-----------------------------------------------------------------------------
(* Layer 3: who has which adapter open, and how far it is brought up.      *)

Owned(d) == \E p \in Proc, i \in Port : file[p][i] = d

\* An open file is one of a bound adapter, and an adapter is in one file.
OneFile ==
  /\ \A p \in Proc, i \in Port : Valid(p, i) => adapter[file[p][i]].phase = "bound"
  /\ \A p, q \in Proc, i, j \in Port : Valid(p, i) /\ file[q][j] = file[p][i] => p = q /\ i = j

\* The refcount tells whether the adapter is open; an adapter that is up is
\* open, has gone through ixmap_configure_msix, and one that is down has
\* neither eventfds nor slots; a queue with slots has both its eventfds.
Kept(d) == LET a == adapter[d] IN
  /\ a.phase # "absent" => a.refcount = IF Owned(d) THEN 2 ELSE 1
  /\ a.up <=> a.msix # "none"
  /\ ~ a.up => a.ctx = NoCtx /\ a.posted = NoRing
  /\ a.up => Owned(d)
  /\ \A q \in Core : a.posted[q] # None => \A r \in Dir : a.ctx[<<q, r>>] # None

\* The adapter behind the file was not brought down by its close.
NotDown(p, i) == Releasing(p) => DownStep(i) \in Members(rel[p])

\* By the place of the process in its program the adapter is up or down, and
\* has the eventfds the process opened.
Powered(p, i) == LET a == adapter[file[p][i]] IN
  /\ ~ NotDown(p, i) => ~ a.up
  /\ Passed(p, UpStep(i)) \/ (\E c \in Core : ThreadStep(c) \in held[p]) => a.up
  /\ \A c \in Core, r \in Dir : IrqStep(c, r, i) \in held[p] /\ NotDown(p, i) => a.ctx[<<c, r>>] # None

DeviceInv ==
  /\ adapter \in [Device -> AdapterType]
  /\ OneFile
  /\ \A d \in Device : Kept(d)
  /\ \A p \in Proc, i \in Port : Valid(p, i) => Powered(p, i)

(* What a process holds has everything it depends on. *)
LEMMA HeldClosed ==
  ASSUME ProcInv, NEW p \in Proc, NEW x \in held[p], NEW y \in Resource, Dep(x, y)
  PROVE  y \in held[p]
<1>0. x \in Resource /\ x \in AnyStep /\ y \in AnyStep /\ Resource \subseteq StartStep
  BY ResourceIff, StartStepIff DEF ProcInv, ProcTypes
<1>1. CASE Releasing(p)
  <2>1. held[p] = Members(rel[p]) \cap Resource /\ Closed(rel[p])
    BY <1>1 DEF ProcInv, Where
  <2> QED BY <2>1, ResourceIff DEF Closed
<1>2. CASE ~ Releasing(p)
  <2>1. held[p] = {z \in Resource : Passed(p, z)}
    BY <1>2 DEF ProcInv, Where
  <2>2. Before(y, x)
    BY <1>0, DepBefore
  <2>3. pc[p] \in 1 .. Len(Startup)
    BY DEF ProcInv, ProcTypes
  <2>4. Now(p) \in AnyStep
    BY <2>3, StartupOrder DEF Now
  <2>5. Passed(p, x)
    BY <2>1
  <2>6. Passed(p, y)
    BY <1>0, <2>2, <2>4, <2>5, BeforeTrans DEF Passed
  <2> QED BY <2>1, <2>6
<1> QED BY <1>1, <1>2

(* What a thread depends on. *)
LEMMA ThreadNeeds ==
  ASSUME ProcInv, NEW p \in Proc, NEW c \in Core, ThreadStep(c) \in held[p]
  PROVE  /\ PageStep("buf", c) \in held[p] /\ \A q \in Core : PageStep("desc", q) \in held[p]
         /\ \A i \in Port : /\ FileStep(i) \in held[p] /\ NotDown(p, i)
                            /\ \A r \in Dir : IrqStep(c, r, i) \in held[p]
<1>1. PageStep("buf", c) \in held[p] /\ \A q \in Core : PageStep("desc", q) \in held[p]
  <2>1. PageStep("buf", c) \in Resource /\ PageStep("buf", c).call = "buf" /\ PageStep("buf", c).core = c
    BY Named DEF Pages
  <2>2. \A q \in Core : PageStep("desc", q) \in Resource /\ PageStep("desc", q).call = "desc"
    BY Named DEF Pages
  <2>3. Dep(ThreadStep(c), PageStep("buf", c)) /\ \A q \in Core : Dep(ThreadStep(c), PageStep("desc", q))
    BY <2>1, <2>2, Named DEF Dep
  <2> QED BY <2>1, <2>2, <2>3, HeldClosed
<1>2. ASSUME NEW i \in Port PROVE FileStep(i) \in held[p]
  <2>1. Dep(ThreadStep(c), FileStep(i))
    BY Named DEF Dep
  <2> QED BY <2>1, Named, HeldClosed
<1>3. ASSUME NEW i \in Port PROVE NotDown(p, i)
  <2>1. Dep(ThreadStep(c), DownStep(i)) /\ DownStep(i) \in ReleaseStep
    BY Named DEF Dep
  <2> SUFFICES ASSUME Releasing(p) PROVE DownStep(i) \in Members(rel[p])
    BY DEF NotDown
  <2>2. ThreadStep(c) \in Members(rel[p]) /\ Closed(rel[p])
    BY DEF ProcInv, Where
  <2> QED BY <2>1, <2>2 DEF Closed
<1>4. ASSUME NEW i \in Port, NEW r \in Dir PROVE IrqStep(c, r, i) \in held[p]
  <2>1. /\ IrqStep(c, r, i) \in AnyStep /\ IsResource(IrqStep(c, r, i))
        /\ IrqStep(c, r, i).call = "plane" /\ IrqStep(c, r, i).core = c
    BY Sizes DEF IrqStep, S, AnyStep, Call, Act, IsResource
  <2>2. Dep(ThreadStep(c), IrqStep(c, r, i)) /\ IrqStep(c, r, i) \in Resource
    BY <2>1, Named, ResourceIff DEF Dep
  <2> QED BY <2>2, HeldClosed
<1> QED BY <1>1, <1>2, <1>3, <1>4

(* The eventfds by name. *)
LEMMA IrqNamed ==
  ASSUME NEW c \in Core, NEW r \in Dir, NEW i \in Port
  PROVE  /\ IrqStep(c, r, i) \in Resource /\ IrqStep(c, r, i) \in StartStep /\ IrqStep(c, r, i) \in AnyStep
         /\ IrqStep(c, r, i).act = IF r = "rx" THEN "rxirq" ELSE "txirq"
         /\ IrqStep(c, r, i).core = c /\ IrqStep(c, r, i).port = i /\ IrqStep(c, r, i).call = "plane"
<1>1. /\ IrqStep(c, r, i) \in AnyStep /\ IsResource(IrqStep(c, r, i))
      /\ IrqStep(c, r, i).act = IF r = "rx" THEN "rxirq" ELSE "txirq"
      /\ IrqStep(c, r, i).core = c /\ IrqStep(c, r, i).port = i /\ IrqStep(c, r, i).call = "plane"
  BY Sizes DEF IrqStep, S, AnyStep, Call, Act, IsResource
<1> QED BY <1>1, ResourceIff, StartStepIff

(* Where the process is relative to opening, bringing up and starting. *)
LEMMA ProgramOrder ==
  ASSUME ProcInv, NEW p \in Proc, NEW i \in Port, NEW acts, NEW s \in Step(p, acts)
  PROVE  /\ s.act = "thread" => Passed(p, UpStep(i)) /\ Passed(p, RegisterStep(i))
         /\ s.act \in {"rxirq", "txirq"} => Passed(p, UpStep(i))
         /\ s.act \in {"registers", "thread"} => \A c \in Core : Passed(p, PageStep("desc", c))
         /\ s = FileStep(i) => /\ ~ Passed(p, UpStep(i)) /\ ~ Passed(p, RegisterStep(i))
                               /\ \A c \in Core : ThreadStep(c) \notin held[p]
                               /\ \A c \in Core, r \in Dir : IrqStep(c, r, i) \notin held[p]
<1>0. /\ s = Now(p) /\ mode[p] \in {"off", "start"} /\ s \in AnyStep /\ (IsResource(s) \/ IsPlain(s))
      /\ held[p] = {x \in Resource : Passed(p, x)}
      /\ \A x : Passed(p, x) <=> Before(x, s)
  BY StepFacts DEF ProcInv, Where, Passed, Releasing
<1>1. Stage(UpStep(i)) = 1 /\ Stage(RegisterStep(i)) = 3 /\ Outer(UpStep(i)) = i /\ Place(UpStep(i)) = 2
  BY DEF UpStep, RegisterStep, S, Stage, Outer, Place
<1>2. ASSUME s.act = "thread" \/ s.act \in {"rxirq", "txirq"}
      PROVE  Passed(p, UpStep(i)) /\ Passed(p, RegisterStep(i))
  <2>1. Stage(s) = 6
    BY <1>0, <1>2 DEF Stage, IsResource, IsPlain
  <2> QED BY <2>1, <1>0, <1>1 DEF Before
<1>3. ASSUME s.act \in {"registers", "thread"}, NEW c \in Core PROVE Passed(p, PageStep("desc", c))
  <2>1. Stage(s) \in {3, 6}
    BY <1>0, <1>3 DEF Stage, IsResource, IsPlain
  <2>2. Stage(PageStep("desc", c)) = 2
    BY DEF PageStep, S, Stage
  <2> QED BY <2>1, <2>2, <1>0 DEF Before
<1>4. ASSUME s = FileStep(i)
      PROVE  /\ ~ Passed(p, UpStep(i)) /\ ~ Passed(p, RegisterStep(i))
             /\ \A c \in Core : ThreadStep(c) \notin held[p]
             /\ \A c \in Core, r \in Dir : IrqStep(c, r, i) \notin held[p]
  <2>1. Stage(s) = 1 /\ Outer(s) = i /\ Place(s) = 1 /\ i \in Nat
    BY <1>4, Sizes DEF FileStep, S, Stage, Outer, Place
  <2>2. ~ Before(UpStep(i), s) /\ ~ Before(RegisterStep(i), s)
    BY <2>1, <1>1 DEF Before
  <2>3. ASSUME NEW c \in Core PROVE ~ Before(ThreadStep(c), s)
    <3>1. Stage(ThreadStep(c)) = 6
      BY DEF ThreadStep, S, Stage
    <3> QED BY <3>1, <2>1 DEF Before
  <2>4. ASSUME NEW c \in Core, NEW r \in Dir PROVE ~ Before(IrqStep(c, r, i), s)
    <3>1. Stage(IrqStep(c, r, i)) = 6
      BY DEF IrqStep, S, Stage
    <3> QED BY <3>1, <2>1 DEF Before
  <2> QED BY <2>2, <2>3, <2>4, <1>0
<1> QED BY <1>2, <1>3, <1>4

\* The step changes nothing about port i of the process that matters to the
\* adapter.
Calm(p, i) ==
  /\ Passed(p, UpStep(i))' => Passed(p, UpStep(i))
  /\ (\E c \in Core : ThreadStep(c) \in held'[p]) =>
       Passed(p, UpStep(i)) \/ \E c \in Core : ThreadStep(c) \in held[p]
  /\ \A c \in Core, r \in Dir : IrqStep(c, r, i) \in held'[p] => IrqStep(c, r, i) \in held[p]
  /\ NotDown(p, i)' <=> NotDown(p, i)

(* A process that does not move. *)
LEMMA CalmFrame ==
  ASSUME NEW q, NEW i, mode'[q] = mode[q], pc'[q] = pc[q], rel'[q] = rel[q], held'[q] = held[q]
  PROVE  Calm(q, i)
BY DEF Calm, Passed, Now, NotDown, Releasing

(* A step of main that succeeds. *)
LEMMA CalmAcquired ==
  ASSUME ProcInv, NEW p \in Proc, NEW i \in Port, NEW acts, NEW s \in Step(p, acts), Acquired(p, s),
         s # UpStep(i), \A c \in Core, r \in Dir : s # IrqStep(c, r, i)
  PROVE  Calm(p, i)
<1>1. /\ held'[p] = held[p] \cup ({s} \cap Resource) /\ mode'[p] \in {"start", "wait"}
      /\ \A x \in StartStep : Passed(p, x)' <=> Passed(p, x) \/ x = s
  BY AcquiredFacts
<1>2. ~ Releasing(p) /\ ~ Releasing(p)'
  BY <1>1, StepFacts DEF Releasing
<1>3. Passed(p, UpStep(i))' => Passed(p, UpStep(i))
  BY <1>1, Named
<1>4. (\E c \in Core : ThreadStep(c) \in held'[p]) =>
         Passed(p, UpStep(i)) \/ \E c \in Core : ThreadStep(c) \in held[p]
  <2> SUFFICES ASSUME NEW c \in Core, ThreadStep(c) = s PROVE Passed(p, UpStep(i))
    BY <1>1
  <2> QED BY Named, ProgramOrder
<1>5. NotDown(p, i)' <=> NotDown(p, i)
  BY <1>2 DEF NotDown
<1> QED BY <1>1, <1>3, <1>4, <1>5 DEF Calm

(* A step of main that fails. *)
LEMMA CalmFailed ==
  ASSUME ProcInv, NEW p \in Proc, NEW i \in Port, NEW acts, NEW s \in Step(p, acts), s.act # "thread",
         NEW have, have = held[p] \/ (s \in Resource /\ have = held[p] \cup {s}), Failed(p, s, have),
         FileStep(i) \in held[p], have = held[p] \/ \A c \in Core, r \in Dir : s # IrqStep(c, r, i)
  PROVE  Calm(p, i)
<1>1. /\ held'[p] = have /\ mode'[p] = "release"
      /\ \A r : r \in Members(rel'[p]) <=> r \in ReleaseStep /\ Of(r) \in have
  BY FailedFacts
<1>2. ~ Releasing(p) /\ \A c \in Core : ThreadStep(c) # s
  BY StepFacts, Named
<1>3. ~ Passed(p, UpStep(i))'
  BY <1>1 DEF Passed
<1>4. DownStep(i) \in Members(rel'[p])
  BY <1>1, OfHalf, Named
<1> QED BY <1>1, <1>2, <1>3, <1>4 DEF Calm, NotDown

(* sigwait returns. *)
LEMMA CalmSigWait ==
  ASSUME ProcInv, NEW p \in Proc, NEW i \in Port, SigWait(p)
  PROVE  Calm(p, i)
<1>1. /\ held' = held /\ mode[p] = "wait" /\ mode'[p] = "release"
      /\ DownStep(i) \in Members(rel'[p])
  BY SigWaitFacts, Named
<1> QED BY <1>1 DEF Calm, NotDown, Passed, Releasing

(* A step of the release. *)
LEMMA CalmReleased ==
  ASSUME ProcInv, NEW p \in Proc, NEW i \in Port, NEW acts, NEW s \in Todo(p, acts), Released(p, s), pc' = pc,
         \/ mode' = mode
         \/ Tail(rel[p]) = <<>> /\ mode' = [mode EXCEPT ![p] = "off"],
         s # DownStep(i), held'[p] # {}
  PROVE  Calm(p, i)
<1>1. /\ held'[p] = held[p] \ {s} /\ mode'[p] \in {mode[p], "off"} /\ (mode'[p] = "off" => held'[p] = {})
      /\ \A r : r \in Members(rel'[p]) <=> r \in Members(rel[p]) /\ r # s
  <2>1. CASE mode' = mode
    BY <2>1, ReleasedFacts, ZenonT(60)
  <2>2. CASE Tail(rel[p]) = <<>> /\ mode' = [mode EXCEPT ![p] = "off"]
    BY <2>2, ReleasedFacts, ZenonT(60)
  <2> QED BY <2>1, <2>2
<1>2. mode'[p] = mode[p]
  BY <1>1
<1>3. mode[p] \in {"release", "dying", "aborted"}
  BY TodoFacts DEF Releasing
<1>4. ~ Passed(p, UpStep(i))'
  BY <1>2, <1>3 DEF Passed
<1>5. DownStep(i) \in Members(rel'[p]) <=> DownStep(i) \in Members(rel[p])
  BY <1>1
<1> QED BY <1>1, <1>2, <1>4, <1>5 DEF Calm, NotDown, Releasing

(* The process is killed. *)
LEMMA CalmCrash ==
  ASSUME ProcInv, NEW p \in Proc, NEW i \in Port, Crash(p), FileStep(i) \in held[p]
  PROVE  Calm(p, i)
<1>1. /\ held'[p] = {r \in held[p] : IsFile(r)}
      /\ mode'[p] \in {"aborted", "dying"} /\ mode[p] \in {"start", "wait", "release"}
      /\ \A r : r \in Members(rel'[p]) <=>
           /\ r \in ReleaseStep /\ IsFile(r)
           /\ IF mode[p] = "release" THEN r \in Members(rel[p]) ELSE Of(r) \in held[p]
  BY CrashFacts
<1>2. ~ Passed(p, UpStep(i))' /\ Releasing(p)'
  BY <1>1 DEF Passed, Releasing
<1>3. DownStep(i) \in ReleaseStep /\ IsFile(DownStep(i)) /\ Of(DownStep(i)) = FileStep(i)
  BY Named, OfHalf DEF IsFile
<1>4. NotDown(p, i)' <=> NotDown(p, i)
  <2>1. CASE mode[p] = "release"
    <3>1. Releasing(p)
      BY <2>1 DEF Releasing
    <3> QED BY <3>1, <2>1, <1>1, <1>2, <1>3 DEF NotDown
  <2>2. CASE mode[p] # "release"
    <3>1. ~ Releasing(p)
      BY <2>2, <1>1 DEF Releasing
    <3>2. DownStep(i) \in Members(rel'[p])
      BY <2>2, <1>1, <1>3
    <3> QED BY <3>1, <3>2 DEF NotDown
  <2> QED BY <2>1, <2>2
<1> QED BY <1>1, <1>2, <1>4 DEF Calm

(* The power of an adapter that the step does not change. *)
LEMMA PoweredCalm ==
  ASSUME NEW p \in Proc, NEW i \in Port, Powered(p, i), Calm(p, i), file'[p][i] = file[p][i],
         adapter'[file[p][i]].up = adapter[file[p][i]].up,
         \A c \in Core, r \in Dir : adapter[file[p][i]].ctx[<<c, r>>] # None =>
                                      adapter'[file[p][i]].ctx[<<c, r>>] # None
  PROVE  Powered(p, i)'
<1>1. PICK a : a = adapter[file[p][i]]
  OBVIOUS
<1>2. PICK b : b = adapter'[file'[p][i]]
  OBVIOUS
<1>3. b.up = a.up /\ \A c \in Core, r \in Dir : a.ctx[<<c, r>>] # None => b.ctx[<<c, r>>] # None
  BY <1>1, <1>2
<1>4. ~ NotDown(p, i)' => ~ b.up
  BY <1>1, <1>3 DEF Powered, Calm
<1>5. Passed(p, UpStep(i))' \/ (\E c \in Core : ThreadStep(c) \in held'[p]) => b.up
  BY <1>1, <1>3 DEF Powered, Calm
<1>6. \A c \in Core, r \in Dir : IrqStep(c, r, i) \in held'[p] /\ NotDown(p, i)' => b.ctx[<<c, r>>] # None
  BY <1>1, <1>3 DEF Powered, Calm
<1> QED BY <1>2, <1>4, <1>5, <1>6 DEF Powered

(* What is kept about an adapter that the step does not change. *)
LEMMA KeptAlike ==
  ASSUME NEW d, Kept(d), Alike(adapter[d], adapter'[d]), Owned(d)' <=> Owned(d)
  PROVE  Kept(d)'
BY DEF Kept, Alike

(* Layer 3 is kept by a step that changes neither the files nor how far    *)
(* any adapter is brought up.                                              *)
LEMMA QuietDevice ==
  ASSUME DeviceInv, adapter' \in [Device -> AdapterType], file' = file,
         \A d \in Device : Alike(adapter[d], adapter'[d]),
         \A p \in Proc, i \in Port : Valid(p, i) => Calm(p, i)
  PROVE  DeviceInv'
<1>1. \A d : Owned(d)' <=> Owned(d)
  BY DEF Owned
<1>2. ASSUME NEW d \in Device PROVE Kept(d)'
  BY <1>1, KeptAlike DEF DeviceInv
<1>3. \A p \in Proc, i \in Port : Valid(p, i)' <=> Valid(p, i)
  BY DEF Valid
<1>4. OneFile'
  <2>1. \A p \in Proc, i \in Port : Valid(p, i) => adapter'[file[p][i]].phase = adapter[file[p][i]].phase
    BY DEF Alike, Valid
  <2> QED BY <1>3, <2>1 DEF DeviceInv, OneFile
<1>5. ASSUME NEW p \in Proc, NEW i \in Port, Valid(p, i) PROVE Powered(p, i)'
  <2>1. file[p][i] \in Device /\ Powered(p, i) /\ Calm(p, i)
    BY <1>5 DEF Valid, DeviceInv
  <2>2. Alike(adapter[file[p][i]], adapter'[file[p][i]])
    BY <2>1
  <2>3. adapter'[file[p][i]].up = adapter[file[p][i]].up /\ adapter'[file[p][i]].ctx = adapter[file[p][i]].ctx
    BY <2>2 DEF Alike
  <2> QED BY <2>1, <2>3, PoweredCalm
<1> QED BY <1>2, <1>3, <1>4, <1>5 DEF DeviceInv

(* A step of main that acquires a resource has what that depends on. *)
LEMMA StepNeeds ==
  ASSUME ProcInv, NEW p \in Proc, NEW acts, NEW s \in Step(p, acts), s \in Resource,
         NEW y \in Resource, Dep(s, y)
  PROVE  y \in held[p]
<1>1. Before(y, s)
  BY DepBefore
<1>2. s = Now(p) /\ mode[p] \in {"off", "start"} /\ held[p] = {x \in Resource : Passed(p, x)}
  BY StepFacts DEF ProcInv, Where
<1> QED BY <1>1, <1>2 DEF Passed

(* Addresses are natural numbers. *)
LEMMA AtNat ==
  ASSUME NEW b \in Nat, NEW x \in Nat
  PROVE  At(b, x) \in Nat
<1>1. BlockLen \in Nat
  BY LifecycleAssumption
<1>2. b * BlockLen \in Nat
  BY <1>1
<1> QED BY <1>2 DEF At

(* The places of the rings in their block are natural numbers. *)
LEMMA OffNat ==
  /\ \A i \in Port : RxOff(i) \in Nat /\ TxOff(i) \in Nat
  /\ RxLen \in Nat \ {0} /\ TxLen \in Nat \ {0} /\ BlockLen \in Nat \ {0} /\ TxLen <= RxLen
<1>1. RxLen \in Nat \ {0} /\ TxLen \in Nat \ {0} /\ BlockLen \in Nat /\ TxLen <= RxLen
  BY LifecycleAssumption
<1>2. ASSUME NEW i \in Port PROVE RxOff(i) \in Nat /\ TxOff(i) \in Nat
  <2>1. i \in Nat /\ 2 * RxLen \in Nat
    BY <1>1, Sizes
  <2>2. 2 * RxLen * i \in Nat
    BY <2>1
  <2> QED BY <2>2, <1>1 DEF RxOff, TxOff
<1>3. BlockLen # 0
  <2>1. NumPorts \in Nat \ {0} /\ BlockLen >= 2 * RxLen * NumPorts
    BY LifecycleAssumption
  <2>2. PICK n \in Nat : NumPorts = n + 1
    <3>1. NumPorts - 1 \in Nat /\ NumPorts = (NumPorts - 1) + 1
      BY <2>1
    <3> QED BY <3>1
  <2>3. 2 * RxLen * NumPorts = 2 * RxLen * n + 2 * RxLen
    BY <1>1, <2>2
  <2>4. 2 * RxLen \in Nat \ {0}
    BY <1>1
  <2>5. 2 * RxLen * n \in Nat
    BY <2>2, <2>4
  <2> QED BY <1>1, <2>1, <2>3, <2>4, <2>5
<1> QED BY <1>1, <1>2, <1>3

IsArea(s) == s.act \in {"rxring", "txring", "buffer"}

\* The pages an area is in.
PageOf(s) == PageStep(s.call, s.core)

(* An area is in the pages it depends on. *)
LEMMA AreaNeeds ==
  ASSUME NEW s \in Resource, IsArea(s)
  PROVE  /\ s.core \in Core /\ s.port \in Port /\ s.call \in Pages
         /\ s.call = IF s.act = "buffer" THEN "buf" ELSE "desc"
         /\ PageOf(s) \in Resource /\ Dep(s, PageOf(s))
         /\ FileStep(s.port) \in Resource /\ Dep(s, FileStep(s.port)) /\ Dep(s, DownStep(s.port))
<1>1. s \in AnyStep /\ IsResource(s) /\ s.act \in {"rxring", "txring", "buffer"}
  BY ResourceIff DEF IsArea
<1>2. s.core \in Core /\ s.port \in Port /\ s.call = IF s.act = "buffer" THEN "buf" ELSE "desc"
  BY <1>1, NameOf
<1>3. s.call \in Pages
  BY <1>2 DEF Pages
<1>4. PageOf(s) \in Resource /\ PageOf(s).act = "mmap" /\ PageOf(s).call = s.call /\ PageOf(s).core = s.core
  BY <1>2, <1>3, Named DEF PageOf
<1>5. Dep(s, PageOf(s))
  BY <1>1, <1>2, <1>4 DEF Dep
<1>6. FileStep(s.port) \in Resource /\ FileStep(s.port).call = "open" /\ DownStep(s.port).call = "open"
  BY <1>2, Named
<1>7. Dep(s, FileStep(s.port)) /\ Dep(s, DownStep(s.port))
  BY <1>1, <1>6 DEF Dep
<1> QED BY <1>2, <1>3, <1>4, <1>5, <1>6, <1>7

(* The area of a step whose pages are mapped. *)
LEMMA AreaTyped ==
  ASSUME NEW p \in Proc, NEW s \in Resource, IsArea(s), mem[p][s.call][s.core] \in Nat
  PROVE  AreaOf(p, s) \in Area /\ AreaOf(p, s).len # 0
<1>1. /\ s.core \in Core /\ s.port \in Port
      /\ s.call = IF s.act = "buffer" THEN "buf" ELSE "desc"
  BY AreaNeeds
<1>2. RxOff(s.port) \in Nat /\ TxOff(s.port) \in Nat /\ RxLen \in Nat \ {0} /\ TxLen \in Nat \ {0}
      /\ BlockLen \in Nat \ {0}
  BY <1>1, OffNat
<1>3. CASE s.act = "rxring"
  <2>1. AreaOf(p, s) = [addr |-> At(mem[p]["desc"][s.core], RxOff(s.port)), len |-> RxLen]
    BY <1>3 DEF AreaOf
  <2>2. At(mem[p]["desc"][s.core], RxOff(s.port)) \in Nat
    BY <1>1, <1>2, <1>3, AtNat
  <2> QED BY <2>1, <2>2, <1>2 DEF Area
<1>4. CASE s.act = "txring"
  <2>1. AreaOf(p, s) = [addr |-> At(mem[p]["desc"][s.core], TxOff(s.port)), len |-> TxLen]
    BY <1>4 DEF AreaOf
  <2>2. At(mem[p]["desc"][s.core], TxOff(s.port)) \in Nat
    BY <1>1, <1>2, <1>4, AtNat
  <2> QED BY <2>1, <2>2, <1>2 DEF Area
<1>5. CASE s.act = "buffer"
  <2>1. AreaOf(p, s) = [addr |-> At(mem[p]["buf"][s.core], 0), len |-> BlockLen]
    BY <1>5 DEF AreaOf
  <2>2. At(mem[p]["buf"][s.core], 0) \in Nat
    BY <1>1, <1>5, AtNat
  <2> QED BY <2>1, <2>2, <1>2 DEF Area
<1> QED BY <1>3, <1>4, <1>5 DEF IsArea

(* The pages of a process are blocks. *)
LEMMA PagesHeld ==
  ASSUME ProcInv, NEW p \in Proc, NEW k \in Pages, NEW c \in Core
  PROVE  /\ PageStep(k, c) \in held[p] => mem[p][k][c] \in Block /\ mem[p][k][c] \in Nat /\ mem[p][k][c] # None
         /\ mem[p][k][c] # None => PageStep(k, c) \in held[p]
<1>1. mem[p][k][c] \in Block \cup {None} /\ Block \subseteq Nat
  BY LifecycleAssumption DEF ProcInv, ProcTypes
<1>2. mem[p][k][c] # None <=> PageStep(k, c) \in held[p]
  BY DEF ProcInv, Handles
<1> QED BY <1>1, <1>2

(* A file that is open is held. *)
LEMMA FilesHeld ==
  ASSUME ProcInv, NEW p \in Proc, NEW i \in Port
  PROVE  /\ FileStep(i) \in held[p] => file[p][i] \in Device \cup {Freed}
         /\ Valid(p, i) => FileStep(i) \in held[p]
<1>1. file[p][i] \in Device \cup {None, Freed} /\ None \notin Device
  BY LifecycleAssumption DEF ProcInv, ProcTypes
<1>2. file[p][i] # None <=> FileStep(i) \in held[p]
  BY DEF ProcInv, Handles
<1> QED BY <1>1, <1>2 DEF Valid

(* The steps of main that matter to no adapter's power. *)
LEMMA CalmSteps ==
  ASSUME ProcInv, NEW p \in Proc, NEW acts, NEW s \in Step(p, acts),
         acts \cap {"up", "rxirq", "txirq"} = {},
         \/ Acquired(p, s)
         \/ s \in Resource /\ s.act # "thread" /\ Failed(p, s, held[p] \cup {s})
  PROVE  \A q \in Proc, i \in Port : Valid(q, i) => Calm(q, i)
<1> SUFFICES ASSUME NEW q \in Proc, NEW i \in Port, Valid(q, i) PROVE Calm(q, i)
  OBVIOUS
<1>1. s.act \notin {"up", "rxirq", "txirq"}
  BY StepFacts
<1>2. s # UpStep(i) /\ \A c \in Core, r \in Dir : s # IrqStep(c, r, i)
  BY <1>1, Named, IrqNamed
<1>3. FileStep(i) \in held[q]
  BY FilesHeld
<1>4. CASE q = p
  BY <1>2, <1>3, <1>4, CalmAcquired, CalmFailed
<1>5. CASE q # p
  <2>1. mode'[q] = mode[q] /\ pc'[q] = pc[q] /\ rel'[q] = rel[q] /\ held'[q] = held[q]
    BY <1>5, AcquiredFacts, FailedFacts
  <2> QED BY <2>1, CalmFrame
<1> QED BY <1>4, <1>5

(* The steps of the release that matter to no adapter's power. *)
LEMMA CalmReleases ==
  ASSUME ProcInv, NEW p \in Proc, NEW acts, NEW s \in Todo(p, acts),
         acts \cap {"down", "file"} = {}, Released(p, s), mode' = mode, pc' = pc
  PROVE  \A q \in Proc, i \in Port : Valid(q, i) => Calm(q, i)
<1> SUFFICES ASSUME NEW q \in Proc, NEW i \in Port, Valid(q, i) PROVE Calm(q, i)
  OBVIOUS
<1>1. s.act \notin {"down", "file"}
  BY TodoFacts
<1>2. s # DownStep(i) /\ s # FileStep(i)
  BY <1>1, Named
<1>3. FileStep(i) \in held[q]
  BY FilesHeld
<1>4. /\ held'[p] = held[p] \ {s}
      /\ \A z \in Proc \ {p} : held'[z] = held[z] /\ rel'[z] = rel[z]
  BY ReleasedFacts
<1>5. CASE q = p
  <2>1. held'[p] # {}
    BY <1>2, <1>3, <1>4, <1>5
  <2> QED BY <2>1, <1>2, <1>5, CalmReleased
<1>6. CASE q # p
  BY <1>4, <1>6, CalmFrame
<1> QED BY <1>5, <1>6

(* One adapter gets another record. *)
LEMMA OneAdapter ==
  ASSUME adapter \in [Device -> AdapterType], NEW d \in Device, NEW b \in AdapterType,
         adapter' = [adapter EXCEPT ![d] = b]
  PROVE  /\ adapter' \in [Device -> AdapterType] /\ adapter'[d] = b
         /\ \A e \in Device \ {d} : adapter'[e] = adapter[e]
         /\ Alike(adapter[d], b) => \A e \in Device : Alike(adapter[e], adapter'[e])
BY DEF Alike

(* ioctl(IXMAP_MAP), ioctl(IXMAP_UNMAP) and the registers leave every      *)
(* adapter as far up as it is.                                             *)
LEMMA AreaStep ==
  ASSUME ProcInv, DeviceInv, NEW p \in Proc, MapArea(p) \/ UnmapArea(p) \/ Registers(p)
  PROVE  /\ adapter' \in [Device -> AdapterType] /\ \A e \in Device : Alike(adapter[e], adapter'[e])
         /\ file' = file /\ mem' = mem
<1>0. adapter \in [Device -> AdapterType]
  BY DEF DeviceInv
<1>1. CASE MapArea(p)
  <2>1. PICK s \in Step(p, {"rxring", "txring", "buffer"}) :
           /\ Valid(p, s.port)
           /\ CanMap(adapter[file[p][s.port]], AreaOf(p, s).addr, AreaOf(p, s).len)
           /\ adapter' = [adapter EXCEPT ![file[p][s.port]] = dma_map(@, AreaOf(p, s).addr, AreaOf(p, s).len)]
           /\ UNCHANGED <<file, mem>>
    BY <1>1 DEF MapArea
  <2>2. s \in Resource /\ IsArea(s)
    BY StepFacts DEF IsPlain, IsArea
  <2>3. PageOf(s) \in held[p]
    BY <2>2, AreaNeeds, StepNeeds
  <2>4. AreaOf(p, s) \in Area
    BY <2>2, <2>3, AreaNeeds, PagesHeld, AreaTyped DEF PageOf
  <2>5. AreaOf(p, s).addr \in Nat /\ AreaOf(p, s).len \in Nat
    BY <2>4 DEF Area
  <2>6. PICK d : d = file[p][s.port]
    OBVIOUS
  <2>7. d \in Device /\ adapter[d] \in AdapterType
    BY <1>0, <2>1, <2>6 DEF Valid
  <2>8. PICK b : b = dma_map(adapter[d], AreaOf(p, s).addr, AreaOf(p, s).len)
    OBVIOUS
  <2>9. b \in AdapterType /\ Alike(adapter[d], b)
    BY <2>1, <2>5, <2>6, <2>7, <2>8, MapFacts
  <2>10. adapter' = [adapter EXCEPT ![d] = b]
    BY <2>1, <2>6, <2>8
  <2> QED BY <1>0, <2>1, <2>7, <2>9, <2>10, OneAdapter
<1>2. CASE UnmapArea(p)
  <2>1. PICK s \in Todo(p, {"rxring", "txring", "buffer"}) :
           /\ Valid(p, s.port)
           /\ adapter' = [adapter EXCEPT ![file[p][s.port]] = dma_unmap(@, AreaOf(p, s).addr)]
           /\ UNCHANGED <<file, mem>>
    BY <1>2 DEF UnmapArea
  <2>2. s \in held[p] /\ IsArea(s)
    BY TodoFacts DEF IsHalf, IsArea
  <2>3. s \in Resource
    BY <2>2 DEF ProcInv, ProcTypes
  <2>4. PageOf(s) \in held[p]
    BY <2>2, <2>3, AreaNeeds, HeldClosed
  <2>5. AreaOf(p, s) \in Area
    BY <2>2, <2>3, <2>4, AreaNeeds, PagesHeld, AreaTyped DEF PageOf
  <2>6. AreaOf(p, s).addr \in Nat
    BY <2>5 DEF Area
  <2>7. PICK d : d = file[p][s.port]
    OBVIOUS
  <2>8. d \in Device /\ adapter[d] \in AdapterType
    BY <1>0, <2>1, <2>7 DEF Valid
  <2>9. PICK b : b = dma_unmap(adapter[d], AreaOf(p, s).addr)
    OBVIOUS
  <2>10. b \in AdapterType /\ Alike(adapter[d], b)
    BY <2>6, <2>8, <2>9, UnmapFacts
  <2>11. adapter' = [adapter EXCEPT ![d] = b]
    BY <2>1, <2>7, <2>9
  <2> QED BY <1>0, <2>1, <2>8, <2>10, <2>11, OneAdapter
<1>3. CASE Registers(p)
  <2>1. PICK s \in Step(p, {"registers"}) :
           /\ adapter' = IF ~Valid(p, s.port) THEN adapter
                         ELSE [adapter EXCEPT ![file[p][s.port]] =
                                 configure(@, [q \in Core |->
                                     [rx |-> configure_rx_ring(p, q, s.port),
                                      tx |-> configure_tx_ring(p, q, s.port)]])]
           /\ UNCHANGED <<file, mem>>
    BY <1>3 DEF Registers
  <2>2. CASE ~ Valid(p, s.port)
    BY <1>0, <2>1, <2>2 DEF Alike
  <2>3. CASE Valid(p, s.port)
    <3>1. PICK g : g = [q \in Core |-> [rx |-> configure_rx_ring(p, q, s.port),
                                        tx |-> configure_tx_ring(p, q, s.port)]]
      OBVIOUS
    <3>2. s.port \in Port /\ s.act = "registers" /\ mode[p] \in {"off", "start"} /\ ~ Releasing(p)
      BY StepFacts, NameOf
    <3>3. ASSUME NEW q \in Core
          PROVE  configure_rx_ring(p, q, s.port) \in Nat /\ configure_tx_ring(p, q, s.port) \in Nat
      <4>1. Passed(p, PageStep("desc", q))
        BY <3>2, ProgramOrder
      <4>2. PageStep("desc", q) \in held[p]
        BY <3>2, <4>1, Named DEF ProcInv, Where, Pages
      <4>3. mem[p]["desc"][q] \in Nat
        BY <4>2, PagesHeld DEF Pages
      <4> QED BY <4>3, <3>2, AtNat, OffNat DEF configure_rx_ring, configure_tx_ring
    <3>4. g \in [Core -> [rx : Nat, tx : Nat]]
      BY <3>1, <3>3
    <3>5. PICK d : d = file[p][s.port]
      OBVIOUS
    <3>6. d \in Device /\ adapter[d] \in AdapterType
      BY <1>0, <2>3, <3>5 DEF Valid
    <3>7. PICK b : b = configure(adapter[d], g)
      OBVIOUS
    <3>8. b \in AdapterType /\ Alike(adapter[d], b)
      BY <3>4, <3>6, <3>7, AssignFacts
    <3>9. adapter' = [adapter EXCEPT ![d] = b]
      BY <2>1, <2>3, <3>1, <3>5, <3>7
    <3> QED BY <1>0, <2>1, <3>6, <3>8, <3>9, OneAdapter
  <2> QED BY <2>2, <2>3
<1> QED BY <1>1, <1>2, <1>3

(* Every step keeps layer 3: the steps that bring no adapter up or down.   *)
LEMMA DeviceQuiet ==
  ASSUME ProcInv, DeviceInv, NEW p \in Proc,
         \/ Private(p) \/ OpenQueue(p) \/ MapPages(p) \/ MapArea(p) \/ Registers(p) \/ CreateThread(p)
         \/ FailStep(p) \/ SigWait(p) \/ ThreadKill(p) \/ ThreadJoin(p) \/ ClosePrivate(p)
         \/ UnmapArea(p) \/ UnmapPages(p) \/ Fault(p) \/ Interrupt(p) \/ Crash(p)
         \/ \E c \in Core : ThreadEnd(p, c)
  PROVE  DeviceInv'
<1>0. adapter \in [Device -> AdapterType] /\ \A d \in Device : Alike(adapter[d], adapter[d])
  BY DEF DeviceInv, Alike
<1>1. ASSUME adapter' = adapter, file' = file, \A q \in Proc, i \in Port : Valid(q, i) => Calm(q, i)
      PROVE  DeviceInv'
  <2>1. adapter' \in [Device -> AdapterType] /\ \A d \in Device : Alike(adapter[d], adapter'[d])
    BY <1>0, <1>1
  <2> QED BY <1>1, <2>1, QuietDevice
<1>2. ASSUME MapArea(p) \/ UnmapArea(p) \/ Registers(p), \A q \in Proc, i \in Port : Valid(q, i) => Calm(q, i)
      PROVE  DeviceInv'
  BY <1>2, AreaStep, QuietDevice
<1>3. ASSUME UNCHANGED <<mode, pc, rel, held>> PROVE \A q \in Proc, i \in Port : Valid(q, i) => Calm(q, i)
  BY <1>3, CalmFrame
<1>4. CASE Private(p)
  <2>1. PICK s \in Step(p, {"bar", "rings", "slots", "pool", "mask", "alloc"}) :
           Acquired(p, s) /\ UNCHANGED <<adapter, file>>
    BY <1>4 DEF Private
  <2> QED BY <2>1, <1>1, CalmSteps
<1>5. CASE OpenQueue(p)
  <2>1. PICK s \in Step(p, {"queue"}) : AcquiredOrFailed(p, s) /\ UNCHANGED <<adapter, file>>
    BY <1>5 DEF OpenQueue
  <2>2. s.act = "queue" /\ s \in Resource
    BY <2>1, StepFacts DEF IsPlain
  <2>3. \A q \in Proc, i \in Port : Valid(q, i) => Calm(q, i)
    BY <2>1, <2>2, CalmSteps DEF AcquiredOrFailed
  <2> QED BY <2>1, <2>3, <1>1
<1>6. CASE MapPages(p)
  <2>1. PICK s \in Step(p, {"mmap"}) : Acquired(p, s) /\ UNCHANGED <<adapter, file>>
    BY <1>6 DEF MapPages
  <2> QED BY <2>1, <1>1, CalmSteps
<1>7. CASE MapArea(p)
  <2>1. PICK s \in Step(p, {"rxring", "txring", "buffer"}) : Acquired(p, s) \/ AcquiredOrFailed(p, s)
    BY <1>7 DEF MapArea
  <2>2. s.act # "thread" /\ s \in Resource
    BY <2>1, StepFacts DEF IsPlain
  <2>3. \A q \in Proc, i \in Port : Valid(q, i) => Calm(q, i)
    BY <2>1, <2>2, CalmSteps DEF AcquiredOrFailed
  <2> QED BY <1>7, <2>3, <1>2
<1>8. CASE Registers(p)
  <2>1. PICK s \in Step(p, {"registers"}) : Acquired(p, s)
    BY <1>8 DEF Registers
  <2>2. \A q \in Proc, i \in Port : Valid(q, i) => Calm(q, i)
    BY <2>1, CalmSteps
  <2> QED BY <1>8, <2>2, <1>2
<1>9. CASE CreateThread(p)
  <2>1. PICK s \in Step(p, {"thread"}) : Acquired(p, s) /\ UNCHANGED <<adapter, file>>
    BY <1>9 DEF CreateThread
  <2> QED BY <2>1, <1>1, CalmSteps
<1>10. CASE FailStep(p)
  <2>1. PICK s \in Step(p, Fallible) : Failed(p, s, held[p]) /\ UNCHANGED <<adapter, file>>
    BY <1>10 DEF FailStep
  <2>2. s.act # "thread"
    BY <2>1, StepFacts DEF Fallible
  <2>3. ASSUME NEW q \in Proc, NEW i \in Port, Valid(q, i) PROVE Calm(q, i)
    <3>1. CASE q = p
      BY <3>1, <2>1, <2>2, <2>3, FilesHeld, CalmFailed
    <3>2. CASE q # p
      <4>1. mode'[q] = mode[q] /\ pc'[q] = pc[q] /\ rel'[q] = rel[q] /\ held'[q] = held[q]
        BY <3>2, <2>1, <2>2, FailedFacts
      <4> QED BY <4>1, CalmFrame
    <3> QED BY <3>1, <3>2
  <2> QED BY <2>1, <2>3, <1>1
<1>11. CASE SigWait(p)
  <2>1. UNCHANGED <<adapter, file>>
    BY <1>11 DEF SigWait
  <2>2. ASSUME NEW q \in Proc, NEW i \in Port PROVE Calm(q, i)
    <3>1. CASE q = p
      BY <3>1, <1>11, CalmSigWait
    <3>2. CASE q # p
      <4>1. mode'[q] = mode[q] /\ pc'[q] = pc[q] /\ rel'[q] = rel[q] /\ held'[q] = held[q]
        BY <3>2, <1>11, SigWaitFacts
      <4> QED BY <4>1, CalmFrame
    <3> QED BY <3>1, <3>2
  <2> QED BY <2>1, <2>2, <1>1
<1>12. CASE ThreadKill(p)
  <2>1. PICK s \in Todo(p, {"kill"}) : Released(p, s) /\ UNCHANGED <<adapter, file, mode, pc>>
    BY <1>12 DEF ThreadKill
  <2> QED BY <2>1, <1>1, CalmReleases
<1>13. CASE ThreadJoin(p)
  <2>1. PICK s \in Todo(p, {"thread"}) : Released(p, s) /\ UNCHANGED <<adapter, file, mode, pc>>
    BY <1>13 DEF ThreadJoin
  <2> QED BY <2>1, <1>1, CalmReleases
<1>14. CASE ClosePrivate(p)
  <2>1. PICK s \in Todo(p, {"rxirq", "txirq", "queue"}) : Released(p, s) /\ UNCHANGED <<adapter, file, mode, pc>>
    BY <1>14 DEF ClosePrivate
  <2> QED BY <2>1, <1>1, CalmReleases
<1>15. CASE UnmapArea(p)
  <2>1. PICK s \in Todo(p, {"rxring", "txring", "buffer"}) : Released(p, s) /\ UNCHANGED <<mode, pc>>
    BY <1>15 DEF UnmapArea
  <2>2. \A q \in Proc, i \in Port : Valid(q, i) => Calm(q, i)
    BY <2>1, CalmReleases
  <2> QED BY <1>15, <2>2, <1>2
<1>16. CASE UnmapPages(p)
  <2>1. PICK s \in Todo(p, {"mmap"}) : Released(p, s) /\ UNCHANGED <<adapter, file, mode, pc>>
    BY <1>16 DEF UnmapPages
  <2> QED BY <2>1, <1>1, CalmReleases
<1>17. CASE Fault(p)
  BY <1>17, <1>1, <1>3 DEF Fault, procVars
<1>18. CASE Interrupt(p)
  BY <1>18, <1>1, <1>3 DEF Interrupt
<1>19. CASE Crash(p)
  <2>1. UNCHANGED <<adapter, file>>
    BY <1>19 DEF Crash
  <2>2. ASSUME NEW q \in Proc, NEW i \in Port, Valid(q, i) PROVE Calm(q, i)
    <3>1. CASE q = p
      BY <3>1, <1>19, <2>2, FilesHeld, CalmCrash
    <3>2. CASE q # p
      <4>1. mode'[q] = mode[q] /\ pc'[q] = pc[q] /\ rel'[q] = rel[q] /\ held'[q] = held[q]
        BY <3>2, <1>19, CrashFacts
      <4> QED BY <4>1, CalmFrame
    <3> QED BY <3>1, <3>2
  <2> QED BY <2>1, <2>2, <1>1
<1>20. CASE \E c \in Core : ThreadEnd(p, c)
  BY <1>20, <1>1, <1>3 DEF ThreadEnd
<1> QED BY <1>4, <1>5, <1>6, <1>7, <1>8, <1>9, <1>10, <1>11, <1>12, <1>13, <1>14, <1>15, <1>16, <1>17,
           <1>18, <1>19, <1>20

(* Layer 3 is kept by a command on one open adapter. *)
LEMMA OneCommand ==
  ASSUME DeviceInv, NEW p \in Proc, NEW i \in Port, Valid(p, i), file' = file, NEW b \in AdapterType,
         adapter' = [adapter EXCEPT ![file[p][i]] = b],
         b.phase = adapter[file[p][i]].phase, b.refcount = adapter[file[p][i]].refcount,
         b.up <=> b.msix # "none", ~ b.up => b.ctx = NoCtx /\ b.posted = NoRing,
         \A q \in Core : b.posted[q] # None => \A r \in Dir : b.ctx[<<q, r>>] # None,
         Powered(p, i)',
         \A q \in Proc, j \in Port : Valid(q, j) /\ (q # p \/ j # i) => Calm(q, j)
  PROVE  DeviceInv'
<1>1. PICK d : d = file[p][i]
  OBVIOUS
<1>2. d \in Device /\ adapter \in [Device -> AdapterType] /\ adapter' = [adapter EXCEPT ![d] = b]
  BY <1>1 DEF Valid, DeviceInv
<1>3. adapter' \in [Device -> AdapterType] /\ adapter'[d] = b /\ \A e \in Device \ {d} : adapter'[e] = adapter[e]
  BY <1>2, OneAdapter
<1>4. \A e : Owned(e)' <=> Owned(e)
  BY DEF Owned
<1>5. Owned(d)
  BY <1>1 DEF Owned
<1>6. ASSUME NEW e \in Device PROVE Kept(e)'
  <2>1. CASE e = d
    <3>1. adapter[d].phase # "absent" => adapter[d].refcount = IF Owned(d) THEN 2 ELSE 1
      BY <1>2 DEF DeviceInv, Kept
    <3> QED BY <2>1, <3>1, <1>1, <1>3, <1>4, <1>5 DEF Kept
  <2>2. CASE e # d
    <3>1. Alike(adapter[e], adapter'[e])
      BY <2>2, <1>3 DEF Alike
    <3> QED BY <3>1, <1>4, KeptAlike DEF DeviceInv
  <2> QED BY <2>1, <2>2
<1>7. \A q \in Proc, j \in Port : Valid(q, j)' <=> Valid(q, j)
  BY DEF Valid
<1>8. OneFile'
  <2>1. \A e \in Device : adapter'[e].phase = adapter[e].phase
    BY <1>1, <1>3
  <2>2. \A q \in Proc, j \in Port : Valid(q, j) => adapter'[file[q][j]].phase = adapter[file[q][j]].phase
    BY <2>1 DEF Valid
  <2> QED BY <1>7, <2>2 DEF DeviceInv, OneFile
<1>9. ASSUME NEW q \in Proc, NEW j \in Port, Valid(q, j) PROVE Powered(q, j)'
  <2>1. CASE q = p /\ j = i
    BY <2>1
  <2>2. CASE q # p \/ j # i
    <3>1. file[q][j] \in Device /\ file[q][j] # d
      BY <1>1, <1>9, <2>2 DEF DeviceInv, OneFile, Valid
    <3>2. adapter'[file[q][j]] = adapter[file[q][j]]
      BY <1>3, <3>1
    <3> QED BY <1>9, <2>2, <3>2, PoweredCalm DEF DeviceInv
  <2> QED BY <2>1, <2>2
<1> QED BY <1>3, <1>6, <1>7, <1>8, <1>9 DEF DeviceInv

(* ioctl(IXMAP_UP) keeps layer 3. *)
LEMMA DeviceUpStep ==
  ASSUME ProcInv, DeviceInv, NEW p \in Proc, DeviceUp(p)
  PROVE  DeviceInv'
<1>1. PICK s \in Step(p, {"up"}), msix \in {"ok", "failed"} :
         /\ Valid(p, s.port) /\ CanUp(adapter[file[p][s.port]])
         /\ adapter' = [adapter EXCEPT ![file[p][s.port]] = cmd_up(@, msix)]
         /\ Acquired(p, s) /\ file' = file
  BY DEF DeviceUp
<1>2. s.act = "up" /\ s.port \in Port /\ s = UpStep(s.port)
  BY StepFacts, NameOf
<1>3. PICK i \in Port : i = s.port /\ s = UpStep(i)
  BY <1>2
<1>4. PICK a : a = adapter[file[p][i]]
  OBVIOUS
<1>5. PICK b : b = cmd_up(a, msix)
  OBVIOUS
<1>6. a \in AdapterType /\ file[p][i] \in Device
  BY <1>1, <1>3, <1>4 DEF DeviceInv, Valid
<1>7. /\ b \in AdapterType /\ b.up = TRUE /\ b.msix = msix /\ b.phase = a.phase /\ b.refcount = a.refcount
      /\ b.ctx = a.ctx /\ b.posted = a.posted
  <2>1. msix \in {"ok", "failed"} /\ a \in AdapterType /\ b = cmd_up(a, msix)
    BY <1>5, <1>6
  <2>2. b \in AdapterType
    BY <2>1, UpFacts
  <2>3. b.up = TRUE /\ b.msix = msix
    BY <2>1, UpFacts
  <2>4. b.phase = a.phase
    BY <2>1, UpFacts, ZenonT(60)
  <2>7. b.refcount = a.refcount
    BY <2>1, UpFacts, ZenonT(60)
  <2>5. b.ctx = a.ctx
    BY <2>1, UpFacts, ZenonT(60)
  <2>6. b.posted = a.posted
    BY <2>1, UpFacts, ZenonT(60)
  <2> QED BY <2>2, <2>3, <2>4, <2>5, <2>6, <2>7
<1>8. adapter' = [adapter EXCEPT ![file[p][i]] = b]
  BY <1>1, <1>3, <1>4, <1>5
<1>9. \A q \in Core : b.posted[q] # None => \A r \in Dir : b.ctx[<<q, r>>] # None
  BY <1>4, <1>6, <1>7 DEF DeviceInv, Kept
<1>10. /\ held'[p] = held[p] \cup ({s} \cap Resource) /\ mode'[p] \in {"start", "wait"}
       /\ \A q \in Proc \ {p} : mode'[q] = mode[q] /\ pc'[q] = pc[q] /\ held'[q] = held[q]
       /\ rel' = rel
  BY <1>1, AcquiredFacts
<1>11. ~ Releasing(p)' /\ NotDown(p, i)' /\ ~ Releasing(p) /\ NotDown(p, i)
  BY <1>10, StepFacts DEF Releasing, NotDown
<1>12. adapter'[file'[p][i]] = b
  BY <1>1, <1>6, <1>8 DEF DeviceInv
<1>13. Powered(p, i)'
  <2>1. \A c \in Core, r \in Dir : IrqStep(c, r, i) \in held'[p] => IrqStep(c, r, i) \in held[p]
    BY <1>2, <1>10, IrqNamed
  <2>2. \A c \in Core, r \in Dir : IrqStep(c, r, i) \in held[p] => a.ctx[<<c, r>>] # None
    BY <1>1, <1>3, <1>4, <1>11 DEF DeviceInv, Powered
  <2> QED BY <2>1, <2>2, <1>7, <1>11, <1>12 DEF Powered
<1>14. ASSUME NEW q \in Proc, NEW j \in Port, q # p \/ j # i PROVE Calm(q, j)
  <2>1. CASE q # p
    BY <2>1, <1>10, CalmFrame
  <2>2. CASE q = p
    <3>1. s # UpStep(j) /\ \A c \in Core, r \in Dir : s # IrqStep(c, r, j)
      BY <1>2, <1>3, <1>14, <2>2, Named, IrqNamed
    <3> QED BY <1>1, <2>2, <3>1, CalmAcquired
  <2> QED BY <2>1, <2>2
<1>15. /\ Valid(p, i) /\ file' = file /\ b \in AdapterType
       /\ b.phase = adapter[file[p][i]].phase /\ b.refcount = adapter[file[p][i]].refcount
       /\ b.up <=> b.msix # "none"
       /\ ~ b.up => b.ctx = NoCtx /\ b.posted = NoRing
  BY <1>1, <1>3, <1>4, <1>7
<1> QED BY <1>8, <1>9, <1>13, <1>14, <1>15, OneCommand

(* ioctl(IXMAP_IRQ) keeps layer 3. *)
LEMMA IrqOpenStep ==
  ASSUME ProcInv, DeviceInv, NEW p \in Proc, IrqOpen(p)
  PROVE  DeviceInv'
<1>1. PICK s \in Step(p, {"rxirq", "txirq"}) :
         /\ Valid(p, s.port) /\ adapter[file[p][s.port]].msix = "ok"
         /\ adapter' = [adapter EXCEPT ![file[p][s.port]] =
                          irq_assign(@, <<s.core, IF s.act = "rxirq" THEN "rx" ELSE "tx">>, p)]
         /\ AcquiredOrFailed(p, s) /\ file' = file
  BY DEF IrqOpen
<1>2. /\ s.act \in {"rxirq", "txirq"} /\ s.port \in Port /\ s.core \in Core /\ s \in Resource
      /\ s = IrqStep(s.core, IF s.act = "rxirq" THEN "rx" ELSE "tx", s.port)
  BY StepFacts, NameOf DEF IsPlain
<1>3. PICK i \in Port, c \in Core, r \in Dir :
         i = s.port /\ c = s.core /\ r = (IF s.act = "rxirq" THEN "rx" ELSE "tx") /\ s = IrqStep(c, r, i)
  BY <1>2 DEF Dir
<1>4. PICK a : a = adapter[file[p][i]]
  OBVIOUS
<1>5. PICK b : b = irq_assign(a, <<c, r>>, p)
  OBVIOUS
<1>6. a \in AdapterType /\ file[p][i] \in Device /\ Kept(file[p][i]) /\ Powered(p, i)
  BY <1>1, <1>3, <1>4 DEF DeviceInv, Valid
<1>7. /\ b \in AdapterType /\ b.phase = a.phase /\ b.refcount = a.refcount /\ b.up = a.up
      /\ b.msix = a.msix /\ b.posted = a.posted
      /\ \A u \in Vector : b.ctx[u] = IF u = <<c, r>> THEN p ELSE a.ctx[u]
  <2>1. <<c, r>> \in Vector
    BY DEF Vector
  <2> QED BY <2>1, <1>5, <1>6, AssignFacts
<1>8. adapter' = [adapter EXCEPT ![file[p][i]] = b]
  BY <1>1, <1>3, <1>4, <1>5
<1>9. p # None
  BY LifecycleAssumption
<1>10. \A e \in Core, t \in Dir : a.ctx[<<e, t>>] # None \/ <<e, t>> = <<c, r>> => b.ctx[<<e, t>>] # None
  BY <1>7, <1>9 DEF Vector
<1>11. \A q \in Core : b.posted[q] # None => \A t \in Dir : b.ctx[<<q, t>>] # None
  BY <1>4, <1>6, <1>7, <1>10, SMTT(40) DEF Kept
<1>12. a.up /\ (b.up <=> b.msix # "none")
  BY <1>1, <1>3, <1>4, <1>6, <1>7 DEF Kept
<1>13. adapter'[file'[p][i]] = b
  BY <1>1, <1>6, <1>8 DEF DeviceInv
<1>14. s.act # "thread" /\ \A j \in Port : s # UpStep(j)
  BY <1>2, Named
<1>15. held'[p] = held[p] \cup {s} /\ NotDown(p, i)'
  <2>1. CASE Acquired(p, s)
    <3>1. held'[p] = held[p] \cup {s} /\ mode'[p] \in {"start", "wait"}
      BY <2>1, <1>2, AcquiredFacts
    <3> QED BY <3>1 DEF NotDown, Releasing
  <2>2. CASE Failed(p, s, held[p] \cup {s})
    <3>1. /\ held'[p] = held[p] \cup {s}
          /\ \A x : x \in Members(rel'[p]) <=> x \in ReleaseStep /\ Of(x) \in held[p] \cup {s}
      BY <2>2, <1>2, <1>14, FailedFacts
    <3>2. FileStep(i) \in held[p]
      BY <1>1, <1>3, FilesHeld
    <3> QED BY <3>1, <3>2, OfHalf, Named DEF NotDown
  <2> QED BY <2>1, <2>2, <1>1 DEF AcquiredOrFailed
<1>16. Powered(p, i)'
  <2>1. ASSUME NEW e \in Core, NEW t \in Dir, IrqStep(e, t, i) \in held'[p]
        PROVE  b.ctx[<<e, t>>] # None
    <3>1. CASE IrqStep(e, t, i) = s
      <4>1. e = c /\ (t = "rx" <=> r = "rx")
        BY <3>1, <1>3, IrqNamed
      <4>2. <<e, t>> = <<c, r>>
        BY <4>1 DEF Dir
      <4> QED BY <4>2, <1>10
    <3>2. CASE IrqStep(e, t, i) # s
      <4>1. IrqStep(e, t, i) \in held[p]
        BY <2>1, <3>2, <1>15
      <4>2. NotDown(p, i)
        BY <1>1, StepFacts DEF NotDown
      <4> QED BY <4>1, <4>2, <1>4, <1>6, <1>10 DEF Powered
    <3> QED BY <3>1, <3>2
  <2>2. b.up
    BY <1>7, <1>12
  <2> QED BY <2>1, <2>2, <1>13, <1>15 DEF Powered
<1>17. ASSUME NEW q \in Proc, NEW j \in Port, Valid(q, j), q # p \/ j # i PROVE Calm(q, j)
  <2>1. CASE q # p
    <3>1. mode'[q] = mode[q] /\ pc'[q] = pc[q] /\ held'[q] = held[q] /\ rel'[q] = rel[q]
      BY <1>1, <1>2, <1>14, <2>1, AcquiredFacts, FailedFacts DEF AcquiredOrFailed
    <3> QED BY <3>1, CalmFrame
  <2>2. CASE q = p
    <3>1. s # UpStep(j) /\ \A e \in Core, t \in Dir : s # IrqStep(e, t, j)
      BY <1>2, <1>3, <1>14, <1>17, <2>2, IrqNamed
    <3>2. FileStep(j) \in held[p]
      BY <1>17, <2>2, FilesHeld
    <3>3. CASE Acquired(p, s)
      BY <2>2, <3>1, <3>3, CalmAcquired
    <3>4. CASE Failed(p, s, held[p] \cup {s})
      BY <1>2, <1>14, <2>2, <3>1, <3>2, <3>4, CalmFailed, SMTT(40)
    <3> QED BY <3>3, <3>4, <1>1 DEF AcquiredOrFailed
  <2> QED BY <2>1, <2>2
<1>18. /\ Valid(p, i) /\ file' = file /\ b \in AdapterType
       /\ b.phase = adapter[file[p][i]].phase /\ b.refcount = adapter[file[p][i]].refcount
       /\ b.up <=> b.msix # "none"
       /\ ~ b.up => b.ctx = NoCtx /\ b.posted = NoRing
  BY <1>1, <1>3, <1>4, <1>7, <1>12
<1> QED BY <1>8, <1>11, <1>16, <1>17, <1>18, OneCommand

(* The first half of close keeps layer 3. *)
LEMMA CloseDownStep ==
  ASSUME ProcInv, DeviceInv, NEW p \in Proc, CloseDown(p)
  PROVE  DeviceInv'
<1>1. PICK s \in Todo(p, {"down"}) :
         /\ Valid(p, s.port) /\ adapter' = [adapter EXCEPT ![file[p][s.port]] = cmd_down(@)]
         /\ Released(p, s) /\ UNCHANGED <<mode, pc, file>>
  BY DEF CloseDown
<1>2. s.act = "down" /\ s.port \in Port /\ s = DownStep(s.port) /\ Releasing(p)
  BY TodoFacts, NameOf
<1>3. PICK i \in Port : i = s.port /\ s = DownStep(i)
  BY <1>2
<1>4. PICK a : a = adapter[file[p][i]]
  OBVIOUS
<1>5. PICK b : b = cmd_down(a)
  OBVIOUS
<1>6. a \in AdapterType /\ file[p][i] \in Device /\ Kept(file[p][i])
  BY <1>1, <1>3, <1>4 DEF DeviceInv, Valid
<1>7. /\ b \in AdapterType /\ b.phase = a.phase /\ b.refcount = a.refcount /\ b.up = FALSE
      /\ a.up => b.msix = "none" /\ b.ctx = NoCtx /\ b.posted = NoRing
      /\ ~ a.up => b = a
  <2>1. a \in AdapterType
    BY <1>6
  <2>2. b \in AdapterType
    BY <2>1, <1>5, DownFacts
  <2>3. b.phase = a.phase
    BY <2>1, <1>5, DownFacts
  <2>4. b.refcount = a.refcount
    BY <2>1, <1>5, DownFacts
  <2>5. b.up = FALSE
    BY <2>1, <1>5, DownFacts
  <2>6. a.up => b.msix = "none" /\ b.ctx = NoCtx /\ b.posted = NoRing
    BY <2>1, <1>5, DownFacts, ZenonT(60)
  <2>7. ~ a.up => b = a
    BY <2>1, <1>5, DownFacts
  <2> QED BY <2>2, <2>3, <2>4, <2>5, <2>6, <2>7
<1>8. adapter' = [adapter EXCEPT ![file[p][i]] = b]
  BY <1>1, <1>3, <1>4, <1>5
<1>9. b.msix = "none" /\ b.ctx = NoCtx /\ b.posted = NoRing
  BY <1>4, <1>6, <1>7 DEF Kept
<1>10. \A q \in Core : b.posted[q] = None
  BY <1>9, NothingThere
<1>11. /\ held'[p] = held[p] \ {s} /\ \A r : r \in Members(rel'[p]) <=> r \in Members(rel[p]) /\ r # s
       /\ \A r \in Members(rel'[p]) : ~ Dep(r, s)
       /\ \A q \in Proc \ {p} : held'[q] = held[q] /\ rel'[q] = rel[q]
  <2>1. mode' = mode /\ pc' = pc /\ Released(p, s)
    BY <1>1
  <2>2. /\ held'[p] = held[p] \ {s}
        /\ \A q \in Proc \ {p} : held'[q] = held[q] /\ rel'[q] = rel[q]
    BY <2>1, ReleasedFacts
  <2>3. \A r : r \in Members(rel'[p]) <=> r \in Members(rel[p]) /\ r # s
    BY <2>1, ReleasedFacts
  <2>4. \A r \in Members(rel'[p]) : ~ Dep(r, s)
    BY <2>1, ReleasedFacts
  <2> QED BY <2>2, <2>3, <2>4
<1>12. Releasing(p)' /\ ~ NotDown(p, i)'
  BY <1>1, <1>2, <1>3, <1>11 DEF NotDown, Releasing
<1>13. adapter'[file'[p][i]] = b
  BY <1>1, <1>6, <1>8 DEF DeviceInv
<1>14. \A c \in Core : ThreadStep(c) \notin held'[p]
  <2>0. Where(p)'
    BY <1>1, ReleasedFacts
  <2>1. held'[p] = Members(rel'[p]) \cap Resource
    BY <2>0, <1>12 DEF Where
  <2>2. \A c \in Core : Dep(ThreadStep(c), s)
    BY <1>3, Named DEF Dep
  <2> QED BY <2>1, <2>2, <1>11
<1>15. ~ Passed(p, UpStep(i))'
  BY <1>12 DEF Passed, Releasing
<1>16. Powered(p, i)'
  BY <1>7, <1>12, <1>13, <1>14, <1>15 DEF Powered
<1>17. ASSUME NEW q \in Proc, NEW j \in Port, Valid(q, j), q # p \/ j # i PROVE Calm(q, j)
  <2>1. CASE q # p
    BY <1>1, <1>11, <2>1, CalmFrame
  <2>2. CASE q = p
    <3>1. s # DownStep(j) /\ s # FileStep(j)
      BY <1>2, <1>3, <1>17, <2>2, Named
    <3>2. FileStep(j) \in held[p]
      BY <1>17, <2>2, FilesHeld
    <3>3. held'[p] # {}
      BY <3>1, <3>2, <1>11
    <3> QED BY <1>1, <2>2, <3>1, <3>3, CalmReleased
  <2> QED BY <2>1, <2>2
<1>18. /\ Valid(p, i) /\ file' = file /\ b \in AdapterType
       /\ b.phase = adapter[file[p][i]].phase /\ b.refcount = adapter[file[p][i]].refcount
       /\ b.up <=> b.msix # "none"
       /\ ~ b.up => b.ctx = NoCtx /\ b.posted = NoRing
       /\ \A q \in Core : b.posted[q] # None => \A r \in Dir : b.ctx[<<q, r>>] # None
  BY <1>1, <1>3, <1>4, <1>7, <1>9, <1>10
<1> QED BY <1>8, <1>16, <1>17, <1>18, OneCommand

(* open keeps layer 3. *)
LEMMA OpenFileStep ==
  ASSUME ProcInv, DeviceInv, NEW p \in Proc, OpenFile(p)
  PROVE  DeviceInv'
<1>1. PICK s \in Step(p, {"file"}), d \in Bound :
         /\ ~ inuse(adapter[d]) /\ adapter' = [adapter EXCEPT ![d] = adapter_get(@)]
         /\ file' = [file EXCEPT ![p][s.port] = d] /\ Acquired(p, s)
  BY DEF OpenFile
<1>2. s.act = "file" /\ s.port \in Port /\ s = FileStep(s.port) /\ s \notin held[p] /\ ~ Releasing(p)
  BY StepFacts, NameOf
<1>3. PICK i \in Port : i = s.port /\ s = FileStep(i)
  BY <1>2
<1>4. d \in Device /\ adapter[d].phase = "bound" /\ adapter[d] \in AdapterType
  BY DEF Bound, DeviceInv
<1>5. file[p][i] = None /\ None \notin Device
  BY <1>2, <1>3, LifecycleAssumption DEF ProcInv, Handles
<1>6. adapter[d].refcount = 1 /\ ~ Owned(d) /\ Kept(d)
  <2>1. adapter[d].refcount = 1
    BY <1>1 DEF inuse
  <2>2. adapter[d].refcount = IF Owned(d) THEN 2 ELSE 1
    BY <1>4 DEF DeviceInv, Kept
  <2> QED BY <2>1, <2>2, <1>4 DEF DeviceInv
<1>7. PICK b : b = adapter_get(adapter[d])
  OBVIOUS
<1>8. /\ b \in AdapterType /\ b.refcount = 2 /\ b.phase = "bound" /\ b.up = adapter[d].up
      /\ b.msix = adapter[d].msix /\ b.ctx = adapter[d].ctx /\ b.posted = adapter[d].posted
  BY <1>4, <1>6, <1>7, CountFacts
<1>9. adapter' \in [Device -> AdapterType] /\ adapter'[d] = b /\ \A e \in Device \ {d} : adapter'[e] = adapter[e]
  <2>1. adapter' = [adapter EXCEPT ![d] = b]
    BY <1>1, <1>7
  <2> QED BY <2>1, <1>4, <1>8, OneAdapter DEF DeviceInv
<1>10. /\ file'[p][i] = d /\ \A j \in Port : j # i => file'[p][j] = file[p][j]
       /\ \A q \in Proc, j \in Port : q # p => file'[q][j] = file[q][j]
  BY <1>1, <1>3 DEF ProcInv, ProcTypes
<1>11. ASSUME NEW e \in Device, e # d PROVE Owned(e)' <=> Owned(e)
  <2>1. ASSUME NEW q \in Proc, NEW j \in Port PROVE file'[q][j] = e <=> file[q][j] = e
    BY <1>5, <1>10, <1>11
  <2> QED BY <2>1 DEF Owned
<1>12. Owned(d)'
  BY <1>10 DEF Owned
<1>13. ASSUME NEW e \in Device PROVE Kept(e)'
  <2>1. CASE e = d
    <3>1. /\ b.up <=> b.msix # "none"
          /\ ~ b.up => b.ctx = NoCtx /\ b.posted = NoRing
          /\ \A q \in Core : b.posted[q] # None => \A r \in Dir : b.ctx[<<q, r>>] # None
      BY <1>6, <1>8 DEF Kept
    <3> QED BY <2>1, <3>1, <1>8, <1>9, <1>12 DEF Kept
  <2>2. CASE e # d
    <3>1. Alike(adapter[e], adapter'[e])
      BY <2>2, <1>9 DEF Alike
    <3> QED BY <2>2, <3>1, <1>11, KeptAlike DEF DeviceInv
  <2> QED BY <2>1, <2>2
<1>14. ASSUME NEW q \in Proc, NEW j \in Port, q # p \/ j # i
       PROVE  /\ file'[q][j] = file[q][j] /\ file[q][j] # d
  BY <1>6, <1>10, <1>14 DEF Owned
<1>15. OneFile'
  <2>1. ASSUME NEW q \in Proc, NEW j \in Port, Valid(q, j)' PROVE adapter'[file'[q][j]].phase = "bound"
    <3>1. CASE q = p /\ j = i
      BY <3>1, <1>8, <1>9, <1>10
    <3>2. CASE q # p \/ j # i
      <4>1. Valid(q, j) /\ file'[q][j] = file[q][j] /\ file[q][j] # d
        BY <2>1, <3>2, <1>14 DEF Valid
      <4>2. file[q][j] \in Device \ {d}
        BY <4>1 DEF Valid
      <4> QED BY <4>1, <4>2, <1>9 DEF DeviceInv, OneFile
    <3> QED BY <3>1, <3>2
  <2>2. ASSUME NEW q \in Proc, NEW z \in Proc, NEW j \in Port, NEW k \in Port,
               Valid(q, j)', file'[z][k] = file'[q][j]
        PROVE  q = z /\ j = k
    <3>1. CASE (q = p /\ j = i) \/ (z = p /\ k = i)
      BY <2>2, <3>1, <1>10, <1>14
    <3>2. CASE (q # p \/ j # i) /\ (z # p \/ k # i)
      <4>1. Valid(q, j) /\ file[z][k] = file[q][j]
        BY <2>2, <3>2, <1>14 DEF Valid
      <4> QED BY <4>1 DEF DeviceInv, OneFile
    <3> QED BY <3>1, <3>2
  <2> QED BY <2>1, <2>2 DEF OneFile
<1>16. ASSUME NEW q \in Proc, NEW j \in Port, Valid(q, j)' PROVE Powered(q, j)'
  <2>1. CASE q = p /\ j = i
    <3>1. /\ held'[p] = held[p] \cup ({s} \cap Resource) /\ mode'[p] \in {"start", "wait"}
          /\ \A x \in StartStep : Passed(p, x)' <=> Passed(p, x) \/ x = s
      BY <1>1, AcquiredFacts
    <3>2. /\ ~ Passed(p, UpStep(i)) /\ \A c \in Core : ThreadStep(c) \notin held[p]
          /\ \A c \in Core, r \in Dir : IrqStep(c, r, i) \notin held[p]
      BY <1>1, <1>3, ProgramOrder
    <3>3. /\ UpStep(i) # s /\ \A c \in Core : ThreadStep(c) # s
          /\ \A c \in Core, r \in Dir : IrqStep(c, r, i) # s
      BY <1>2, Named, IrqNamed
    <3>4. ~ Passed(p, UpStep(i))' /\ \A c \in Core : ThreadStep(c) \notin held'[p]
      BY <3>1, <3>2, <3>3, Named
    <3>5. \A c \in Core, r \in Dir : IrqStep(c, r, i) \notin held'[p]
      BY <3>1, <3>2, <3>3
    <3>6. NotDown(p, i)'
      BY <3>1 DEF NotDown, Releasing
    <3> QED BY <2>1, <3>4, <3>5, <3>6 DEF Powered
  <2>2. CASE q # p \/ j # i
    <3>1. Valid(q, j) /\ file'[q][j] = file[q][j] /\ file[q][j] # d
      BY <1>16, <2>2, <1>14 DEF Valid
    <3>2. file[q][j] \in Device \ {d} /\ Powered(q, j)
      BY <3>1 DEF Valid, DeviceInv
    <3>3. adapter'[file[q][j]] = adapter[file[q][j]]
      BY <3>2, <1>9
    <3>4. Calm(q, j)
      BY <1>1, <3>1, CalmSteps
    <3> QED BY <3>1, <3>2, <3>3, <3>4, PoweredCalm
  <2> QED BY <2>1, <2>2
<1> QED BY <1>9, <1>13, <1>15, <1>16 DEF DeviceInv

(* The second half of close keeps layer 3. *)
LEMMA ClosePutStep ==
  ASSUME ProcInv, DeviceInv, NEW p \in Proc, ClosePut(p)
  PROVE  DeviceInv'
<1>1. PICK s \in Todo(p, {"file"}) :
         /\ Valid(p, s.port) /\ adapter' = [adapter EXCEPT ![file[p][s.port]] = adapter_put(@)]
         /\ file' = [file EXCEPT ![p][s.port] = None] /\ Released(p, s) /\ pc' = pc
         /\ mode' = [mode EXCEPT ![p] = IF Tail(rel[p]) = <<>> THEN "off" ELSE @]
  BY DEF ClosePut
<1>2. s.act = "file" /\ s.port \in Port /\ s = FileStep(s.port) /\ Releasing(p) /\ s = Head(rel[p])
      /\ rel[p] # <<>>
  BY TodoFacts, NameOf
<1>3. PICK i \in Port : i = s.port /\ s = FileStep(i)
  BY <1>2
<1>4. PICK d : d = file[p][i]
  OBVIOUS
<1>5. d \in Device /\ adapter[d] \in AdapterType /\ Kept(d) /\ adapter[d].phase = "bound" /\ Owned(d)
      /\ Powered(p, i) /\ None \notin Device
  BY <1>1, <1>3, <1>4, LifecycleAssumption DEF DeviceInv, Valid, Owned, OneFile
<1>6. adapter[d].refcount = 2
  BY <1>5 DEF Kept
<1>7. PICK b : b = adapter_put(adapter[d])
  OBVIOUS
<1>8. /\ b \in AdapterType /\ b.refcount = 1 /\ b.phase = "bound" /\ b.up = adapter[d].up
      /\ b.msix = adapter[d].msix /\ b.ctx = adapter[d].ctx /\ b.posted = adapter[d].posted
  BY <1>5, <1>6, <1>7, CountFacts
<1>9. adapter' \in [Device -> AdapterType] /\ adapter'[d] = b /\ \A e \in Device \ {d} : adapter'[e] = adapter[e]
  <2>1. adapter' = [adapter EXCEPT ![d] = b]
    BY <1>1, <1>3, <1>4, <1>7
  <2> QED BY <2>1, <1>5, <1>8, OneAdapter DEF DeviceInv
<1>10. /\ file'[p][i] = None /\ \A j \in Port : j # i => file'[p][j] = file[p][j]
       /\ \A q \in Proc, j \in Port : q # p => file'[q][j] = file[q][j]
  BY <1>1, <1>3 DEF ProcInv, ProcTypes
<1>11. ASSUME NEW q \in Proc, NEW j \in Port, q # p \/ j # i
       PROVE  file'[q][j] = file[q][j] /\ file[q][j] # d
  <2>1. file'[q][j] = file[q][j]
    BY <1>10, <1>11
  <2>2. file[q][j] # d
    BY <1>1, <1>3, <1>4, <1>11 DEF DeviceInv, OneFile
  <2> QED BY <2>1, <2>2
<1>12. ~ adapter[d].up
  <2>1. /\ rel[p] \in Seq(ReleaseStep) /\ Chain(rel[p], Allowed) /\ ReleaseStep \subseteq AnyStep
    BY <1>2, ResourceIff DEF ProcInv, ProcTypes, Where
  <2>2. /\ \A r : r \in Members(Tail(rel[p])) <=> r \in Members(rel[p]) /\ r # s
        /\ \A r \in Members(Tail(rel[p])) : ~ Dep(r, s)
    BY <2>1, <1>2, TailFacts
  <2>3. DownStep(i) # s /\ Dep(DownStep(i), s)
    BY <1>3, Named DEF Dep
  <2>4. ~ NotDown(p, i)
    BY <2>2, <2>3, <1>2 DEF NotDown
  <2> QED BY <2>4, <1>4, <1>5 DEF Powered
<1>13. ASSUME NEW e \in Device, e # d PROVE Owned(e)' <=> Owned(e)
  <2>1. ASSUME NEW q \in Proc, NEW j \in Port PROVE file'[q][j] = e <=> file[q][j] = e
    <3>1. CASE q = p /\ j = i
      BY <3>1, <1>4, <1>5, <1>10, <1>13
    <3>2. CASE q # p \/ j # i
      BY <3>2, <1>11
    <3> QED BY <3>1, <3>2
  <2> QED BY <2>1 DEF Owned
<1>14. ~ Owned(d)'
  <2>1. ASSUME NEW q \in Proc, NEW j \in Port PROVE file'[q][j] # d
    <3>1. CASE q = p /\ j = i
      BY <3>1, <1>5, <1>10
    <3>2. CASE q # p \/ j # i
      BY <3>2, <1>11
    <3> QED BY <3>1, <3>2
  <2> QED BY <2>1 DEF Owned
<1>15. ASSUME NEW e \in Device PROVE Kept(e)'
  <2>1. CASE e = d
    <3>1. /\ ~ b.up
          /\ b.up <=> b.msix # "none"
          /\ ~ b.up => b.ctx = NoCtx /\ b.posted = NoRing
          /\ \A q \in Core : b.posted[q] # None => \A r \in Dir : b.ctx[<<q, r>>] # None
      BY <1>5, <1>8, <1>12 DEF Kept
    <3> QED BY <2>1, <3>1, <1>8, <1>9, <1>14 DEF Kept
  <2>2. CASE e # d
    <3>1. Alike(adapter[e], adapter'[e])
      BY <2>2, <1>9 DEF Alike
    <3> QED BY <2>2, <3>1, <1>13, KeptAlike DEF DeviceInv
  <2> QED BY <2>1, <2>2
<1>16. ASSUME NEW q \in Proc, NEW j \in Port, Valid(q, j)'
       PROVE  /\ q # p \/ j # i
              /\ Valid(q, j) /\ file'[q][j] = file[q][j] /\ file[q][j] \in Device \ {d}
  <2>1. q # p \/ j # i
    BY <1>5, <1>10, <1>16 DEF Valid
  <2> QED BY <2>1, <1>11, <1>16 DEF Valid
<1>17. OneFile'
  <2>1. ASSUME NEW q \in Proc, NEW j \in Port, Valid(q, j)' PROVE adapter'[file'[q][j]].phase = "bound"
    <3>1. Valid(q, j) /\ file'[q][j] = file[q][j] /\ file[q][j] \in Device \ {d}
      BY <2>1, <1>16
    <3> QED BY <3>1, <1>9 DEF DeviceInv, OneFile
  <2>2. ASSUME NEW q \in Proc, NEW z \in Proc, NEW j \in Port, NEW k \in Port,
               Valid(q, j)', file'[z][k] = file'[q][j]
        PROVE  q = z /\ j = k
    <3>1. Valid(z, k)'
      BY <2>2 DEF Valid
    <3>2. Valid(q, j) /\ file[z][k] = file[q][j]
      BY <2>2, <3>1, <1>16
    <3> QED BY <3>2 DEF DeviceInv, OneFile
  <2> QED BY <2>1, <2>2 DEF OneFile
<1>18. ASSUME NEW q \in Proc, NEW j \in Port, Valid(q, j)' PROVE Powered(q, j)'
  <2>1. /\ q # p \/ j # i
        /\ Valid(q, j) /\ file'[q][j] = file[q][j] /\ file[q][j] \in Device \ {d}
    BY <1>16, <1>18
  <2>2. adapter'[file[q][j]] = adapter[file[q][j]] /\ Powered(q, j)
    BY <2>1, <1>9 DEF DeviceInv
  <2>3. \/ mode' = mode
        \/ Tail(rel[p]) = <<>> /\ mode' = [mode EXCEPT ![p] = "off"]
    BY <1>1 DEF ProcInv, ProcTypes
  <2>4. /\ held'[p] = held[p] \ {s}
        /\ \A z \in Proc \ {p} : mode'[z] = mode[z] /\ pc'[z] = pc[z] /\ held'[z] = held[z] /\ rel'[z] = rel[z]
    BY <1>1, <2>3, ReleasedFacts, ZenonT(60)
  <2>5. Calm(q, j)
    <3>1. CASE q # p
      BY <3>1, <2>4, CalmFrame
    <3>2. CASE q = p
      <4>1. s # DownStep(j) /\ s # FileStep(j)
        BY <1>2, <1>3, <2>1, <3>2, Named
      <4>2. FileStep(j) \in held[p]
        BY <2>1, <3>2, FilesHeld
      <4>3. held'[p] # {}
        BY <2>4, <4>1, <4>2
      <4> QED BY <1>1, <2>3, <3>2, <4>1, <4>3, CalmReleased
    <3> QED BY <3>1, <3>2
  <2> QED BY <2>1, <2>2, <2>5, PoweredCalm
<1> QED BY <1>9, <1>15, <1>17, <1>18 DEF DeviceInv

(* A thread that gives the NIC its first slots keeps layer 3. *)
LEMMA ThreadRunStep ==
  ASSUME ProcInv, DeviceInv, NEW p \in Proc, NEW c \in Core, ThreadRun(p, c)
  PROVE  DeviceInv'
<1> DEFINE Mine(d) == \E i \in Port : file[p][i] = d
<1>0. adapter \in [Device -> AdapterType]
  BY DEF DeviceInv
<1>1. UNCHANGED <<mode, pc, rel, held, file>> /\ thr[p][c] = "new"
  BY DEF ThreadRun
<1>2. ThreadStep(c) \in held[p]
  BY <1>1 DEF ProcInv, Handles
<1>3. PICK x : x = At(mem[p]["buf"][c], 0)
  OBVIOUS
<1>4. x \in Nat
  <2>1. mem[p]["buf"][c] \in Nat
    BY <1>2, ThreadNeeds, PagesHeld DEF Pages
  <2> QED BY <1>3, <2>1, AtNat
<1>5. adapter' = [d \in Device |-> IF Mine(d) THEN rx_assign(adapter[d], c, x) ELSE adapter[d]]
  BY <1>3 DEF ThreadRun
<1>6. ASSUME NEW d \in Device, ~ Mine(d) PROVE adapter'[d] = adapter[d]
  BY <1>5, <1>6
<1>7. ASSUME NEW d \in Device, Mine(d)
      PROVE  /\ adapter'[d] \in AdapterType /\ adapter'[d].phase = adapter[d].phase
             /\ adapter'[d].refcount = adapter[d].refcount /\ adapter'[d].up = adapter[d].up
             /\ adapter'[d].msix = adapter[d].msix /\ adapter'[d].ctx = adapter[d].ctx
             /\ \A e \in Core : adapter'[d].posted[e] = IF e = c THEN x ELSE adapter[d].posted[e]
  <2>1. PICK b : b = rx_assign(adapter[d], c, x)
    OBVIOUS
  <2>2. adapter'[d] = b
    BY <1>5, <1>7, <2>1
  <2>3. adapter[d] \in AdapterType
    BY <1>0
  <2> QED BY <2>1, <2>2, <2>3, <1>4, AssignFacts
<1>8. ASSUME NEW d \in Device, Mine(d)
      PROVE  adapter[d].up /\ \A r \in Dir : adapter[d].ctx[<<c, r>>] # None
  <2>1. PICK i \in Port : file[p][i] = d
    BY <1>8
  <2>2. Powered(p, i) /\ NotDown(p, i) /\ \A r \in Dir : IrqStep(c, r, i) \in held[p]
    BY <1>2, <2>1, ThreadNeeds DEF Valid, DeviceInv
  <2> QED BY <1>2, <2>1, <2>2 DEF Powered
<1>9. \A d : Owned(d)' <=> Owned(d)
  BY <1>1 DEF Owned
<1>10. ASSUME NEW d \in Device PROVE Kept(d)'
  <2>1. Kept(d)
    BY DEF DeviceInv
  <2>2. CASE Mine(d)
    <3>1. \A q \in Core : adapter'[d].posted[q] # None => \A r \in Dir : adapter'[d].ctx[<<q, r>>] # None
      <4> SUFFICES ASSUME NEW q \in Core, adapter'[d].posted[q] # None, NEW r \in Dir
                   PROVE  adapter[d].ctx[<<q, r>>] # None
        BY <2>2, <1>7
      <4>1. CASE q = c
        BY <4>1, <2>2, <1>8
      <4>2. CASE q # c
        <5>1. adapter[d].posted[q] # None
          BY <4>2, <2>2, <1>7
        <5> QED BY <5>1, <2>1 DEF Kept
      <4> QED BY <4>1, <4>2
    <3>2. adapter'[d].phase # "absent" => adapter'[d].refcount = IF Owned(d)' THEN 2 ELSE 1
      BY <2>1, <2>2, <1>7, <1>9 DEF Kept
    <3>3. adapter'[d].up /\ adapter'[d].msix # "none" /\ Owned(d)'
      BY <2>1, <2>2, <1>7, <1>8, <1>9 DEF Kept
    <3> QED BY <3>1, <3>2, <3>3 DEF Kept
  <2>3. CASE ~ Mine(d)
    <3>1. Alike(adapter[d], adapter'[d])
      BY <2>3, <1>6 DEF Alike
    <3> QED BY <2>1, <3>1, <1>9, KeptAlike
  <2> QED BY <2>2, <2>3
<1>11. adapter' \in [Device -> AdapterType]
  <2>1. \A d \in Device : adapter'[d] \in AdapterType
    <3> HIDE DEF Mine
    <3> QED BY <1>0, <1>6, <1>7
  <2>2. adapter' = [d \in Device |-> adapter'[d]]
    BY <1>5
  <2> QED BY <2>1, <2>2
<1>12. ASSUME NEW d \in Device
       PROVE  adapter'[d].phase = adapter[d].phase /\ adapter'[d].up = adapter[d].up
              /\ adapter'[d].ctx = adapter[d].ctx
  <2> HIDE DEF Mine
  <2> QED BY <1>6, <1>7
<1>13. \A q \in Proc, i \in Port : (Valid(q, i)' <=> Valid(q, i)) /\ file'[q][i] = file[q][i]
  BY <1>1 DEF Valid
<1>14. OneFile'
  <2>1. \A q \in Proc, i \in Port : Valid(q, i) => adapter'[file[q][i]].phase = "bound"
    BY <1>12 DEF Valid, DeviceInv, OneFile
  <2> QED BY <2>1, <1>13 DEF DeviceInv, OneFile
<1>15. ASSUME NEW q \in Proc, NEW i \in Port, Valid(q, i)' PROVE Powered(q, i)'
  <2>1. file[q][i] \in Device /\ Powered(q, i) /\ file'[q][i] = file[q][i]
    BY <1>13, <1>15 DEF Valid, DeviceInv
  <2>2. Calm(q, i)
    BY <1>1, CalmFrame
  <2> QED BY <2>1, <2>2, <1>12, PoweredCalm
<1> QED BY <1>10, <1>11, <1>14, <1>15 DEF DeviceInv

(* An adapter that nobody has open is probed or given up. *)
LEMMA IdleAdapter ==
  ASSUME DeviceInv, NEW d \in Device, ~ Owned(d), UNCHANGED <<mode, pc, rel, held, file>>,
         NEW b \in AdapterType, adapter' = [adapter EXCEPT ![d] = b],
         ~ b.up, b.msix = "none", b.ctx = NoCtx, b.posted = NoRing, b.phase # "absent" => b.refcount = 1
  PROVE  DeviceInv'
<1>1. adapter' \in [Device -> AdapterType] /\ adapter'[d] = b /\ \A e \in Device \ {d} : adapter'[e] = adapter[e]
  BY OneAdapter DEF DeviceInv
<1>2. \A e : Owned(e)' <=> Owned(e)
  BY DEF Owned
<1>3. ASSUME NEW e \in Device PROVE Kept(e)'
  <2>1. CASE e = d
    <3>1. \A q \in Core : b.posted[q] = None
      BY NothingThere
    <3> QED BY <2>1, <3>1, <1>1, <1>2 DEF Kept
  <2>2. CASE e # d
    <3>1. Alike(adapter[e], adapter'[e])
      BY <2>2, <1>1 DEF Alike
    <3> QED BY <3>1, <1>2, KeptAlike DEF DeviceInv
  <2> QED BY <2>1, <2>2
<1>4. ASSUME NEW q \in Proc, NEW i \in Port, Valid(q, i)'
      PROVE  Valid(q, i) /\ file'[q][i] = file[q][i] /\ adapter'[file[q][i]] = adapter[file[q][i]]
  <2>1. file[q][i] # d /\ file[q][i] \in Device /\ file'[q][i] = file[q][i]
    BY <1>4 DEF Valid, Owned
  <2> QED BY <2>1, <1>1 DEF Valid
<1>5. OneFile'
  BY <1>4 DEF DeviceInv, OneFile
<1>6. ASSUME NEW q \in Proc, NEW i \in Port, Valid(q, i)' PROVE Powered(q, i)'
  <2>1. Calm(q, i) /\ Powered(q, i)
    BY <1>4, <1>6, CalmFrame DEF DeviceInv
  <2> QED BY <2>1, <1>4, <1>6, PoweredCalm
<1> QED BY <1>1, <1>3, <1>5, <1>6 DEF DeviceInv

(* The probe of an adapter keeps layer 3. *)
LEMMA ProbeStep ==
  ASSUME ProcInv, DeviceInv, NEW d \in Device, Probe(d)
  PROVE  DeviceInv'
<1>0. adapter \in [Device -> AdapterType] /\ adapter[d] \in AdapterType /\ UNCHANGED <<mode, pc, rel, held, file>>
  BY DEF DeviceInv, Probe, procVars
<1>1. adapter[d].phase # "bound"
  BY DEF Probe, ProbeAlloc, ProbeInit, ProbeFail, ProbeRegister
<1>2. ~ Owned(d)
  BY <1>1 DEF Owned, DeviceInv, OneFile, Valid
<1>3. /\ ~ adapter[d].up /\ adapter[d].msix = "none" /\ adapter[d].ctx = NoCtx /\ adapter[d].posted = NoRing
      /\ adapter[d].phase # "absent" => adapter[d].refcount = 1
  BY <1>2 DEF DeviceInv, Kept
<1>4. CASE ProbeAlloc(d)
  <2>1. PICK n : n = Cardinality(dev_list)
    OBVIOUS
  <2>2. n \in Nat
    <3>1. IsFiniteSet(dev_list)
      BY AdapterAssumption, FS_Subset DEF dev_list
    <3> QED BY <3>1, <2>1, FS_CardinalityType
  <2>3. PICK b : b = [Absent EXCEPT !.phase = "alloc", !.refcount = 1, !.id = n]
    OBVIOUS
  <2>4. b \in AdapterType
    <3>1. PICK x : x = [Absent EXCEPT !.phase = "alloc"]
      OBVIOUS
    <3>2. x \in AdapterType
      BY <3>1, AbsentFacts, AdapterExcept
    <3>3. PICK y : y = [x EXCEPT !.refcount = 1]
      OBVIOUS
    <3>4. y \in AdapterType
      <4>1. PICK m \in 0 .. 2 : m = 1
        OBVIOUS
      <4> QED BY <3>2, <3>3, <4>1, AdapterExcept
    <3>5. b = [y EXCEPT !.id = n]
      BY <2>3, <3>1, <3>3
    <3> QED BY <2>2, <3>4, <3>5 DEF AdapterType
  <2>5. ~ b.up /\ b.msix = "none" /\ b.ctx = NoCtx /\ b.posted = NoRing /\ b.refcount = 1
    BY <2>3, AbsentFacts DEF AdapterType
  <2>6. adapter' = [adapter EXCEPT ![d] = b]
    BY <1>4, <2>1, <2>3 DEF ProbeAlloc
  <2> QED BY <2>4, <2>5, <2>6, <1>0, <1>2, IdleAdapter
<1>5. CASE ProbeInit(d)
  <2>1. PICK c : c = dma_map(adapter[d], BarAddr, BarLen)
    OBVIOUS
  <2>2. c \in AdapterType /\ Alike(adapter[d], c)
    <3>1. BarAddr \in Nat /\ BarLen \in Nat /\ CanMap(adapter[d], BarAddr, BarLen)
      BY <1>5, AdapterAssumption DEF ProbeInit
    <3> QED BY <3>1, <2>1, <1>0, MapFacts
  <2>3. PICK b : b = [c EXCEPT !.phase = "init"]
    OBVIOUS
  <2>4. b \in AdapterType
    BY <2>2, <2>3, AdapterExcept
  <2>5. ~ b.up /\ b.msix = "none" /\ b.ctx = NoCtx /\ b.posted = NoRing /\ b.refcount = 1
    <3>1. /\ b.up = c.up /\ b.msix = c.msix /\ b.ctx = c.ctx /\ b.posted = c.posted /\ b.refcount = c.refcount
      BY <2>2, <2>3 DEF AdapterType
    <3>2. adapter[d].refcount = 1
      BY <1>3, <1>5 DEF ProbeInit
    <3> QED BY <3>1, <3>2, <2>2, <1>3 DEF Alike
  <2>6. adapter' = [adapter EXCEPT ![d] = b]
    BY <1>5, <2>1, <2>3 DEF ProbeInit, dma_map_iobase
  <2> QED BY <2>4, <2>5, <2>6, <1>0, <1>2, IdleAdapter
<1>6. CASE ProbeFail(d)
  <2>1. adapter' = [adapter EXCEPT ![d] = Absent]
    BY <1>6 DEF ProbeFail
  <2> QED BY <2>1, <1>0, <1>2, AbsentFacts, IdleAdapter
<1>7. CASE ProbeRegister(d)
  <2>1. PICK b : b = [adapter[d] EXCEPT !.phase = "bound"]
    OBVIOUS
  <2>2. b \in AdapterType
    BY <2>1, <1>0, AdapterExcept
  <2>3. ~ b.up /\ b.msix = "none" /\ b.ctx = NoCtx /\ b.posted = NoRing /\ b.refcount = 1
    <3>1. adapter[d].refcount = 1
      BY <1>3, <1>7 DEF ProbeRegister
    <3> QED BY <3>1, <2>1, <1>0, <1>3 DEF AdapterType
  <2>4. adapter' = [adapter EXCEPT ![d] = b]
    BY <1>7, <2>1 DEF ProbeRegister
  <2> QED BY <2>2, <2>3, <2>4, <1>0, <1>2, IdleAdapter
<1> QED BY <1>4, <1>5, <1>6, <1>7 DEF Probe

(* ixmap_remove keeps layer 3: the files of the adapter are left freed. *)
LEMMA RemoveStep ==
  ASSUME ProcInv, DeviceInv, NEW d \in Device, RemoveDevice(d)
  PROVE  DeviceInv'
<1>1. /\ adapter' = [adapter EXCEPT ![d] = Absent] /\ UNCHANGED <<mode, pc, rel, held>>
      /\ file' = [p \in Proc |-> [i \in Port |-> IF file[p][i] = d THEN Freed ELSE file[p][i]]]
  BY DEF RemoveDevice, ixmap_remove
<1>2. Freed \notin Device
  BY LifecycleAssumption
<1>3. adapter' \in [Device -> AdapterType] /\ adapter'[d] = Absent /\ \A e \in Device \ {d} : adapter'[e] = adapter[e]
  BY <1>1, AbsentFacts, OneAdapter DEF DeviceInv
<1>4. \A p \in Proc, i \in Port : file'[p][i] = IF file[p][i] = d THEN Freed ELSE file[p][i]
  BY <1>1
<1>5. ASSUME NEW e \in Device PROVE Owned(e)' <=> Owned(e) /\ e # d
  BY <1>2, <1>4 DEF Owned
<1>6. ASSUME NEW e \in Device PROVE Kept(e)'
  <2>1. CASE e = d
    <3>1. \A q \in Core : Absent.posted[q] = None
      BY NothingThere, AbsentFacts
    <3> QED BY <2>1, <3>1, <1>3, AbsentFacts DEF Kept
  <2>2. CASE e # d
    <3>1. Alike(adapter[e], adapter'[e])
      BY <2>2, <1>3 DEF Alike
    <3> QED BY <2>2, <3>1, <1>5, KeptAlike DEF DeviceInv
  <2> QED BY <2>1, <2>2
<1>7. ASSUME NEW q \in Proc, NEW i \in Port, Valid(q, i)'
      PROVE  Valid(q, i) /\ file'[q][i] = file[q][i] /\ adapter'[file[q][i]] = adapter[file[q][i]]
  <2>1. file[q][i] # d /\ file[q][i] \in Device /\ file'[q][i] = file[q][i]
    BY <1>2, <1>4, <1>7 DEF Valid
  <2> QED BY <2>1, <1>3 DEF Valid
<1>8. OneFile'
  <2>1. ASSUME NEW q \in Proc, NEW i \in Port, Valid(q, i)' PROVE adapter'[file'[q][i]].phase = "bound"
    BY <1>7, <2>1 DEF DeviceInv, OneFile
  <2>2. ASSUME NEW q \in Proc, NEW z \in Proc, NEW j \in Port, NEW k \in Port,
               Valid(q, j)', file'[z][k] = file'[q][j]
        PROVE  q = z /\ j = k
    <3>1. Valid(z, k)'
      BY <2>2 DEF Valid
    <3>2. Valid(q, j) /\ file[z][k] = file[q][j]
      BY <2>2, <3>1, <1>7
    <3> QED BY <3>2 DEF DeviceInv, OneFile
  <2> QED BY <2>1, <2>2 DEF OneFile
<1>9. ASSUME NEW q \in Proc, NEW i \in Port, Valid(q, i)' PROVE Powered(q, i)'
  <2>1. Calm(q, i) /\ Powered(q, i)
    BY <1>1, <1>7, <1>9, CalmFrame DEF DeviceInv
  <2> QED BY <2>1, <1>7, <1>9, PoweredCalm
<1> QED BY <1>3, <1>6, <1>8, <1>9 DEF DeviceInv

Fresh == adapter = [d \in Device |-> Absent] /\ file = [p \in Proc |-> NoFile]

(* With every device absent and no file open, layer 3 holds. *)
LEMMA DeviceFresh == Fresh => DeviceInv
<1> SUFFICES ASSUME Fresh PROVE DeviceInv
  OBVIOUS
<1>0. adapter = [d \in Device |-> Absent] /\ file = [p \in Proc |-> NoFile]
  BY DEF Fresh
<1>1. \A p \in Proc, i \in Port : ~ Valid(p, i) /\ file[p][i] \notin Device
  BY <1>0, LifecycleAssumption DEF Valid, NoFile
<1>2. \A d \in Device : Kept(d)
  <2>1. \A q \in Core : Absent.posted[q] = None
    BY NothingThere, AbsentFacts
  <2> QED BY <2>1, <1>0, <1>1, AbsentFacts DEF Kept, Owned
<1> QED BY <1>0, <1>1, <1>2, AbsentFacts DEF DeviceInv, OneFile

(* Every step keeps layer 3. *)
LEMMA DeviceStep == ProcInv /\ DeviceInv /\ [Next]_vars => DeviceInv'
<1> SUFFICES ASSUME ProcInv, DeviceInv, [Next]_vars PROVE DeviceInv'
  OBVIOUS
<1>1. ASSUME NEW p \in Proc, Main(p) PROVE DeviceInv'
  BY <1>1, DeviceQuiet, OpenFileStep, DeviceUpStep, IrqOpenStep, CloseDownStep, ClosePutStep DEF Main
<1>2. ASSUME NEW p \in Proc, Interrupt(p) \/ Crash(p) PROVE DeviceInv'
  BY <1>2, DeviceQuiet
<1>3. ASSUME NEW p \in Proc, NEW c \in Core, ThreadRun(p, c) \/ ThreadEnd(p, c) PROVE DeviceInv'
  BY <1>3, ThreadRunStep, DeviceQuiet
<1>4. ASSUME NEW d \in Device, Probe(d) \/ RemoveDevice(d) PROVE DeviceInv'
  BY <1>4, ProbeStep, RemoveStep
<1>5. CASE Reboot
  <2>1. Fresh'
    BY <1>5 DEF Reboot, Fresh
  <2> QED BY <2>1, DeviceFresh, PTL
<1>6. CASE UNCHANGED vars
  BY <1>6 DEF vars, procVars, DeviceInv, OneFile, Kept, Powered, NotDown, Passed, Now, Releasing, Owned, Valid
<1> QED BY <1>1, <1>2, <1>3, <1>4, <1>5, <1>6 DEF Next

-----------------------------------------------------------------------------
(* The bounds, and what a fault has as its cause.                          *)

CauseInv == fault \in BOOLEAN /\ mishaps \in 0 .. MaxMishap /\ lost \subseteq Block /\ FaultHasCause

(* A command that faults has a cause: an adapter removed under its file,   *)
(* or brought up without its vectors.                                      *)
LEMMA FaultCause ==
  ASSUME ProcInv, DeviceInv, NEW p \in Proc, Fault(p)
  PROVE  \/ \E q \in Proc, i \in Port : file[q][i] = Freed
         \/ \E d \in Device : adapter[d].msix = "failed"
<1>1. ASSUME NEW i \in Port, Valid(p, i), adapter[file[p][i]].up, adapter[file[p][i]].msix # "ok"
      PROVE  \E d \in Device : adapter[d].msix = "failed"
  <2>1. PICK d \in Device : d = file[p][i]
    BY <1>1 DEF Valid
  <2>2. Kept(d) /\ adapter[d] \in AdapterType
    BY DEF DeviceInv
  <2>3. adapter[d].msix \in {"none", "ok", "failed"} /\ adapter[d].msix # "none"
    BY <2>1, <2>2, <1>1, AdapterFields DEF Kept
  <2> QED BY <2>1, <2>3, <1>1
<1>2. CASE \E s \in Step(p, {"up", "rxring", "txring", "buffer", "rxirq", "txirq"}) :
             Broken(p, s.port, s.act \in {"rxirq", "txirq"})
  <2>1. PICK s \in Step(p, {"up", "rxring", "txring", "buffer", "rxirq", "txirq"}) :
             Broken(p, s.port, s.act \in {"rxirq", "txirq"})
    BY <1>2
  <2>2. s \in AnyStep /\ s.port \in Port
    BY StepFacts, NameOf DEF IsResource, IsPlain
  <2>3. CASE file[p][s.port] = Freed
    BY <2>2, <2>3
  <2>4. CASE s.act \in {"rxirq", "txirq"} /\ Valid(p, s.port) /\ adapter[file[p][s.port]].msix # "ok"
    <3>1. Passed(p, UpStep(s.port)) /\ Powered(p, s.port)
      BY <2>2, <2>4, ProgramOrder DEF DeviceInv
    <3>2. adapter[file[p][s.port]].up
      BY <3>1 DEF Powered
    <3> QED BY <2>2, <2>4, <3>2, <1>1
  <2> QED BY <2>1, <2>3, <2>4 DEF Broken
<1>3. CASE \E s \in Todo(p, {"rxring", "txring", "buffer", "down", "file"}) :
             Broken(p, s.port, s.act = "down" /\ Valid(p, s.port)
                                 /\ NeedsVectors(adapter[file[p][s.port]]))
  <2>1. PICK s \in Todo(p, {"rxring", "txring", "buffer", "down", "file"}) :
             Broken(p, s.port, s.act = "down" /\ Valid(p, s.port)
                                 /\ NeedsVectors(adapter[file[p][s.port]]))
    BY <1>3
  <2>2. s \in AnyStep /\ s.port \in Port
    BY TodoFacts, NameOf DEF IsResource, IsHalf
  <2>3. CASE file[p][s.port] = Freed
    BY <2>2, <2>3
  <2>4. CASE Valid(p, s.port) /\ NeedsVectors(adapter[file[p][s.port]]) /\ adapter[file[p][s.port]].msix # "ok"
    BY <2>2, <2>4, <1>1 DEF NeedsVectors
  <2> QED BY <2>1, <2>3, <2>4 DEF Broken
<1> QED BY <1>2, <1>3 DEF Fault

(* Every step keeps the bounds and the cause. *)
LEMMA CauseStep == ProcInv /\ DeviceInv /\ CauseInv /\ [Next]_vars => CauseInv'
<1> SUFFICES ASSUME ProcInv, DeviceInv, CauseInv, [Next]_vars PROVE CauseInv'
  OBVIOUS
<1>0. MaxMishap \in Nat /\ fault \in BOOLEAN /\ mishaps \in 0 .. MaxMishap /\ lost \subseteq Block
  BY LifecycleAssumption DEF CauseInv
<1>1. ASSUME ~ fault, fault' = fault, lost' = lost, mishaps' \in 0 .. MaxMishap PROVE CauseInv'
  BY <1>0, <1>1 DEF CauseInv, FaultHasCause
<1>2. ASSUME NEW p, NEW acts PROVE (Step(p, acts) # {} => ~ fault) /\ (Todo(p, acts) # {} => ~ fault)
  BY DEF Step, Todo
<1>3. ASSUME NEW p \in Proc, Main(p) PROVE CauseInv'
  <2>1. CASE OpenFile(p) \/ Private(p) \/ OpenQueue(p) \/ MapPages(p) \/ MapArea(p)
    <3>1. ~ fault
      BY <2>1, <1>2 DEF OpenFile, Private, OpenQueue, MapPages, MapArea
    <3> QED BY <2>1, <3>1, <1>0, <1>1 DEF OpenFile, Private, OpenQueue, MapPages, MapArea
  <2>2. CASE Registers(p) \/ IrqOpen(p) \/ CreateThread(p) \/ FailStep(p) \/ SigWait(p)
    <3>1. ~ fault
      BY <2>2, <1>2 DEF Registers, IrqOpen, CreateThread, FailStep, SigWait
    <3> QED BY <2>2, <3>1, <1>0, <1>1 DEF Registers, IrqOpen, CreateThread, FailStep, SigWait
  <2>3. CASE ThreadKill(p) \/ ThreadJoin(p) \/ ClosePrivate(p) \/ UnmapArea(p)
    <3>1. ~ fault
      BY <2>3, <1>2 DEF ThreadKill, ThreadJoin, ClosePrivate, UnmapArea
    <3> QED BY <2>3, <3>1, <1>0, <1>1 DEF ThreadKill, ThreadJoin, ClosePrivate, UnmapArea
  <2>4. CASE UnmapPages(p) \/ CloseDown(p) \/ ClosePut(p)
    <3>1. ~ fault
      BY <2>4, <1>2 DEF UnmapPages, CloseDown, ClosePut
    <3> QED BY <2>4, <3>1, <1>0, <1>1 DEF UnmapPages, CloseDown, ClosePut
  <2>5. CASE DeviceUp(p)
    <3>1. ~ fault /\ fault' = fault /\ lost' = lost
      BY <2>5, <1>2 DEF DeviceUp
    <3>2. mishaps' \in 0 .. MaxMishap
      BY <2>5, <1>0 DEF DeviceUp
    <3> QED BY <3>1, <3>2, <1>1
  <2>6. CASE Fault(p)
    <3>1. /\ \/ \E q \in Proc, i \in Port : file[q][i] = Freed
             \/ \E d \in Device : adapter[d].msix = "failed"
          /\ UNCHANGED <<file, adapter, mishaps, lost>> /\ fault' = TRUE
      BY <2>6, FaultCause DEF Fault, procVars
    <3> QED BY <3>1, <1>0 DEF CauseInv, FaultHasCause
  <2> QED BY <1>3, <2>1, <2>2, <2>3, <2>4, <2>5, <2>6 DEF Main
<1>4. ASSUME NEW p \in Proc, Interrupt(p) PROVE CauseInv'
  BY <1>0, <1>1, <1>4 DEF Interrupt
<1>5. ASSUME NEW p \in Proc, Crash(p) PROVE CauseInv'
  <2>1. ~ fault /\ fault' = fault /\ mishaps' = mishaps + 1 /\ mishaps < MaxMishap
    BY <1>5 DEF Crash, Alive
  <2>2. lost' \subseteq Block
    BY <1>0, <1>5 DEF Crash, Pinned
  <2> QED BY <2>1, <2>2, <1>0 DEF CauseInv, FaultHasCause
<1>6. ASSUME NEW p \in Proc, NEW c \in Core, ThreadRun(p, c) \/ ThreadEnd(p, c) PROVE CauseInv'
  BY <1>0, <1>1, <1>6 DEF ThreadRun, ThreadEnd, Alive
<1>7. ASSUME NEW d \in Device, Probe(d) PROVE CauseInv'
  BY <1>0, <1>1, <1>7 DEF Probe, ProbeAlloc, ProbeInit, ProbeFail, ProbeRegister, procVars
<1>8. ASSUME NEW d \in Device, RemoveDevice(d) PROVE CauseInv'
  <2>1. /\ fault' = (NeedsVectors(adapter[d]) /\ adapter[d].msix # "ok")
        /\ inuse(adapter[d]) => mishaps < MaxMishap
        /\ mishaps' = IF inuse(adapter[d]) THEN mishaps + 1 ELSE mishaps
    BY <1>8 DEF RemoveDevice, ixmap_remove
  <2>2. mishaps' \in 0 .. MaxMishap
    BY <2>1, <1>0
  <2>3. lost' \subseteq Block
    BY <1>0, <1>8 DEF RemoveDevice
  <2>4. fault' \in BOOLEAN
    BY <2>1
  <2>5. ASSUME fault' PROVE \E p \in Proc, i \in Port : file'[p][i] = Freed
    <3>1. adapter[d].up
      BY <2>1, <2>5 DEF NeedsVectors
    <3>2. Owned(d)
      BY <3>1 DEF DeviceInv, Kept
    <3>3. PICK p \in Proc, i \in Port : file[p][i] = d
      BY <3>2 DEF Owned
    <3>4. file'[p][i] = Freed
      BY <3>3, <1>8 DEF RemoveDevice
    <3> QED BY <3>4
  <2> QED BY <2>2, <2>3, <2>4, <2>5 DEF CauseInv, FaultHasCause
<1>9. CASE Reboot
  <2>1. fault' = FALSE /\ mishaps' = 0 /\ lost' = {}
    BY <1>9 DEF Reboot
  <2>2. mishaps' \in 0 .. MaxMishap /\ lost' \subseteq Block
    BY <2>1, <1>0
  <2>3. fault' \in BOOLEAN /\ ~ fault'
    BY <2>1
  <2> QED BY <2>2, <2>3 DEF CauseInv, FaultHasCause
<1>10. CASE UNCHANGED vars
  BY <1>10 DEF vars, procVars, CauseInv, FaultHasCause
<1> QED BY <1>3, <1>4, <1>5, <1>6, <1>7, <1>8, <1>9, <1>10 DEF Next

(* The layers together. *)
LEMMA LayersHold == Spec => [](ProcInv /\ DeviceInv /\ CauseInv)
<1>1. Init => ProcInv /\ DeviceInv /\ CauseInv
  <2> SUFFICES ASSUME Init PROVE ProcInv /\ DeviceInv /\ CauseInv
    OBVIOUS
  <2>1. ProcInv
    BY ProcInit
  <2>2. Fresh
    BY DEF Init, AdapterInit, Fresh
  <2>3. DeviceInv
    BY <2>2, DeviceFresh
  <2>4. CauseInv
    <3>1. fault = FALSE /\ mishaps = 0 /\ lost = {}
      BY DEF Init, AdapterInit
    <3>2. mishaps \in 0 .. MaxMishap /\ lost \subseteq Block
      BY <3>1, LifecycleAssumption
    <3>3. fault \in BOOLEAN /\ ~ fault
      BY <3>1
    <3> QED BY <3>2, <3>3 DEF CauseInv, FaultHasCause
  <2> QED BY <2>1, <2>3, <2>4
<1>2. ProcInv /\ DeviceInv /\ CauseInv /\ [Next]_vars => (ProcInv /\ DeviceInv /\ CauseInv)'
  BY ProcStep, DeviceStep, CauseStep
<1> QED BY <1>1, <1>2, PTL DEF Spec

(* The refcount counts the open files. *)
LEMMA OwnersCounted ==
  ASSUME OneFile, NEW d \in Device
  PROVE  Cardinality({x \in Proc \X Port : file[x[1]][x[2]] = d}) = IF Owned(d) THEN 1 ELSE 0
<1> DEFINE T == {x \in Proc \X Port : file[x[1]][x[2]] = d}
<1>1. CASE Owned(d)
  <2>1. PICK p \in Proc, i \in Port : file[p][i] = d
    BY <1>1 DEF Owned
  <2>2. T = {<<p, i>>}
    <3>1. <<p, i>> \in T
      BY <2>1
    <3>2. ASSUME NEW x \in T PROVE x = <<p, i>>
      <4>1. x[1] \in Proc /\ x[2] \in Port /\ x = <<x[1], x[2]>> /\ file[x[1]][x[2]] = d
        OBVIOUS
      <4>2. p = x[1] /\ i = x[2]
        BY <2>1, <4>1 DEF OneFile, Valid
      <4> QED BY <4>1, <4>2
    <3> QED BY <3>1, <3>2
  <2>3. Cardinality({<<p, i>>}) = 1
    BY FS_Singleton
  <2> QED BY <1>1, <2>2, <2>3
<1>2. CASE ~ Owned(d)
  <2>1. T = {}
    BY <1>2 DEF Owned
  <2> QED BY <1>2, <2>1, FS_EmptySet
<1> QED BY <1>1, <1>2

(* An adapter is opened by one process at a time: the refcount of a bound  *)
(* adapter is one more than the number of files that have it open, never   *)
(* more than two, and every variable has its type.  For any processes,     *)
(* adapters, ports, cores and pages, through failures, kills, removals and *)
(* restarts.                                                               *)
THEOREM LifecycleOneOwner == Spec => []OneOwner
<1>1. ProcInv /\ DeviceInv /\ CauseInv => OneOwner
  <2> SUFFICES ASSUME ProcInv, DeviceInv, CauseInv PROVE OneOwner
    OBVIOUS
  <2>1. TypeOK
    <3>1. adapter \in [Device -> AdapterType] /\ fault \in BOOLEAN /\ mishaps \in 0 .. MaxMishap /\ lost \subseteq Block
      BY DEF DeviceInv, CauseInv
    <3>2. /\ mode \in [Proc -> {"off", "start", "wait", "release", "dying", "aborted"}]
          /\ pc \in [Proc -> 1 .. Len(Startup)]
          /\ \A p \in Proc : held[p] \subseteq Resource /\ usr1[p] \subseteq Core
      BY DEF ProcInv, ProcTypes, Mode
    <3>3. /\ file \in [Proc -> [Port -> Device \cup {None, Freed}]]
          /\ mem \in [Proc -> [{"desc", "buf"} -> [Core -> Block \cup {None}]]]
          /\ thr \in [Proc -> [Core -> {"none", "new", "running", "ended"}]]
          /\ sigint \in [Proc -> BOOLEAN]
      BY DEF ProcInv, ProcTypes, Pages
    <3> QED BY <3>1, <3>2, <3>3 DEF TypeOK
  <2>2. ASSUME NEW d \in Bound
        PROVE  /\ adapter[d].refcount = 1 + Cardinality({x \in Proc \X Port : file[x[1]][x[2]] = d})
               /\ adapter[d].refcount <= 2
    <3>1. d \in Device /\ adapter[d].phase = "bound"
      BY DEF Bound
    <3>2. adapter[d].refcount = IF Owned(d) THEN 2 ELSE 1
      BY <3>1 DEF DeviceInv, Kept
    <3>3. PICK n : n = Cardinality({x \in Proc \X Port : file[x[1]][x[2]] = d})
      OBVIOUS
    <3>4. n = IF Owned(d) THEN 1 ELSE 0
      BY <3>1, <3>3, OwnersCounted DEF DeviceInv
    <3> QED BY <3>2, <3>3, <3>4
  <2> QED BY <2>1, <2>2 DEF OneOwner
<1> QED BY <1>1, LayersHold, PTL

(* However a process ended, an adapter that nobody has open is down: no    *)
(* vectors, no eventfd, no slots with the NIC.                             *)
THEOREM LifecycleIdleIsDown == Spec => []IdleIsDown
<1>1. DeviceInv => IdleIsDown
  BY DEF DeviceInv, Kept, Owned, IdleIsDown, Bound
<1> QED BY <1>1, LayersHold, PTL

(* The kernel uses freed memory only after an adapter was removed under a  *)
(* process or brought up without its vectors.                              *)
THEOREM LifecycleFaultHasCause == Spec => []FaultHasCause
<1>1. CauseInv => FaultHasCause
  BY DEF CauseInv
<1> QED BY <1>1, LayersHold, PTL

(* The NIC has slots of a queue only when both eventfds of the queue are   *)
(* registered, so that no interrupt masks the queue for good.              *)
THEOREM LifecycleInterruptsHeard == Spec => []InterruptsHeard
<1>1. DeviceInv => InterruptsHeard
  BY DEF DeviceInv, Kept, InterruptsHeard, Bound
<1> QED BY <1>1, LayersHold, PTL

-----------------------------------------------------------------------------
(* Layer 4: the DMA areas and the pages under them.                        *)

Bar == [addr |-> BarAddr, len |-> BarLen]
Apart(x, y) == x.addr + x.len <= y.addr \/ y.addr + y.len <= x.addr
Within(a, b) == At(b, 0) <= a /\ a < At(b + 1, 0)
Inside(x, b) == At(b, 0) <= x.addr /\ x.addr + x.len <= At(b + 1, 0)

\* The order of the list, for any two of its areas.
Sorted(s) == /\ \A j, k \in 1 .. Len(s) : j < k => s[j].addr + s[j].len <= s[k].addr
             /\ \A k \in 1 .. Len(s) : s[k].len # 0

(* A block ends where the next begins. *)
LEMMA BlockEnd ==
  ASSUME NEW b \in Nat
  PROVE  /\ At(b, 0) \in Nat /\ At(b + 1, 0) \in Nat /\ At(b + 1, 0) = At(b, 0) + BlockLen
         /\ At(b, 0) = b * BlockLen
         /\ \A x \in Nat : At(b, x) = At(b, 0) + x
<1>1. BlockLen \in Nat
  BY OffNat
<1>2. b * BlockLen \in Nat
  BY <1>1
<1>3. (b + 1) * BlockLen = b * BlockLen + BlockLen
  BY <1>1
<1> QED BY <1>1, <1>2, <1>3 DEF At

(* Blocks do not overlap. *)
LEMMA BlocksApart ==
  ASSUME NEW b \in Nat, NEW e \in Nat, b # e
  PROVE  At(b + 1, 0) <= At(e, 0) \/ At(e + 1, 0) <= At(b, 0)
<1>0. BlockLen \in Nat
  BY OffNat
<1>1. ASSUME NEW x \in Nat, NEW y \in Nat, x < y PROVE At(x + 1, 0) <= At(y, 0)
  <2>1. PICK n \in Nat : y = (x + 1) + n
    <3>1. y - (x + 1) \in Nat /\ y = (x + 1) + (y - (x + 1))
      BY <1>1
    <3> QED BY <3>1
  <2>2. y * BlockLen = (x + 1) * BlockLen + n * BlockLen
    BY <1>0, <2>1
  <2>3. n * BlockLen \in Nat /\ (x + 1) * BlockLen \in Nat
    BY <1>0, <2>1
  <2> QED BY <2>2, <2>3 DEF At
<1>2. b < e \/ e < b
  OBVIOUS
<1> QED BY <1>1, <1>2

(* What lies in two blocks lies apart. *)
LEMMA InsideApart ==
  ASSUME NEW x \in Area, NEW y \in Area, NEW b \in Nat, NEW e \in Nat, Inside(x, b), Inside(y, e), b # e
  PROVE  Apart(x, y)
<1>1. At(b + 1, 0) <= At(e, 0) \/ At(e + 1, 0) <= At(b, 0)
  BY BlocksApart
<1>2. At(b, 0) \in Nat /\ At(b + 1, 0) \in Nat /\ At(e, 0) \in Nat /\ At(e + 1, 0) \in Nat
  BY BlockEnd
<1>3. x.addr \in Nat /\ x.len \in Nat /\ y.addr \in Nat /\ y.len \in Nat
  BY DEF Area
<1> QED BY <1>1, <1>2, <1>3 DEF Inside, Apart

(* The address of an area inside a block, and no address is in two blocks. *)
LEMMA WithinOne ==
  ASSUME NEW b \in Nat
  PROVE  /\ \A x \in Area : Inside(x, b) /\ x.len # 0 => Within(x.addr, b)
         /\ \A a \in Nat, e \in Nat : Within(a, b) /\ Within(a, e) => b = e
<1>0. At(b, 0) \in Nat /\ At(b + 1, 0) \in Nat
  BY BlockEnd
<1>1. ASSUME NEW x \in Area, Inside(x, b), x.len # 0 PROVE Within(x.addr, b)
  <2>1. x.addr \in Nat /\ x.len \in Nat
    BY DEF Area
  <2> QED BY <2>1, <1>0, <1>1 DEF Inside, Within
<1>2. ASSUME NEW a \in Nat, NEW e \in Nat, Within(a, b), Within(a, e), b # e PROVE FALSE
  <2>1. At(b + 1, 0) <= At(e, 0) \/ At(e + 1, 0) <= At(b, 0)
    BY <1>2, BlocksApart
  <2>2. At(e, 0) \in Nat /\ At(e + 1, 0) \in Nat
    BY BlockEnd
  <2> QED BY <2>1, <2>2, <1>0, <1>2 DEF Within
<1> QED BY <1>1, <1>2

(* The registers are not in a block. *)
LEMMA BarApart ==
  ASSUME NEW b \in Block
  PROVE  /\ Bar \in Area /\ Bar.len # 0 /\ Bar.addr = BarAddr
         /\ ~ Within(BarAddr, b)
         /\ \A x \in Area : Inside(x, b) => Apart(x, Bar)
<1>1. BarAddr \in Nat /\ BarLen \in Nat \ {0} /\ b \in Nat /\ BlockLen \in Nat
  BY AdapterAssumption, LifecycleAssumption
<1>2. b * BlockLen + BlockLen <= BarAddr \/ BarAddr + BarLen <= b * BlockLen
  BY LifecycleAssumption
<1>3. At(b, 0) = b * BlockLen /\ At(b + 1, 0) = At(b, 0) + BlockLen /\ At(b, 0) \in Nat
  BY <1>1, BlockEnd
<1>4. At(b + 1, 0) <= BarAddr \/ BarAddr + BarLen <= At(b, 0)
  BY <1>2, <1>3
<1>5. Bar \in Area /\ Bar.len # 0 /\ Bar.addr = BarAddr /\ Bar.len = BarLen
  BY <1>1 DEF Bar, Area
<1>6. At(b + 1, 0) \in Nat
  BY <1>1, <1>3
<1>7. ~ Within(BarAddr, b)
  BY <1>1, <1>3, <1>4, <1>6 DEF Within
<1>8. ASSUME NEW x \in Area, Inside(x, b) PROVE Apart(x, Bar)
  <2>1. x.addr \in Nat /\ x.len \in Nat
    BY DEF Area
  <2> QED BY <2>1, <1>1, <1>3, <1>4, <1>5, <1>6, <1>8 DEF Inside, Apart
<1> QED BY <1>5, <1>7, <1>8

(* The rings of a port fit into the block. *)
LEMMA RingsFit ==
  ASSUME NEW i \in Port
  PROVE  /\ TxOff(i) = RxOff(i) + RxLen /\ TxOff(i) + RxLen <= BlockLen
         /\ RxOff(i) \in Nat /\ TxOff(i) \in Nat
<1>1. RxLen \in Nat /\ BlockLen \in Nat /\ NumPorts \in Nat /\ BlockLen >= 2 * RxLen * NumPorts
  BY LifecycleAssumption
<1>2. i \in Nat /\ i + 1 <= NumPorts
  BY Sizes, <1>1 DEF Port
<1>3. PICK k \in Nat : k = 2 * RxLen
  BY <1>1
<1>4. PICK n \in Nat : NumPorts = (i + 1) + n
  <2>1. NumPorts - (i + 1) \in Nat /\ NumPorts = (i + 1) + (NumPorts - (i + 1))
    BY <1>1, <1>2
  <2> QED BY <2>1
<1>5. k * NumPorts = k * i + k + k * n
  BY <1>2, <1>3, <1>4
<1>6. k * i \in Nat /\ k * n \in Nat
  BY <1>2, <1>3, <1>4
<1>7. RxOff(i) = k * i /\ TxOff(i) = k * i + RxLen /\ 2 * RxLen * NumPorts = k * NumPorts
  BY <1>3 DEF RxOff, TxOff
<1> QED BY <1>1, <1>3, <1>5, <1>6, <1>7

(* An area lies in the block of its pages. *)
LEMMA AreaInside ==
  ASSUME NEW p \in Proc, NEW s \in Resource, IsArea(s), NEW b \in Nat, b = mem[p][s.call][s.core]
  PROVE  AreaOf(p, s) \in Area /\ AreaOf(p, s).len # 0 /\ Inside(AreaOf(p, s), b)
<1>0. AreaOf(p, s) \in Area /\ AreaOf(p, s).len # 0
  BY AreaTyped
<1>1. s.port \in Port /\ s.call = IF s.act = "buffer" THEN "buf" ELSE "desc"
  BY AreaNeeds
<1>2. /\ TxOff(s.port) = RxOff(s.port) + RxLen /\ TxOff(s.port) + RxLen <= BlockLen
      /\ RxOff(s.port) \in Nat /\ TxOff(s.port) \in Nat
      /\ RxLen \in Nat /\ TxLen \in Nat /\ TxLen <= RxLen /\ BlockLen \in Nat
  BY <1>1, RingsFit, OffNat
<1>3. /\ At(b, 0) \in Nat /\ At(b + 1, 0) = At(b, 0) + BlockLen
      /\ At(b, RxOff(s.port)) = At(b, 0) + RxOff(s.port) /\ At(b, TxOff(s.port)) = At(b, 0) + TxOff(s.port)
  BY <1>2, BlockEnd
<1>4. CASE s.act = "rxring"
  <2>1. AreaOf(p, s).addr = At(b, RxOff(s.port)) /\ AreaOf(p, s).len = RxLen
    BY <1>1, <1>4 DEF AreaOf
  <2> QED BY <2>1, <1>0, <1>2, <1>3 DEF Inside
<1>5. CASE s.act = "txring"
  <2>1. AreaOf(p, s).addr = At(b, TxOff(s.port)) /\ AreaOf(p, s).len = TxLen
    BY <1>1, <1>5 DEF AreaOf
  <2> QED BY <2>1, <1>0, <1>2, <1>3 DEF Inside
<1>6. CASE s.act = "buffer"
  <2>1. AreaOf(p, s).addr = At(b, 0) /\ AreaOf(p, s).len = BlockLen
    BY <1>1, <1>6 DEF AreaOf
  <2> QED BY <2>1, <1>0, <1>2, <1>3 DEF Inside
<1> QED BY <1>4, <1>5, <1>6 DEF IsArea

(* Two areas of one process on one port lie apart. *)
LEMMA AreasApart ==
  ASSUME NEW p \in Proc, NEW s \in Resource, NEW t \in Resource, IsArea(s), IsArea(t), s # t,
         s.port = t.port, NEW b \in Nat, NEW e \in Nat,
         b = mem[p][s.call][s.core], e = mem[p][t.call][t.core],
         b = e => s.call = t.call /\ s.core = t.core
  PROVE  Apart(AreaOf(p, s), AreaOf(p, t))
<1>1. CASE b # e
  BY <1>1, AreaInside, InsideApart
<1>2. CASE b = e
  <2>1. s.call = t.call /\ s.core = t.core
    BY <1>2
  <2>2. s.act # t.act
    <3>1. s = S(s.call, s.act, s.core, s.port) /\ t = S(t.call, t.act, t.core, t.port)
      BY ResourceIff, StepOf
    <3> QED BY <2>1, <3>1
  <2>3. /\ s.call = IF s.act = "buffer" THEN "buf" ELSE "desc"
        /\ t.call = IF t.act = "buffer" THEN "buf" ELSE "desc"
        /\ s.port \in Port
    BY AreaNeeds
  <2>4. s.call = "desc" /\ s.act \in {"rxring", "txring"} /\ t.act \in {"rxring", "txring"}
    BY <2>1, <2>2, <2>3 DEF IsArea
  <2>5. PICK x : x = At(b, 0)
    OBVIOUS
  <2>6. /\ x \in Nat /\ TxOff(s.port) = RxOff(s.port) + RxLen /\ RxOff(s.port) \in Nat /\ RxLen \in Nat /\ TxLen \in Nat
        /\ At(b, RxOff(s.port)) = x + RxOff(s.port) /\ At(b, TxOff(s.port)) = x + TxOff(s.port)
    BY <2>3, <2>5, RingsFit, BlockEnd, OffNat
  <2>7. CASE s.act = "rxring"
    <3>1. AreaOf(p, s).addr = x + RxOff(s.port) /\ AreaOf(p, s).len = RxLen
      BY <2>4, <2>6, <2>7 DEF AreaOf
    <3>2. AreaOf(p, t).addr = x + TxOff(s.port)
      BY <1>2, <2>1, <2>2, <2>4, <2>6, <2>7 DEF AreaOf
    <3> QED BY <3>1, <3>2, <2>6 DEF Apart
  <2>8. CASE s.act = "txring"
    <3>1. AreaOf(p, s).addr = x + TxOff(s.port)
      BY <2>4, <2>6, <2>8 DEF AreaOf
    <3>2. AreaOf(p, t).addr = x + RxOff(s.port) /\ AreaOf(p, t).len = RxLen
      BY <1>2, <2>1, <2>2, <2>4, <2>6, <2>8 DEF AreaOf
    <3> QED BY <3>1, <3>2, <2>6 DEF Apart
  <2> QED BY <2>4, <2>7, <2>8
<1> QED BY <1>1, <1>2

(* IXMAP_MAP keeps the order, if the new area lies apart from the others:  *)
(* whereto alone would not find an area that the new one surrounds.        *)
LEMMA SortedInsert ==
  ASSUME NEW s \in Seq(Area), Sorted(s), NEW e \in Area, e.len # 0,
         \A x \in Members(s) : Apart(e, x),
         NEW w, w = whereto(s, e.addr, e.len), w \in 0 .. Len(s),
         NEW t, t = InsertAt(s, w + 1, e)
  PROVE  Sorted(t)
<1>1. /\ e.addr \in Nat /\ e.len \in Nat /\ e.len > 0 /\ Len(s) \in Nat
      /\ \A k \in 1 .. Len(s) : s[k].addr \in Nat /\ s[k].len \in Nat /\ s[k].len # 0
  <2>1. Len(s) \in Nat /\ \A k \in 1 .. Len(s) : s[k] \in Area
    OBVIOUS
  <2> QED BY <2>1 DEF Area, Sorted
<1>2. /\ \A k \in 1 .. w : e.addr + e.len > s[k].addr
      /\ w < Len(s) => e.addr + e.len <= s[w + 1].addr
  <2>1. PICK a \in Nat, l \in Nat : a = e.addr /\ l = e.len
    BY <1>1
  <2>2. w = whereto(s, a, l) /\ w # -1
    BY <2>1, <1>1
  <2>3. /\ \A k \in 1 .. w : a + l > s[k].addr
        /\ w < Len(s) => a + l <= s[w + 1].addr
    BY <2>2, WheretoFacts
  <2> QED BY <2>1, <2>3
<1>3. ASSUME NEW k \in 1 .. Len(s), k <= w PROVE s[k].addr + s[k].len <= e.addr
  <2>1. Apart(e, s[k])
    BY DEF Members
  <2>2. e.addr + e.len > s[k].addr
    BY <1>2, <1>3
  <2> QED BY <2>1, <2>2, <1>1 DEF Apart
<1>4. ASSUME NEW k \in 1 .. Len(s), w < k PROVE e.addr + e.len <= s[k].addr
  <2>1. e.addr + e.len <= s[w + 1].addr
    BY <1>1, <1>2, <1>4
  <2>2. CASE k = w + 1
    BY <2>1, <2>2
  <2>3. CASE k # w + 1
    <3>1. w + 1 \in 1 .. Len(s) /\ w + 1 < k
      BY <1>1, <1>4, <2>3
    <3>2. s[w + 1].addr + s[w + 1].len <= s[k].addr
      BY <3>1 DEF Sorted
    <3> QED BY <2>1, <3>1, <3>2, <1>1, SMTT(40)
  <2> QED BY <2>2, <2>3
<1>5. /\ t \in Seq(Area) /\ Len(t) = Len(s) + 1
      /\ \A k \in 1 .. Len(t) : t[k] = IF k < w + 1 THEN s[k] ELSE IF k = w + 1 THEN e ELSE s[k - 1]
  <2>1. w + 1 \in 1 .. Len(s) + 1
    BY <1>1
  <2> QED BY <2>1, InsertFacts
<1>6. ASSUME NEW k \in 1 .. Len(t)
      PROVE  /\ k <= w => k \in 1 .. Len(s) /\ t[k] = s[k]
             /\ k = w + 1 => t[k] = e
             /\ k > w + 1 => k - 1 \in 1 .. Len(s) /\ k - 1 > w /\ t[k] = s[k - 1]
  BY <1>1, <1>5
<1>7. ASSUME NEW k \in 1 .. Len(t) PROVE t[k].len # 0
  <2>1. k <= w \/ k = w + 1 \/ k > w + 1
    BY <1>1, <1>5
  <2> QED BY <2>1, <1>1, <1>6
<1>8. ASSUME NEW j \in 1 .. Len(t), NEW k \in 1 .. Len(t), j < k PROVE t[j].addr + t[j].len <= t[k].addr
  <2>1. CASE k <= w
    <3>1. j <= w /\ j \in 1 .. Len(s) /\ k \in 1 .. Len(s) /\ t[j] = s[j] /\ t[k] = s[k]
      BY <1>1, <1>5, <1>6, <1>8, <2>1
    <3> QED BY <3>1, <1>8 DEF Sorted
  <2>2. CASE k = w + 1
    <3>1. j <= w /\ j \in 1 .. Len(s) /\ t[j] = s[j] /\ t[k] = e
      BY <1>1, <1>5, <1>6, <1>8, <2>2
    <3> QED BY <3>1, <1>3
  <2>3. CASE k > w + 1
    <3>1. k - 1 \in 1 .. Len(s) /\ k - 1 > w /\ t[k] = s[k - 1]
      BY <1>6, <2>3
    <3>2. CASE j <= w
      <4>1. j \in 1 .. Len(s) /\ t[j] = s[j] /\ j < k - 1
        BY <1>1, <1>5, <1>6, <3>1, <3>2
      <4> QED BY <3>1, <4>1 DEF Sorted
    <3>3. CASE j = w + 1
      <4>1. t[j] = e
        BY <1>6, <3>3
      <4> QED BY <3>1, <4>1, <1>4
    <3>4. CASE j > w + 1
      <4>1. j - 1 \in 1 .. Len(s) /\ t[j] = s[j - 1] /\ j - 1 < k - 1
        BY <1>6, <1>8, <3>4
      <4> QED BY <3>1, <4>1 DEF Sorted
    <3> QED BY <1>1, <1>5, <3>2, <3>3, <3>4
  <2> QED BY <1>1, <1>5, <2>1, <2>2, <2>3
<1> QED BY <1>7, <1>8 DEF Sorted

(* IXMAP_UNMAP keeps the order. *)
LEMMA SortedRemove ==
  ASSUME NEW s \in Seq(Area), Sorted(s), NEW i \in 1 .. Len(s), NEW t, t = RemoveAt(s, i)
  PROVE  Sorted(t)
<1>1. /\ t \in Seq(Area) /\ Len(t) = Len(s) - 1 /\ Len(s) \in Nat
      /\ \A k \in 1 .. Len(t) : t[k] = IF k < i THEN s[k] ELSE s[k + 1]
  BY RemoveFacts
<1>2. PICK f : f = [k \in 1 .. Len(t) |-> IF k < i THEN k ELSE k + 1]
  OBVIOUS
<1>3. ASSUME NEW k \in 1 .. Len(t) PROVE f[k] \in 1 .. Len(s) /\ t[k] = s[f[k]]
  BY <1>1, <1>2
<1>4. ASSUME NEW j \in 1 .. Len(t), NEW k \in 1 .. Len(t), j < k PROVE f[j] < f[k]
  BY <1>1, <1>2, <1>4
<1>5. ASSUME NEW k \in 1 .. Len(t) PROVE t[k].len # 0
  BY <1>3 DEF Sorted
<1>6. ASSUME NEW j \in 1 .. Len(t), NEW k \in 1 .. Len(t), j < k PROVE t[j].addr + t[j].len <= t[k].addr
  BY <1>3, <1>4, <1>6 DEF Sorted
<1> QED BY <1>5, <1>6 DEF Sorted

(* In a sorted list no two areas begin at one address. *)
LEMMA SortedUnique ==
  ASSUME NEW s \in Seq(Area), Sorted(s), NEW j \in 1 .. Len(s), NEW k \in 1 .. Len(s), s[j].addr = s[k].addr
  PROVE  j = k
<1>1. /\ Len(s) \in Nat /\ s[j] \in Area /\ s[k] \in Area
  OBVIOUS
<1>2. s[j].addr \in Nat /\ s[j].len \in Nat \ {0} /\ s[k].len \in Nat \ {0}
  BY <1>1 DEF Area, Sorted
<1>3. (j < k => s[j].addr + s[j].len <= s[k].addr) /\ (k < j => s[k].addr + s[k].len <= s[j].addr)
  BY DEF Sorted
<1> QED BY <1>1, <1>2, <1>3

\* The process has the area s mapped, and on adapter d.
Has(p, s, d) == s \in held[p] /\ IsArea(s) /\ file[p][s.port] = d

\* An area is the registers, or one that a process holds, or was left by a
\* process that was killed.
Accounted(d, x) == \/ x = Bar
                   \/ \E p \in Proc : \E s \in held[p] : Has(p, s, d) /\ x = AreaOf(p, s)
                   \/ \E b \in lost : Inside(x, b)

\* The list of areas of an adapter.
Listed(d) == LET a == adapter[d] IN
  /\ Sorted(a.areas)
  /\ a.phase \in {"absent", "alloc"} => a.areas = <<>>
  /\ a.phase = "init" => \A x \in Members(a.areas) : x = Bar
  /\ \A x \in Members(a.areas) : Accounted(d, x)

\* What a process holds on an adapter is in the list.
Backed == \A p \in Proc, d \in Device : \A s \in held[p] :
  Has(p, s, d) => AreaOf(p, s) \in Members(adapter[d].areas)

\* No page is mapped twice.
PagesApart == \A p, q \in Proc, k, l \in Pages, c, e \in Core :
  mem[p][k][c] # None /\ mem[p][k][c] = mem[q][l][e] => p = q /\ k = l /\ c = e

PinnedBlock(b) == \E d \in Device : \E x \in Members(adapter[d].areas) : Within(x.addr, b)

\* The pages of processes that were killed are pinned, and nobody maps them.
LostPages == \A b \in lost : PinnedBlock(b) /\ \A p \in Proc, k \in Pages, c \in Core : mem[p][k][c] # b

AreaInv == (\A d \in Device : Listed(d)) /\ Backed /\ PagesApart /\ LostPages

(* Pinned and InUse by their elements. *)
LEMMA PinnedIff ==
  ASSUME NEW b \in Block
  PROVE  /\ b \in Pinned <=> PinnedBlock(b)
         /\ b \in InUse <=> \E p \in Proc, k \in Pages, c \in Core : mem[p][k][c] = b
<1>1. ASSUME NEW s, NEW a
      PROVE  a \in Addresses(s) <=> \E x \in Members(s) : x.addr = a
  BY DEF Addresses, Members
<1>2. b \in Pinned <=> PinnedBlock(b)
  BY <1>1 DEF Pinned, PinnedBlock, Within
<1>3. b \in InUse <=> \E p \in Proc, k \in Pages, c \in Core : mem[p][k][c] = b
  BY DEF InUse, Pages
<1> QED BY <1>2, <1>3

(* An area that a process holds, its pages and its file. *)
LEMMA HasFacts ==
  ASSUME ProcInv, NEW p \in Proc, NEW s, NEW d, Has(p, s, d)
  PROVE  /\ s \in Resource /\ IsArea(s) /\ s \in held[p] /\ s.port \in Port /\ s.core \in Core /\ s.call \in Pages
         /\ PageOf(s) \in held[p] /\ FileStep(s.port) \in held[p]
         /\ mem[p][s.call][s.core] \in Block /\ mem[p][s.call][s.core] \in Nat /\ mem[p][s.call][s.core] # None
         /\ AreaOf(p, s) \in Area /\ AreaOf(p, s).len # 0
         /\ Inside(AreaOf(p, s), mem[p][s.call][s.core])
         /\ Within(AreaOf(p, s).addr, mem[p][s.call][s.core])
<1>1. s \in Resource /\ IsArea(s) /\ s \in held[p]
  BY DEF Has, ProcInv, ProcTypes
<1>2. s.port \in Port /\ s.core \in Core /\ s.call \in Pages /\ PageOf(s) \in held[p] /\ FileStep(s.port) \in held[p]
  BY <1>1, AreaNeeds, HeldClosed
<1>3. PICK b : b = mem[p][s.call][s.core]
  OBVIOUS
<1>4. b \in Block /\ b \in Nat /\ b # None
  BY <1>2, <1>3, PagesHeld DEF PageOf
<1>5. AreaOf(p, s) \in Area /\ AreaOf(p, s).len # 0 /\ Inside(AreaOf(p, s), b)
  BY <1>1, <1>3, <1>4, AreaInside
<1>6. Within(AreaOf(p, s).addr, b)
  BY <1>4, <1>5, WithinOne
<1> QED BY <1>1, <1>2, <1>3, <1>4, <1>5, <1>6

(* An area stays where it is as long as its page does. *)
LEMMA AreaSame ==
  ASSUME NEW p \in Proc, NEW s \in Resource, IsArea(s), mem'[p][s.call][s.core] = mem[p][s.call][s.core]
  PROVE  AreaOf(p, s)' = AreaOf(p, s)
<1>1. s.call = IF s.act = "buffer" THEN "buf" ELSE "desc"
  BY AreaNeeds
<1>2. CASE s.act = "buffer"
  BY <1>1, <1>2 DEF AreaOf, At
<1>3. CASE s.act = "rxring"
  BY <1>1, <1>3 DEF AreaOf, At, RxOff
<1>4. CASE s.act = "txring"
  BY <1>1, <1>4 DEF AreaOf, At, TxOff
<1> QED BY <1>2, <1>3, <1>4 DEF IsArea

(* Layer 4 is kept by a step after which every process has the same areas. *)
LEMMA AreaFrame ==
  ASSUME AreaInv, lost' = lost,
         \A d \in Device : /\ adapter'[d].areas = adapter[d].areas
                           /\ adapter'[d].phase \in {adapter[d].phase, "bound"},
         \A p \in Proc, d \in Device : \A s : /\ Has(p, s, d)' <=> Has(p, s, d)
                                              /\ Has(p, s, d) => AreaOf(p, s)' = AreaOf(p, s),
         PagesApart', LostPages'
  PROVE  AreaInv'
<1>1. ASSUME NEW d \in Device, NEW x, Accounted(d, x) PROVE Accounted(d, x)'
  <2>1. CASE x = Bar
    BY <2>1 DEF Accounted
  <2>2. CASE \E p \in Proc : \E s \in held[p] : Has(p, s, d) /\ x = AreaOf(p, s)
    <3>1. PICK p \in Proc : \E s \in held[p] : Has(p, s, d) /\ x = AreaOf(p, s)
      BY <2>2
    <3>2. PICK s \in held[p] : Has(p, s, d) /\ x = AreaOf(p, s)
      BY <3>1
    <3>3. Has(p, s, d)' /\ x = AreaOf(p, s)'
      BY <3>2
    <3>4. s \in held'[p]
      BY <3>3 DEF Has
    <3> QED BY <3>3, <3>4 DEF Accounted
  <2>3. CASE \E b \in lost : Inside(x, b)
    BY <2>3 DEF Accounted, Inside, At
  <2> QED BY <1>1, <2>1, <2>2, <2>3 DEF Accounted
<1>2. ASSUME NEW d \in Device PROVE Listed(d)'
  <2>1. PICK a, b : a = adapter[d] /\ b = adapter'[d]
    OBVIOUS
  <2>2. b.areas = a.areas /\ b.phase \in {a.phase, "bound"} /\ Listed(d)
    BY <2>1 DEF AreaInv
  <2>3. Sorted(b.areas)
    BY <2>1, <2>2 DEF Listed
  <2>4. b.phase \in {"absent", "alloc"} => b.areas = <<>>
    BY <2>1, <2>2 DEF Listed
  <2>5. b.phase = "init" => \A x \in Members(b.areas) : x = Bar
    BY <2>1, <2>2 DEF Listed
  <2>6. ASSUME NEW x \in Members(b.areas) PROVE Accounted(d, x)'
    BY <2>1, <2>2, <1>1 DEF Listed
  <2> QED BY <2>1, <2>3, <2>4, <2>5, <2>6 DEF Listed
<1>3. ASSUME NEW p \in Proc, NEW d \in Device, NEW s \in held'[p], Has(p, s, d)'
      PROVE  AreaOf(p, s)' \in Members(adapter'[d].areas)
  <2>1. Has(p, s, d) /\ AreaOf(p, s)' = AreaOf(p, s)
    BY <1>3
  <2>2. s \in held[p]
    BY <2>1 DEF Has
  <2>3. AreaOf(p, s) \in Members(adapter[d].areas)
    BY <2>1, <2>2 DEF AreaInv, Backed
  <2> QED BY <2>1, <2>3
<1>4. Backed'
  BY <1>3 DEF Backed
<1> QED BY <1>2, <1>4 DEF AreaInv

(* A step that changes no pages, files or areas. *)
LEMMA AreaQuiet ==
  ASSUME ProcInv, AreaInv, lost' = lost, file' = file, mem' = mem,
         \A d \in Device : /\ adapter'[d].areas = adapter[d].areas
                           /\ adapter'[d].phase \in {adapter[d].phase, "bound"},
         \A p \in Proc : \A s : IsArea(s) => (s \in held'[p] <=> s \in held[p])
  PROVE  AreaInv'
<1>1. PagesApart'
  BY DEF AreaInv, PagesApart
<1>2. LostPages'
  <2>1. \A b : PinnedBlock(b) => PinnedBlock(b)'
    BY DEF PinnedBlock, Within, At
  <2> QED BY <2>1 DEF AreaInv, LostPages
<1>3. ASSUME NEW p \in Proc, NEW d \in Device, NEW s
      PROVE  /\ Has(p, s, d)' <=> Has(p, s, d)
             /\ Has(p, s, d) => AreaOf(p, s)' = AreaOf(p, s)
  BY HasFacts, AreaSame DEF Has
<1> QED BY <1>1, <1>2, <1>3, AreaFrame

(* The steps of main that map nothing leave the areas it holds. *)
LEMMA AreasHeld ==
  ASSUME ProcInv, NEW p \in Proc, NEW acts
  PROVE  /\ \A s \in Step(p, acts) :
              /\ acts \cap {"rxring", "txring", "buffer"} = {}
              /\ Acquired(p, s) \/ Failed(p, s, held[p]) \/ Failed(p, s, held[p] \cup {s})
              => \A q \in Proc : \A t : IsArea(t) => (t \in held'[q] <=> t \in held[q])
         /\ \A s \in Todo(p, acts) :
              acts \cap {"rxring", "txring", "buffer"} = {} /\ Released(p, s)
              => \A q \in Proc : \A t : IsArea(t) => (t \in held'[q] <=> t \in held[q])
<1>0. held \in [Proc -> SUBSET Resource]
  BY DEF ProcInv, ProcTypes
<1>1. ASSUME NEW s \in Step(p, acts), acts \cap {"rxring", "txring", "buffer"} = {},
             Acquired(p, s) \/ Failed(p, s, held[p]) \/ Failed(p, s, held[p] \cup {s}),
             NEW q \in Proc, NEW t, IsArea(t)
      PROVE  t \in held'[q] <=> t \in held[q]
  <2>1. s.act \in acts
    BY StepFacts
  <2>2. t # s
    BY <1>1, <2>1 DEF IsArea
  <2> QED BY <1>0, <1>1, <2>2 DEF Acquired, Failed
<1>2. ASSUME NEW s \in Todo(p, acts), acts \cap {"rxring", "txring", "buffer"} = {}, Released(p, s),
             NEW q \in Proc, NEW t, IsArea(t)
      PROVE  t \in held'[q] <=> t \in held[q]
  <2>1. s.act \in acts
    BY TodoFacts
  <2>2. t # s
    BY <1>2, <2>1 DEF IsArea
  <2> QED BY <1>0, <1>2, <2>2 DEF Released
<1> QED BY <1>1, <1>2

(* A command that leaves the areas of its adapter. *)
LEMMA OneAreas ==
  ASSUME adapter \in [Device -> AdapterType], NEW d \in Device, NEW b, adapter' = [adapter EXCEPT ![d] = b],
         b.areas = adapter[d].areas, b.phase = adapter[d].phase
  PROVE  \A e \in Device : /\ adapter'[e].areas = adapter[e].areas
                           /\ adapter'[e].phase \in {adapter[e].phase, "bound"}
OBVIOUS

(* The commands that have nothing to do with areas. *)
LEMMA KeepsAreas ==
  ASSUME NEW a \in AdapterType, NEW b
  PROVE  /\ \A g : b = configure(a, g) => b.areas = a.areas /\ b.phase = a.phase
         /\ \A q, x : b = rx_assign(a, q, x) => b.areas = a.areas /\ b.phase = a.phase
         /\ \A v, p : b = irq_assign(a, v, p) => b.areas = a.areas /\ b.phase = a.phase
         /\ \A m \in {"ok", "failed"} : b = cmd_up(a, m) => b.areas = a.areas /\ b.phase = a.phase
         /\ b = cmd_down(a) => b.areas = a.areas /\ b.phase = a.phase
<1>1. \A g : b = configure(a, g) => b.areas = a.areas /\ b.phase = a.phase
  BY DEF configure, AdapterType
<1>2. \A q, x : b = rx_assign(a, q, x) => b.areas = a.areas /\ b.phase = a.phase
  BY DEF rx_assign, AdapterType
<1>3. \A v, p : b = irq_assign(a, v, p) => b.areas = a.areas /\ b.phase = a.phase
  BY DEF irq_assign, AdapterType
<1>4. ASSUME NEW m \in {"ok", "failed"}, b = cmd_up(a, m) PROVE b.areas = a.areas /\ b.phase = a.phase
  BY <1>4 DEF cmd_up, ixmap_up, configure_msix, AdapterType
<1>5. ASSUME b = cmd_down(a) PROVE b.areas = a.areas /\ b.phase = a.phase
  BY <1>5, DownFacts
<1> QED BY <1>1, <1>2, <1>3, <1>4, <1>5

(* The steps of the processes that map and unmap nothing, and the last     *)
(* step of a probe, keep layer 4.                                          *)
LEMMA AreaQuietSteps ==
  ASSUME ProcInv, DeviceInv, AreaInv, NEW p \in Proc,
         \/ Private(p) \/ OpenQueue(p) \/ DeviceUp(p) \/ Registers(p) \/ IrqOpen(p) \/ CreateThread(p)
         \/ FailStep(p) \/ SigWait(p) \/ ThreadKill(p) \/ ThreadJoin(p) \/ ClosePrivate(p)
         \/ CloseDown(p) \/ Fault(p) \/ Interrupt(p)
         \/ \E c \in Core : ThreadRun(p, c) \/ ThreadEnd(p, c)
  PROVE  AreaInv'
<1> DEFINE SameHeld == \A q \in Proc : \A t : IsArea(t) => (t \in held'[q] <=> t \in held[q])
           SameAreas == \A d \in Device : /\ adapter'[d].areas = adapter[d].areas
                                          /\ adapter'[d].phase \in {adapter[d].phase, "bound"}
<1>0. adapter \in [Device -> AdapterType] /\ held \in [Proc -> SUBSET Resource]
  BY DEF DeviceInv, ProcInv, ProcTypes
<1>1. ASSUME adapter' = adapter PROVE SameAreas
  BY <1>1
<1>2. ASSUME held' = held PROVE SameHeld
  BY <1>2
<1>3. ASSUME SameHeld, SameAreas, UNCHANGED <<file, mem, lost>> PROVE AreaInv'
  BY <1>3, AreaQuiet
<1>4. ASSUME NEW d \in Device, NEW b, adapter' = [adapter EXCEPT ![d] = b],
             \/ \E g : b = configure(adapter[d], g)
             \/ \E v, q : b = irq_assign(adapter[d], v, q)
             \/ \E m \in {"ok", "failed"} : b = cmd_up(adapter[d], m)
             \/ b = cmd_down(adapter[d])
      PROVE  SameAreas
  <2>1. b.areas = adapter[d].areas /\ b.phase = adapter[d].phase
    BY <1>0, <1>4, KeepsAreas
  <2> QED BY <1>0, <1>4, <2>1, OneAreas
<1> HIDE DEF SameHeld, SameAreas
<1>5. CASE Private(p)
  <2>1. PICK s \in Step(p, {"bar", "rings", "slots", "pool", "mask", "alloc"}) :
           Acquired(p, s) /\ UNCHANGED <<adapter, file, mem, lost>>
    BY <1>5 DEF Private
  <2>2. SameHeld
    BY <2>1, AreasHeld DEF SameHeld
  <2> QED BY <2>1, <2>2, <1>1, <1>3
<1>6. CASE OpenQueue(p)
  <2>1. PICK s \in Step(p, {"queue"}) : AcquiredOrFailed(p, s) /\ UNCHANGED <<adapter, file, mem, lost>>
    BY <1>6 DEF OpenQueue
  <2>2. SameHeld
    BY <2>1, AreasHeld DEF SameHeld, AcquiredOrFailed
  <2> QED BY <2>1, <2>2, <1>1, <1>3
<1>7. CASE DeviceUp(p)
  <2>1. PICK s \in Step(p, {"up"}), m \in {"ok", "failed"} :
           /\ Valid(p, s.port) /\ Acquired(p, s) /\ UNCHANGED <<file, mem, lost>>
           /\ adapter' = [adapter EXCEPT ![file[p][s.port]] = cmd_up(@, m)]
    BY <1>7 DEF DeviceUp
  <2>2. SameHeld
    BY <2>1, AreasHeld DEF SameHeld
  <2>3. PICK d, b : d = file[p][s.port] /\ b = cmd_up(adapter[d], m)
    OBVIOUS
  <2>4. d \in Device /\ adapter' = [adapter EXCEPT ![d] = b]
    BY <2>1, <2>3 DEF Valid
  <2> QED BY <2>1, <2>2, <2>3, <2>4, <1>3, <1>4
<1>8. CASE Registers(p)
  <2>1. PICK s \in Step(p, {"registers"}) :
           /\ Acquired(p, s) /\ UNCHANGED <<file, mem, lost>>
           /\ adapter' = IF ~Valid(p, s.port) THEN adapter
                         ELSE [adapter EXCEPT ![file[p][s.port]] =
                                 configure(@, [q \in Core |->
                                     [rx |-> configure_rx_ring(p, q, s.port),
                                      tx |-> configure_tx_ring(p, q, s.port)]])]
    BY <1>8 DEF Registers
  <2>2. SameHeld
    BY <2>1, AreasHeld DEF SameHeld
  <2>3. SameAreas
    <3>1. CASE ~ Valid(p, s.port)
      BY <2>1, <3>1, <1>1
    <3>2. CASE Valid(p, s.port)
      <4>1. PICK g : g = [q \in Core |-> [rx |-> configure_rx_ring(p, q, s.port),
                                          tx |-> configure_tx_ring(p, q, s.port)]]
        OBVIOUS
      <4>2. PICK d, b : d = file[p][s.port] /\ b = configure(adapter[d], g)
        OBVIOUS
      <4>3. d \in Device /\ adapter' = [adapter EXCEPT ![d] = b]
        BY <2>1, <3>2, <4>1, <4>2 DEF Valid
      <4> QED BY <4>2, <4>3, <1>4
    <3> QED BY <3>1, <3>2
  <2> QED BY <2>1, <2>2, <2>3, <1>3
<1>9. CASE IrqOpen(p)
  <2>1. PICK s \in Step(p, {"rxirq", "txirq"}) :
           /\ Valid(p, s.port) /\ AcquiredOrFailed(p, s) /\ UNCHANGED <<file, mem, lost>>
           /\ adapter' = [adapter EXCEPT ![file[p][s.port]] =
                            irq_assign(@, <<s.core, IF s.act = "rxirq" THEN "rx" ELSE "tx">>, p)]
    BY <1>9 DEF IrqOpen
  <2>2. SameHeld
    BY <2>1, AreasHeld DEF SameHeld, AcquiredOrFailed
  <2>3. PICK v : v = <<s.core, IF s.act = "rxirq" THEN "rx" ELSE "tx">>
    OBVIOUS
  <2>4. PICK d, b : d = file[p][s.port] /\ b = irq_assign(adapter[d], v, p)
    OBVIOUS
  <2>5. d \in Device /\ adapter' = [adapter EXCEPT ![d] = b]
    BY <2>1, <2>3, <2>4 DEF Valid
  <2> QED BY <2>1, <2>2, <2>4, <2>5, <1>3, <1>4
<1>10. CASE CreateThread(p)
  <2>1. PICK s \in Step(p, {"thread"}) : Acquired(p, s) /\ UNCHANGED <<adapter, file, mem, lost>>
    BY <1>10 DEF CreateThread
  <2>2. SameHeld
    BY <2>1, AreasHeld DEF SameHeld
  <2> QED BY <2>1, <2>2, <1>1, <1>3
<1>11. CASE FailStep(p)
  <2>1. held' = held /\ UNCHANGED <<adapter, file, mem, lost>>
    BY <1>0, <1>11 DEF FailStep, Failed
  <2> QED BY <2>1, <1>1, <1>2, <1>3
<1>12. CASE SigWait(p)
  BY <1>12, <1>1, <1>2, <1>3 DEF SigWait
<1>13. CASE ThreadKill(p)
  <2>1. PICK s \in Todo(p, {"kill"}) : Released(p, s) /\ UNCHANGED <<adapter, file, mem, lost>>
    BY <1>13 DEF ThreadKill
  <2>2. SameHeld
    BY <2>1, AreasHeld DEF SameHeld
  <2> QED BY <2>1, <2>2, <1>1, <1>3
<1>14. CASE ThreadJoin(p)
  <2>1. PICK s \in Todo(p, {"thread"}) : Released(p, s) /\ UNCHANGED <<adapter, file, mem, lost>>
    BY <1>14 DEF ThreadJoin
  <2>2. SameHeld
    BY <2>1, AreasHeld DEF SameHeld
  <2> QED BY <2>1, <2>2, <1>1, <1>3
<1>15. CASE ClosePrivate(p)
  <2>1. PICK s \in Todo(p, {"rxirq", "txirq", "queue"}) : Released(p, s) /\ UNCHANGED <<adapter, file, mem, lost>>
    BY <1>15 DEF ClosePrivate
  <2>2. SameHeld
    BY <2>1, AreasHeld DEF SameHeld
  <2> QED BY <2>1, <2>2, <1>1, <1>3
<1>16. CASE CloseDown(p)
  <2>1. PICK s \in Todo(p, {"down"}) :
           /\ Valid(p, s.port) /\ Released(p, s) /\ UNCHANGED <<file, mem, lost>>
           /\ adapter' = [adapter EXCEPT ![file[p][s.port]] = cmd_down(@)]
    BY <1>16 DEF CloseDown
  <2>2. SameHeld
    BY <2>1, AreasHeld DEF SameHeld
  <2>3. PICK d, b : d = file[p][s.port] /\ b = cmd_down(adapter[d])
    OBVIOUS
  <2>4. d \in Device /\ adapter' = [adapter EXCEPT ![d] = b]
    BY <2>1, <2>3 DEF Valid
  <2> QED BY <2>1, <2>2, <2>3, <2>4, <1>3, <1>4
<1>17. CASE Fault(p)
  BY <1>17, <1>1, <1>2, <1>3 DEF Fault, procVars
<1>18. CASE Interrupt(p)
  BY <1>18, <1>1, <1>2, <1>3 DEF Interrupt
<1>19. CASE \E c \in Core : ThreadRun(p, c)
  <2>1. PICK c \in Core : ThreadRun(p, c)
    BY <1>19
  <2>2. UNCHANGED <<held, file, mem, lost>>
    BY <2>1 DEF ThreadRun
  <2>3. PICK x : x = At(mem[p]["buf"][c], 0)
    OBVIOUS
  <2>4. ASSUME NEW d \in Device
        PROVE  adapter'[d].areas = adapter[d].areas /\ adapter'[d].phase = adapter[d].phase
    <3>1. PICK b : b = rx_assign(adapter[d], c, x)
      OBVIOUS
    <3>2. adapter'[d] = adapter[d] \/ adapter'[d] = b
      BY <2>1, <2>3, <3>1 DEF ThreadRun
    <3>3. b.areas = adapter[d].areas /\ b.phase = adapter[d].phase
      BY <3>1, <1>0, KeepsAreas
    <3> QED BY <3>2, <3>3
  <2>5. SameAreas
    BY <2>4 DEF SameAreas
  <2> QED BY <2>2, <2>5, <1>2, <1>3
<1>20. CASE \E c \in Core : ThreadEnd(p, c)
  BY <1>20, <1>1, <1>2, <1>3 DEF ThreadEnd
<1> QED BY <1>5, <1>6, <1>7, <1>8, <1>9, <1>10, <1>11, <1>12, <1>13, <1>14, <1>15, <1>16, <1>17,
           <1>18, <1>19, <1>20

(* What is released next, nothing that is still held depends on. *)
LEMMA ReleaseLast ==
  ASSUME ProcInv, NEW p \in Proc, NEW acts, NEW s \in Todo(p, acts), NEW t \in held[p], t # s
  PROVE  ~ Dep(t, s)
<1>1. s = Head(rel[p]) /\ rel[p] # <<>> /\ Releasing(p)
  BY TodoFacts
<1>2. /\ rel[p] \in Seq(ReleaseStep) /\ Chain(rel[p], Allowed) /\ ReleaseStep \subseteq AnyStep
      /\ held[p] = Members(rel[p]) \cap Resource
  BY <1>1, ResourceIff DEF ProcInv, ProcTypes, Where
<1>3. /\ \A r : r \in Members(Tail(rel[p])) <=> r \in Members(rel[p]) /\ r # s
      /\ \A r \in Members(Tail(rel[p])) : ~ Dep(r, s)
  BY <1>1, <1>2, TailFacts
<1> QED BY <1>2, <1>3

(* mmap of huge pages keeps layer 4. *)
LEMMA MapPagesArea ==
  ASSUME ProcInv, CauseInv, AreaInv, NEW p \in Proc, MapPages(p)
  PROVE  AreaInv'
<1>1. PICK s \in Step(p, {"mmap"}) :
         /\ \E b \in Block \ (Pinned \cup InUse) : mem' = [mem EXCEPT ![p][s.call][s.core] = b]
         /\ Acquired(p, s) /\ UNCHANGED <<adapter, file, lost>>
  BY DEF MapPages
<1>2. PICK b \in Block : b \notin Pinned /\ b \notin InUse /\ mem' = [mem EXCEPT ![p][s.call][s.core] = b]
  BY <1>1
<1>3. s.core \in Core /\ s.call \in Pages /\ s = PageStep(s.call, s.core) /\ s \notin held[p]
  BY StepFacts, NameOf
<1>4. PICK k \in Pages, c \in Core : k = s.call /\ c = s.core
  BY <1>3
<1>5. /\ mem'[p][k][c] = b
      /\ \A q \in Proc, l \in Pages, e \in Core : q # p \/ l # k \/ e # c => mem'[q][l][e] = mem[q][l][e]
  BY <1>2, <1>4 DEF ProcInv, ProcTypes
<1>6. \A q \in Proc, l \in Pages, e \in Core : mem[q][l][e] # b
  BY <1>2, PinnedIff
<1>7. PagesApart'
  <2> SUFFICES ASSUME NEW q \in Proc, NEW z \in Proc, NEW l \in Pages, NEW m \in Pages,
                      NEW e \in Core, NEW f \in Core,
                      mem'[q][l][e] # None, mem'[q][l][e] = mem'[z][m][f]
               PROVE  q = z /\ l = m /\ e = f
    BY DEF PagesApart
  <2>1. CASE q = p /\ l = k /\ e = c
    BY <2>1, <1>5, <1>6
  <2>2. CASE z = p /\ m = k /\ f = c
    BY <2>2, <1>5, <1>6
  <2>3. CASE (q # p \/ l # k \/ e # c) /\ (z # p \/ m # k \/ f # c)
    BY <2>3, <1>5 DEF AreaInv, PagesApart
  <2> QED BY <2>1, <2>2, <2>3
<1>8. LostPages'
  <2> SUFFICES ASSUME NEW x \in lost
               PROVE  PinnedBlock(x)' /\ \A q \in Proc, l \in Pages, e \in Core : mem'[q][l][e] # x
    BY <1>1 DEF LostPages
  <2>1. x \in Block /\ PinnedBlock(x) /\ \A q \in Proc, l \in Pages, e \in Core : mem[q][l][e] # x
    BY DEF CauseInv, AreaInv, LostPages
  <2>2. PinnedBlock(x)'
    BY <2>1, <1>1 DEF PinnedBlock, Within, At
  <2>3. x # b
    BY <2>1, <1>2, PinnedIff
  <2> QED BY <2>1, <2>2, <2>3, <1>5
<1>9. ASSUME NEW q \in Proc, NEW d \in Device, NEW t
      PROVE  /\ Has(q, t, d)' <=> Has(q, t, d)
             /\ Has(q, t, d) => AreaOf(q, t)' = AreaOf(q, t)
  <2>1. Has(q, t, d)' <=> Has(q, t, d)
    BY <1>1, AreasHeld DEF Has
  <2>2. ASSUME Has(q, t, d) PROVE AreaOf(q, t)' = AreaOf(q, t)
    <3>1. t \in Resource /\ IsArea(t) /\ t.call \in Pages /\ t.core \in Core /\ PageStep(t.call, t.core) \in held[q]
      BY <2>2, HasFacts DEF PageOf
    <3>2. q # p \/ t.call # k \/ t.core # c
      BY <3>1, <1>3, <1>4
    <3> QED BY <3>1, <3>2, <1>5, AreaSame
  <2> QED BY <2>1, <2>2
<1> QED BY <1>1, <1>7, <1>8, <1>9, AreaFrame

(* munmap of huge pages keeps layer 4: no area in them is held any more. *)
LEMMA UnmapPagesArea ==
  ASSUME ProcInv, CauseInv, AreaInv, NEW p \in Proc, UnmapPages(p)
  PROVE  AreaInv'
<1>1. PICK s \in Todo(p, {"mmap"}) :
         /\ mem' = [mem EXCEPT ![p][s.call][s.core] = None]
         /\ Released(p, s) /\ UNCHANGED <<adapter, file, lost>>
  BY DEF UnmapPages
<1>2. s.core \in Core /\ s.call \in Pages /\ s = PageStep(s.call, s.core) /\ s.act = "mmap"
  BY TodoFacts, NameOf
<1>3. PICK k \in Pages, c \in Core : k = s.call /\ c = s.core
  BY <1>2
<1>4. /\ mem'[p][k][c] = None
      /\ \A q \in Proc, l \in Pages, e \in Core : q # p \/ l # k \/ e # c => mem'[q][l][e] = mem[q][l][e]
  BY <1>1, <1>3 DEF ProcInv, ProcTypes
<1>5. PagesApart'
  <2> SUFFICES ASSUME NEW q \in Proc, NEW z \in Proc, NEW l \in Pages, NEW m \in Pages,
                      NEW e \in Core, NEW f \in Core,
                      mem'[q][l][e] # None, mem'[q][l][e] = mem'[z][m][f]
               PROVE  q = z /\ l = m /\ e = f
    BY DEF PagesApart
  <2>1. (q # p \/ l # k \/ e # c) /\ (z # p \/ m # k \/ f # c)
    BY <1>4
  <2> QED BY <2>1, <1>4 DEF AreaInv, PagesApart
<1>6. LostPages'
  <2> SUFFICES ASSUME NEW x \in lost
               PROVE  PinnedBlock(x)' /\ \A q \in Proc, l \in Pages, e \in Core : mem'[q][l][e] # x
    BY <1>1 DEF LostPages
  <2>1. PinnedBlock(x) /\ \A q \in Proc, l \in Pages, e \in Core : mem[q][l][e] # x
    BY DEF AreaInv, LostPages
  <2>2. PinnedBlock(x)'
    BY <2>1, <1>1 DEF PinnedBlock, Within, At
  <2>3. x # None
    BY LifecycleAssumption DEF CauseInv
  <2> QED BY <2>1, <2>2, <2>3, <1>4
<1>7. ASSUME NEW q \in Proc, NEW d \in Device, NEW t
      PROVE  /\ Has(q, t, d)' <=> Has(q, t, d)
             /\ Has(q, t, d) => AreaOf(q, t)' = AreaOf(q, t)
  <2>1. Has(q, t, d)' <=> Has(q, t, d)
    BY <1>1, AreasHeld DEF Has
  <2>2. ASSUME Has(q, t, d) PROVE AreaOf(q, t)' = AreaOf(q, t)
    <3>1. t \in Resource /\ IsArea(t) /\ t.call \in Pages /\ t.core \in Core /\ t \in held[q]
      BY <2>2, HasFacts
    <3>2. Dep(t, PageStep(t.call, t.core)) /\ t # s
      BY <3>1, <1>2, AreaNeeds DEF PageOf, IsArea
    <3>3. q # p \/ t.call # k \/ t.core # c
      BY <3>1, <3>2, <1>1, <1>2, <1>3, ReleaseLast
    <3> QED BY <3>1, <3>3, <1>4, AreaSame
  <2> QED BY <2>1, <2>2
<1> QED BY <1>1, <1>5, <1>6, <1>7, AreaFrame

(* open keeps layer 4: the process has no area on the port yet. *)
LEMMA OpenFileArea ==
  ASSUME ProcInv, DeviceInv, AreaInv, NEW p \in Proc, OpenFile(p)
  PROVE  AreaInv'
<1>1. PICK s \in Step(p, {"file"}), d \in Bound :
         /\ ~ inuse(adapter[d]) /\ adapter' = [adapter EXCEPT ![d] = adapter_get(@)]
         /\ file' = [file EXCEPT ![p][s.port] = d] /\ Acquired(p, s) /\ UNCHANGED <<mem, lost>>
  BY DEF OpenFile
<1>2. s.port \in Port /\ s = FileStep(s.port) /\ s \notin held[p]
  BY StepFacts, NameOf
<1>3. PICK b : b = adapter_get(adapter[d])
  OBVIOUS
<1>4. d \in Device /\ adapter[d] \in AdapterType /\ adapter[d].refcount = 1 /\ adapter \in [Device -> AdapterType]
  BY <1>1 DEF Bound, DeviceInv, inuse
<1>5. b.areas = adapter[d].areas /\ b.phase = adapter[d].phase
  BY <1>3, <1>4 DEF adapter_get, AdapterType
<1>6. \A e \in Device : /\ adapter'[e].areas = adapter[e].areas
                        /\ adapter'[e].phase \in {adapter[e].phase, "bound"}
  <2>1. adapter' = [adapter EXCEPT ![d] = b]
    BY <1>1, <1>3
  <2> QED BY <2>1, <1>4, <1>5, OneAreas
<1>7. PagesApart'
  BY <1>1 DEF AreaInv, PagesApart
<1>8. LostPages'
  <2>1. \A x : PinnedBlock(x) => PinnedBlock(x)'
    BY <1>6 DEF PinnedBlock, Within, At
  <2> QED BY <2>1, <1>1 DEF AreaInv, LostPages
<1>9. \A q \in Proc, j \in Port : q # p \/ j # s.port => file'[q][j] = file[q][j]
  BY <1>1, <1>2 DEF ProcInv, ProcTypes
<1>10. ASSUME NEW q \in Proc, NEW e \in Device, NEW t
       PROVE  /\ Has(q, t, e)' <=> Has(q, t, e)
              /\ Has(q, t, e) => AreaOf(q, t)' = AreaOf(q, t)
  <2>1. ASSUME t \in held[q], IsArea(t) PROVE t.port \in Port /\ (q # p \/ t.port # s.port) /\ t \in Resource
    <3>1. Has(q, t, file[q][t.port])
      BY <2>1 DEF Has
    <3>2. t.port \in Port /\ FileStep(t.port) \in held[q] /\ t \in Resource
      BY <3>1, HasFacts
    <3> QED BY <3>2, <1>2
  <2>2. IsArea(t) => (t \in held'[q] <=> t \in held[q])
    BY <1>1, AreasHeld
  <2>3. t \in held[q] /\ IsArea(t) => file'[q][t.port] = file[q][t.port]
    BY <2>1, <1>9
  <2>4. Has(q, t, e)' <=> Has(q, t, e)
    BY <2>2, <2>3 DEF Has
  <2>5. Has(q, t, e) => AreaOf(q, t)' = AreaOf(q, t)
    BY <2>1, <1>1, AreaSame DEF Has
  <2> QED BY <2>4, <2>5
<1> QED BY <1>1, <1>6, <1>7, <1>8, <1>10, AreaFrame

(* close keeps layer 4: the process has no area on the port any more. *)
LEMMA ClosePutArea ==
  ASSUME ProcInv, DeviceInv, AreaInv, NEW p \in Proc, ClosePut(p)
  PROVE  AreaInv'
<1>1. PICK s \in Todo(p, {"file"}) :
         /\ Valid(p, s.port) /\ adapter' = [adapter EXCEPT ![file[p][s.port]] = adapter_put(@)]
         /\ file' = [file EXCEPT ![p][s.port] = None] /\ Released(p, s) /\ UNCHANGED <<mem, lost>>
  BY DEF ClosePut
<1>2. s.port \in Port /\ s = FileStep(s.port) /\ s.act = "file"
  BY TodoFacts, NameOf
<1>3. PICK d : d = file[p][s.port]
  OBVIOUS
<1>4. PICK b : b = adapter_put(adapter[d])
  OBVIOUS
<1>5. d \in Device /\ adapter[d] \in AdapterType /\ adapter \in [Device -> AdapterType]
  BY <1>1, <1>3 DEF Valid, DeviceInv
<1>6. b.areas = adapter[d].areas /\ b.phase = adapter[d].phase
  BY <1>4, <1>5 DEF adapter_put, AdapterType
<1>7. \A e \in Device : /\ adapter'[e].areas = adapter[e].areas
                        /\ adapter'[e].phase \in {adapter[e].phase, "bound"}
  <2>1. adapter' = [adapter EXCEPT ![d] = b]
    BY <1>1, <1>3, <1>4
  <2> QED BY <2>1, <1>5, <1>6, OneAreas
<1>8. PagesApart'
  BY <1>1 DEF AreaInv, PagesApart
<1>9. LostPages'
  <2>1. \A x : PinnedBlock(x) => PinnedBlock(x)'
    BY <1>7 DEF PinnedBlock, Within, At
  <2> QED BY <2>1, <1>1 DEF AreaInv, LostPages
<1>10. \A q \in Proc, j \in Port : q # p \/ j # s.port => file'[q][j] = file[q][j]
  BY <1>1, <1>2 DEF ProcInv, ProcTypes
<1>11. ASSUME NEW q \in Proc, NEW e \in Device, NEW t
       PROVE  /\ Has(q, t, e)' <=> Has(q, t, e)
              /\ Has(q, t, e) => AreaOf(q, t)' = AreaOf(q, t)
  <2>1. ASSUME t \in held[q], IsArea(t) PROVE t.port \in Port /\ (q # p \/ t.port # s.port) /\ t \in Resource
    <3>1. Has(q, t, file[q][t.port])
      BY <2>1 DEF Has
    <3>2. t.port \in Port /\ t \in Resource
      BY <3>1, HasFacts
    <3>3. Dep(t, FileStep(t.port)) /\ t # s
      BY <3>2, <2>1, <1>2, AreaNeeds DEF IsArea
    <3> QED BY <2>1, <3>2, <3>3, <1>1, <1>2, ReleaseLast
  <2>2. IsArea(t) => (t \in held'[q] <=> t \in held[q])
    BY <1>1, AreasHeld
  <2>3. t \in held[q] /\ IsArea(t) => file'[q][t.port] = file[q][t.port]
    BY <2>1, <1>10
  <2>4. Has(q, t, e)' <=> Has(q, t, e)
    BY <2>2, <2>3 DEF Has
  <2>5. Has(q, t, e) => AreaOf(q, t)' = AreaOf(q, t)
    BY <2>1, <1>1, AreaSame DEF Has
  <2> QED BY <2>4, <2>5
<1> QED BY <1>1, <1>7, <1>8, <1>9, <1>11, AreaFrame

(* A process maps areas of its own file and pages only. *)
LEMMA SameFile ==
  ASSUME ProcInv, DeviceInv, AreaInv, NEW p \in Proc, NEW s \in Resource, IsArea(s), Valid(p, s.port),
         PageOf(s) \in held[p], NEW q \in Proc, NEW t, Has(q, t, file[p][s.port]), t # s
  PROVE  q = p /\ t.port = s.port /\ Apart(AreaOf(p, s), AreaOf(q, t))
<1>1. t \in Resource /\ IsArea(t) /\ t.port \in Port /\ t.core \in Core /\ t.call \in Pages
  BY HasFacts
<1>2. s.port \in Port /\ s.core \in Core /\ s.call \in Pages
  BY AreaNeeds
<1>3. file[q][t.port] = file[p][s.port]
  BY DEF Has
<1>4. q = p /\ t.port = s.port
  BY <1>1, <1>2, <1>3 DEF DeviceInv, OneFile
<1>5. PICK b : b = mem[p][s.call][s.core]
  OBVIOUS
<1>6. PICK e : e = mem[p][t.call][t.core]
  OBVIOUS
<1>7. b \in Nat /\ b # None
  BY <1>2, <1>5, PagesHeld DEF PageOf
<1>8. e \in Nat
  BY <1>4, <1>6, HasFacts
<1>9. ASSUME b = e PROVE s.call = t.call /\ s.core = t.core
  <2>1. PICK k \in Pages, l \in Pages, c \in Core, f \in Core : k = s.call /\ l = t.call /\ c = s.core /\ f = t.core
    BY <1>1, <1>2
  <2>2. mem[p][k][c] # None /\ mem[p][k][c] = mem[p][l][f]
    BY <2>1, <1>5, <1>6, <1>7, <1>9
  <2>3. PagesApart
    BY DEF AreaInv
  <2>4. k = l /\ c = f
    BY <2>2, <2>3 DEF PagesApart
  <2> QED BY <2>1, <2>4
<1>10. Apart(AreaOf(p, s), AreaOf(p, t))
  BY <1>1, <1>4, <1>5, <1>6, <1>7, <1>8, <1>9, AreasApart
<1> QED BY <1>4, <1>10

(* IXMAP_MAP keeps layer 4. *)
LEMMA MapAreaArea ==
  ASSUME ProcInv, DeviceInv, CauseInv, AreaInv, NEW p \in Proc, MapArea(p)
  PROVE  AreaInv'
<1>1. PICK s \in Step(p, {"rxring", "txring", "buffer"}) :
         /\ Valid(p, s.port)
         /\ CanMap(adapter[file[p][s.port]], AreaOf(p, s).addr, AreaOf(p, s).len)
         /\ adapter' = [adapter EXCEPT ![file[p][s.port]] = dma_map(@, AreaOf(p, s).addr, AreaOf(p, s).len)]
         /\ Acquired(p, s) \/ AcquiredOrFailed(p, s)
         /\ UNCHANGED <<file, mem, lost>>
  BY DEF MapArea
<1>2. s \in Resource /\ IsArea(s) /\ s \notin held[p]
  BY StepFacts DEF IsPlain, IsArea
<1>3. s.port \in Port /\ s.core \in Core /\ s.call \in Pages /\ PageOf(s) \in held[p]
  BY <1>2, AreaNeeds, StepNeeds
<1>4. PICK m : m = mem[p][s.call][s.core]
  OBVIOUS
<1>5. m \in Block /\ m \in Nat
  BY <1>3, <1>4, PagesHeld DEF PageOf
<1>6. PICK x : x = AreaOf(p, s)
  OBVIOUS
<1>7. x \in Area /\ x.len # 0 /\ Inside(x, m)
  BY <1>2, <1>4, <1>5, <1>6, AreaInside
<1>8. x.addr \in Nat /\ x.len \in Nat /\ x = [addr |-> x.addr, len |-> x.len]
  BY <1>7 DEF Area
<1>9. PICK d : d = file[p][s.port]
  OBVIOUS
<1>10. d \in Device /\ adapter[d] \in AdapterType /\ adapter[d].phase = "bound" /\ adapter \in [Device -> AdapterType]
  BY <1>1, <1>3, <1>9 DEF Valid, DeviceInv, OneFile
<1>11. PICK b : b = dma_map(adapter[d], x.addr, x.len)
  OBVIOUS
<1>12. PICK w : w = whereto(adapter[d].areas, x.addr, x.len)
  OBVIOUS
<1>13. CanMap(adapter[d], x.addr, x.len)
  BY <1>1, <1>6, <1>9
<1>14. b \in AdapterType /\ Alike(adapter[d], b)
  BY <1>8, <1>10, <1>11, <1>13, MapFacts
<1>15. w \in 0 .. Len(adapter[d].areas) /\ b.areas = InsertAt(adapter[d].areas, w + 1, x)
  BY <1>8, <1>10, <1>11, <1>12, <1>13, MapFacts
<1>16. \A y : y \in Members(b.areas) <=> y \in Members(adapter[d].areas) \/ y = x
  BY <1>8, <1>10, <1>11, <1>13, MapFacts
<1>17. adapter'[d] = b /\ \A e \in Device \ {d} : adapter'[e] = adapter[e]
  <2>1. adapter' = [adapter EXCEPT ![d] = b]
    BY <1>1, <1>6, <1>9, <1>11
  <2> QED BY <2>1, <1>10, <1>14, OneAdapter
<1>18. adapter[d].areas \in Seq(Area)
  BY <1>10, AdapterFields
<1>19. ASSUME NEW y \in Members(adapter[d].areas) PROVE Apart(x, y)
  <2>1. Accounted(d, y)
    BY <1>10 DEF AreaInv, Listed
  <2>2. CASE y = Bar
    BY <2>2, <1>5, <1>7, BarApart
  <2>3. CASE \E q \in Proc : \E t \in held[q] : Has(q, t, d) /\ y = AreaOf(q, t)
    <3>1. PICK q \in Proc : \E t \in held[q] : Has(q, t, d) /\ y = AreaOf(q, t)
      BY <2>3
    <3>2. PICK t \in held[q] : Has(q, t, d) /\ y = AreaOf(q, t)
      BY <3>1
    <3>3. CASE q = p /\ t = s
      BY <3>3, <1>2
    <3>4. CASE t # s
      BY <3>2, <3>4, <1>1, <1>2, <1>3, <1>6, <1>9, SameFile
    <3>5. CASE t = s /\ q # p
      <4>1. file[q][s.port] = file[p][s.port]
        BY <3>2, <3>5, <1>9 DEF Has
      <4> QED BY <4>1, <3>5, <1>1, <1>3 DEF DeviceInv, OneFile
    <3> QED BY <3>3, <3>4, <3>5
  <2>4. CASE \E e \in lost : Inside(y, e)
    <3>1. PICK e \in lost : Inside(y, e)
      BY <2>4
    <3>2. e \in Nat /\ e # m
      BY <1>3, <1>4, LifecycleAssumption DEF CauseInv, AreaInv, LostPages
    <3>3. y \in Area
      BY <1>18 DEF Members
    <3> QED BY <3>1, <3>2, <3>3, <1>5, <1>7, InsideApart
  <2> QED BY <2>1, <2>2, <2>3, <2>4 DEF Accounted
<1>20. Sorted(b.areas)
  <2>1. Sorted(adapter[d].areas)
    BY <1>10 DEF AreaInv, Listed
  <2> QED BY <2>1, <1>7, <1>12, <1>15, <1>18, <1>19, SortedInsert
<1>21. /\ held'[p] = held[p] \cup {s}
       /\ \A q \in Proc : q # p => held'[q] = held[q]
  BY <1>1, <1>2 DEF AcquiredOrFailed, Acquired, Failed, ProcInv, ProcTypes
<1>22. ASSUME NEW q \in Proc, NEW t, NEW e PROVE /\ Has(q, t, e)' <=> Has(q, t, e) \/ (q = p /\ t = s /\ e = d)
                                                /\ AreaOf(q, t)' = AreaOf(q, t)
  <2>1. Has(q, t, e)' <=> Has(q, t, e) \/ (q = p /\ t = s /\ e = d)
    BY <1>1, <1>2, <1>9, <1>21 DEF Has
  <2>2. AreaOf(q, t)' = AreaOf(q, t)
    BY <1>1 DEF AreaOf, At, RxOff, TxOff
  <2> QED BY <2>1, <2>2
<1>23. ASSUME NEW e \in Device, NEW y, Accounted(e, y) PROVE Accounted(e, y)'
  <2>1. CASE y = Bar
    BY <2>1 DEF Accounted
  <2>2. CASE \E q \in Proc : \E t \in held[q] : Has(q, t, e) /\ y = AreaOf(q, t)
    <3>1. PICK q \in Proc : \E t \in held[q] : Has(q, t, e) /\ y = AreaOf(q, t)
      BY <2>2
    <3>2. PICK t \in held[q] : Has(q, t, e) /\ y = AreaOf(q, t)
      BY <3>1
    <3>3. Has(q, t, e)' /\ y = AreaOf(q, t)'
      BY <3>2, <1>22
    <3>4. t \in held'[q]
      BY <3>3 DEF Has
    <3> QED BY <3>3, <3>4 DEF Accounted
  <2>3. CASE \E z \in lost : Inside(y, z)
    BY <2>3, <1>1 DEF Accounted, Inside, At
  <2> QED BY <1>23, <2>1, <2>2, <2>3 DEF Accounted
<1>24. Accounted(d, x)'
  <2>1. Has(p, s, d)' /\ x = AreaOf(p, s)'
    BY <1>6, <1>22
  <2>2. s \in held'[p]
    BY <1>21
  <2> QED BY <2>1, <2>2 DEF Accounted
<1>25. ASSUME NEW e \in Device PROVE Listed(e)'
  <2>1. CASE e = d
    <3>1. b.phase = "bound"
      BY <1>10, <1>14 DEF Alike
    <3>2. ASSUME NEW y \in Members(b.areas) PROVE Accounted(d, y)'
      BY <1>10, <1>16, <1>23, <1>24 DEF AreaInv, Listed
    <3> QED BY <2>1, <3>1, <3>2, <1>17, <1>20 DEF Listed
  <2>2. CASE e # d
    <3>1. adapter'[e] = adapter[e] /\ Listed(e)
      BY <2>2, <1>17 DEF AreaInv
    <3>2. ASSUME NEW y \in Members(adapter[e].areas) PROVE Accounted(e, y)'
      BY <3>1, <1>23 DEF Listed
    <3> QED BY <3>1, <3>2 DEF Listed
  <2> QED BY <2>1, <2>2
<1>26. ASSUME NEW q \in Proc, NEW e \in Device, NEW t \in held'[q], Has(q, t, e)'
       PROVE  AreaOf(q, t)' \in Members(adapter'[e].areas)
  <2>1. CASE q = p /\ t = s /\ e = d
    BY <2>1, <1>6, <1>16, <1>17, <1>22
  <2>2. CASE Has(q, t, e)
    <3>1. AreaOf(q, t) \in Members(adapter[e].areas)
      BY <2>2 DEF AreaInv, Backed, Has
    <3>2. AreaOf(q, t) \in Members(adapter'[e].areas)
      BY <3>1, <1>16, <1>17
    <3> QED BY <3>2, <1>22
  <2> QED BY <1>26, <2>1, <2>2, <1>22
<1>27. PagesApart'
  BY <1>1 DEF AreaInv, PagesApart
<1>28. LostPages'
  <2>1. ASSUME NEW z, PinnedBlock(z) PROVE PinnedBlock(z)'
    <3>1. PICK e \in Device : \E y \in Members(adapter[e].areas) : Within(y.addr, z)
      BY <2>1 DEF PinnedBlock
    <3>2. PICK y \in Members(adapter[e].areas) : Within(y.addr, z)
      BY <3>1
    <3>3. y \in Members(adapter'[e].areas)
      BY <3>2, <1>16, <1>17
    <3> QED BY <3>2, <3>3 DEF PinnedBlock, Within, At
  <2> QED BY <2>1, <1>1 DEF AreaInv, LostPages
<1>29. Backed'
  BY <1>26 DEF Backed
<1> QED BY <1>25, <1>27, <1>28, <1>29 DEF AreaInv

(* IXMAP_UNMAP keeps layer 4. *)
LEMMA UnmapAreaArea ==
  ASSUME ProcInv, DeviceInv, CauseInv, AreaInv, NEW p \in Proc, UnmapArea(p)
  PROVE  AreaInv'
<1>1. PICK s \in Todo(p, {"rxring", "txring", "buffer"}) :
         /\ Valid(p, s.port)
         /\ adapter' = [adapter EXCEPT ![file[p][s.port]] = dma_unmap(@, AreaOf(p, s).addr)]
         /\ Released(p, s) /\ UNCHANGED <<file, mem, lost>>
  BY DEF UnmapArea
<1>2. s \in held[p] /\ IsArea(s)
  BY TodoFacts DEF IsHalf, IsArea
<1>3. PICK d : d = file[p][s.port]
  OBVIOUS
<1>4. Has(p, s, d)
  BY <1>2, <1>3 DEF Has
<1>5. PICK m : m = mem[p][s.call][s.core]
  OBVIOUS
<1>6. PICK x : x = AreaOf(p, s)
  OBVIOUS
<1>7. /\ s \in Resource /\ s.port \in Port /\ s.core \in Core /\ s.call \in Pages /\ PageOf(s) \in held[p]
      /\ m \in Nat /\ x \in Area /\ x.len # 0 /\ Within(x.addr, m)
  BY <1>4, <1>5, <1>6, HasFacts
<1>8. x.addr \in Nat /\ x.len \in Nat
  BY <1>7 DEF Area
<1>9. d \in Device /\ adapter[d] \in AdapterType /\ adapter[d].phase = "bound" /\ adapter \in [Device -> AdapterType]
  BY <1>1, <1>3, <1>7 DEF Valid, DeviceInv, OneFile
<1>10. PICK b : b = dma_unmap(adapter[d], x.addr)
  OBVIOUS
<1>11. PICK l : l = adapter[d].areas
  OBVIOUS
<1>12. l \in Seq(Area) /\ Sorted(l) /\ x \in Members(l)
  <2>1. l \in Seq(Area)
    BY <1>9, <1>11, AdapterFields
  <2>2. Sorted(l)
    BY <1>9, <1>11 DEF AreaInv, Listed
  <2>3. x \in Members(l)
    BY <1>2, <1>4, <1>6, <1>9, <1>11 DEF AreaInv, Backed
  <2> QED BY <2>1, <2>2, <2>3
<1>13. b \in AdapterType /\ Alike(adapter[d], b)
  BY <1>8, <1>9, <1>10, UnmapFacts
<1>14. PICK k \in 1 .. Len(l) : l[k].addr = x.addr /\ b.areas = RemoveAt(l, k)
  <2>1. PICK j \in 1 .. Len(l) : l[j] = x
    BY <1>12 DEF Members
  <2>2. \/ \A k \in 1 .. Len(l) : l[k].addr # x.addr
        \/ \E k \in 1 .. Len(l) : l[k].addr = x.addr /\ b.areas = RemoveAt(l, k)
    <3>1. PICK a \in AdapterType : a = adapter[d]
      BY <1>9
    <3>2. PICK z \in Nat : z = x.addr
      BY <1>8
    <3>3. b = dma_unmap(a, z)
      BY <3>1, <3>2, <1>10
    <3>4. Without(a.areas, b.areas, z)
      BY <3>3, UnmapFacts
    <3>5. Without(l, b.areas, x.addr)
      BY <3>1, <3>2, <3>4, <1>11
    <3> QED BY ONLY <3>5 DEF Without
  <2> QED BY <2>1, <2>2
<1>15. \A j \in 1 .. Len(l) : l[j].addr = x.addr => j = k
  BY <1>12, <1>14, SortedUnique
<1>16. l[k] = x
  BY <1>12, <1>15 DEF Members
<1>17. \A y : y \in Members(b.areas) <=> y \in Members(l) /\ y # x
  <2>1. /\ \A y \in Members(b.areas) : \E j \in 1 .. Len(l) : j # k /\ y = l[j]
        /\ \A j \in 1 .. Len(l) : j # k => l[j] \in Members(b.areas)
    BY <1>12, <1>14, RemoveFacts
  <2>2. ASSUME NEW y \in Members(b.areas) PROVE y \in Members(l) /\ y # x
    <3>1. PICK j \in 1 .. Len(l) : j # k /\ y = l[j]
      BY <2>1
    <3> QED BY <3>1, <1>15 DEF Members
  <2>3. ASSUME NEW y \in Members(l), y # x PROVE y \in Members(b.areas)
    <3>1. PICK j \in 1 .. Len(l) : y = l[j]
      BY DEF Members
    <3> QED BY <3>1, <2>1, <2>3, <1>16
  <2> QED BY <2>2, <2>3
<1>18. Sorted(b.areas)
  BY <1>12, <1>14, SortedRemove
<1>19. adapter'[d] = b /\ \A e \in Device \ {d} : adapter'[e] = adapter[e]
  <2>1. adapter' = [adapter EXCEPT ![d] = b]
    BY <1>1, <1>3, <1>6, <1>10
  <2> QED BY <2>1, <1>9, <1>13, OneAdapter
<1>20. /\ held'[p] = held[p] \ {s}
       /\ \A q \in Proc : q # p => held'[q] = held[q]
  BY <1>1 DEF Released, ProcInv, ProcTypes
<1>21. ASSUME NEW q \in Proc, NEW t, NEW e
       PROVE  /\ Has(q, t, e)' <=> Has(q, t, e) /\ ~ (q = p /\ t = s)
              /\ AreaOf(q, t)' = AreaOf(q, t)
  <2>1. Has(q, t, e)' <=> Has(q, t, e) /\ ~ (q = p /\ t = s)
    BY <1>1, <1>20 DEF Has
  <2>2. AreaOf(q, t)' = AreaOf(q, t)
    BY <1>1 DEF AreaOf, At, RxOff, TxOff
  <2> QED BY <2>1, <2>2
<1>22. ASSUME NEW e \in Device, NEW y, Accounted(e, y), e # d \/ y # x PROVE Accounted(e, y)'
  <2>1. CASE y = Bar
    BY <2>1 DEF Accounted
  <2>2. CASE \E q \in Proc : \E t \in held[q] : Has(q, t, e) /\ y = AreaOf(q, t)
    <3>1. PICK q \in Proc : \E t \in held[q] : Has(q, t, e) /\ y = AreaOf(q, t)
      BY <2>2
    <3>2. PICK t \in held[q] : Has(q, t, e) /\ y = AreaOf(q, t)
      BY <3>1
    <3>3. ~ (q = p /\ t = s)
      BY <3>2, <1>3, <1>6, <1>22 DEF Has
    <3>4. Has(q, t, e)' /\ y = AreaOf(q, t)'
      BY <3>2, <3>3, <1>21
    <3>5. t \in held'[q]
      BY <3>4 DEF Has
    <3> QED BY <3>4, <3>5 DEF Accounted
  <2>3. CASE \E z \in lost : Inside(y, z)
    BY <2>3, <1>1 DEF Accounted, Inside, At
  <2> QED BY <1>22, <2>1, <2>2, <2>3 DEF Accounted
<1>23. ASSUME NEW e \in Device PROVE Listed(e)'
  <2>1. CASE e = d
    <3>1. b.phase = "bound"
      BY <1>9, <1>13 DEF Alike
    <3>2. ASSUME NEW y \in Members(b.areas) PROVE Accounted(d, y)'
      BY <1>9, <1>11, <1>17, <1>22 DEF AreaInv, Listed
    <3> QED BY <2>1, <3>1, <3>2, <1>18, <1>19 DEF Listed
  <2>2. CASE e # d
    <3>1. adapter'[e] = adapter[e] /\ Listed(e)
      BY <2>2, <1>19 DEF AreaInv
    <3>2. ASSUME NEW y \in Members(adapter[e].areas) PROVE Accounted(e, y)'
      BY <2>2, <3>1, <1>22 DEF Listed
    <3> QED BY <3>1, <3>2 DEF Listed
  <2> QED BY <2>1, <2>2
<1>24. ASSUME NEW q \in Proc, NEW e \in Device, NEW t \in held'[q], Has(q, t, e)'
       PROVE  AreaOf(q, t)' \in Members(adapter'[e].areas)
  <2>1. Has(q, t, e) /\ ~ (q = p /\ t = s)
    BY <1>24, <1>21
  <2>2. AreaOf(q, t) \in Members(adapter[e].areas)
    BY <2>1 DEF AreaInv, Backed, Has
  <2>3. CASE e # d
    BY <2>2, <2>3, <1>19, <1>21
  <2>4. CASE e = d
    <3>1. t # s
      <4>1. CASE q = p
        BY <4>1, <2>1
      <4>2. CASE q # p
        <5>1. file[q][t.port] = file[p][s.port] /\ t.port \in Port
          BY <2>1, <2>4, <1>3, HasFacts DEF Has
        <5> QED BY <5>1, <4>2, <1>1, <1>7 DEF DeviceInv, OneFile
      <4> QED BY <4>1, <4>2
    <3>2. Apart(x, AreaOf(q, t))
      BY <2>1, <2>4, <3>1, <1>1, <1>2, <1>3, <1>6, <1>7, SameFile
    <3>3. AreaOf(q, t) # x
      BY <3>2, <1>7, <1>8 DEF Apart
    <3>4. AreaOf(q, t) \in Members(b.areas)
      BY <2>2, <2>4, <3>3, <1>11, <1>17
    <3> QED BY <2>4, <3>4, <1>19, <1>21
  <2> QED BY <2>3, <2>4
<1>25. PagesApart'
  BY <1>1 DEF AreaInv, PagesApart
<1>26. LostPages'
  <2>1. ASSUME NEW z \in lost PROVE PinnedBlock(z)'
    <3>1. PinnedBlock(z) /\ z # m /\ z \in Nat
      BY <1>5, <1>7, LifecycleAssumption DEF AreaInv, LostPages, CauseInv
    <3>2. PICK e \in Device : \E y \in Members(adapter[e].areas) : Within(y.addr, z)
      BY <3>1 DEF PinnedBlock
    <3>3. PICK y \in Members(adapter[e].areas) : Within(y.addr, z)
      BY <3>2
    <3>4. y # x
      BY <3>1, <3>3, <1>7, <1>8, WithinOne
    <3>5. y \in Members(adapter'[e].areas)
      BY <3>3, <3>4, <1>11, <1>17, <1>19
    <3> QED BY <3>3, <3>5 DEF PinnedBlock, Within, At
  <2> QED BY <2>1, <1>1 DEF AreaInv, LostPages
<1>27. Backed'
  BY <1>24 DEF Backed
<1> QED BY <1>23, <1>25, <1>26, <1>27 DEF AreaInv

(* An empty list is in order. *)
LEMMA EmptyAreas == Sorted(<<>>) /\ Members(<<>>) = {} /\ \A x : Members(<<x>>) = {x}
<1>1. Len(<<>>) = 0 /\ \A x : Len(<<x>>) = 1 /\ <<x>>[1] = x
  OBVIOUS
<1>2. Members(<<>>) = {} /\ \A x : Members(<<x>>) = {x}
  BY <1>1 DEF Members
<1> QED BY <1>1, <1>2 DEF Sorted

(* A process that is killed keeps layer 4: its areas are in the pages that *)
(* are lost.                                                               *)
LEMMA CrashArea ==
  ASSUME ProcInv, CauseInv, AreaInv, NEW p \in Proc, Crash(p)
  PROVE  AreaInv'
<1>1. /\ held' = [held EXCEPT ![p] = {r \in @ : IsFile(r)}]
      /\ mem' = [mem EXCEPT ![p] = NoMem]
      /\ lost' = lost \cup {b \in Pinned : \E k \in {"desc", "buf"}, c \in Core : mem[p][k][c] = b}
      /\ UNCHANGED <<adapter, file>>
  BY DEF Crash
<1>2. /\ \A s : IsArea(s) => s \notin held'[p]
      /\ \A q \in Proc : q # p => held'[q] = held[q]
  BY <1>1 DEF ProcInv, ProcTypes, IsFile, IsArea
<1>3. /\ \A k \in Pages, c \in Core : mem'[p][k][c] = None
      /\ \A q \in Proc : q # p => mem'[q] = mem[q]
  BY <1>1 DEF ProcInv, ProcTypes, NoMem, Pages
<1>4. ASSUME NEW q \in Proc, NEW s, NEW d PROVE Has(q, s, d)' <=> Has(q, s, d) /\ q # p
  BY <1>1, <1>2 DEF Has
<1>5. ASSUME NEW q \in Proc, NEW s, NEW d, Has(q, s, d), q # p PROVE AreaOf(q, s)' = AreaOf(q, s)
  BY <1>3, <1>5, HasFacts, AreaSame
<1>6. ASSUME NEW s, NEW d \in Device, Has(p, s, d) PROVE mem[p][s.call][s.core] \in lost'
  <2>1. PICK b : b = mem[p][s.call][s.core]
    OBVIOUS
  <2>2. b \in Block /\ s \in held[p] /\ s.call \in Pages /\ s.core \in Core /\ Within(AreaOf(p, s).addr, b)
    BY <1>6, <2>1, HasFacts
  <2>3. AreaOf(p, s) \in Members(adapter[d].areas)
    BY <1>6, <2>2 DEF AreaInv, Backed
  <2>4. PinnedBlock(b)
    BY <2>2, <2>3 DEF PinnedBlock
  <2>5. b \in Pinned
    BY <2>2, <2>4, PinnedIff
  <2> QED BY <2>1, <2>2, <2>5, <1>1 DEF Pages
<1>7. ASSUME NEW d \in Device, NEW x, Accounted(d, x) PROVE Accounted(d, x)'
  <2>1. CASE x = Bar
    BY <2>1 DEF Accounted
  <2>2. CASE \E q \in Proc : \E s \in held[q] : Has(q, s, d) /\ x = AreaOf(q, s)
    <3>1. PICK q \in Proc : \E s \in held[q] : Has(q, s, d) /\ x = AreaOf(q, s)
      BY <2>2
    <3>2. PICK s \in held[q] : Has(q, s, d) /\ x = AreaOf(q, s)
      BY <3>1
    <3>3. CASE q = p
      <4>1. PICK b : b = mem[p][s.call][s.core]
        OBVIOUS
      <4>2. b \in lost' /\ Inside(x, b)
        BY <3>2, <3>3, <4>1, <1>6, HasFacts
      <4>3. Inside(x, b)'
        BY <4>2 DEF Inside, At
      <4> QED BY <4>2, <4>3 DEF Accounted
    <3>4. CASE q # p
      <4>1. Has(q, s, d)' /\ x = AreaOf(q, s)'
        BY <3>2, <3>4, <1>4, <1>5
      <4>2. s \in held'[q]
        BY <4>1 DEF Has
      <4> QED BY <4>1, <4>2 DEF Accounted
    <3> QED BY <3>3, <3>4
  <2>3. CASE \E b \in lost : Inside(x, b)
    BY <2>3, <1>1 DEF Accounted, Inside, At
  <2> QED BY <1>7, <2>1, <2>2, <2>3 DEF Accounted
<1>8. ASSUME NEW d \in Device PROVE Listed(d)'
  <2>1. adapter'[d] = adapter[d] /\ Listed(d)
    BY <1>1 DEF AreaInv
  <2>2. ASSUME NEW x \in Members(adapter[d].areas) PROVE Accounted(d, x)'
    BY <2>1, <1>7 DEF Listed
  <2> QED BY <2>1, <2>2 DEF Listed
<1>9. ASSUME NEW q \in Proc, NEW d \in Device, NEW s \in held'[q], Has(q, s, d)'
      PROVE  AreaOf(q, s)' \in Members(adapter'[d].areas)
  <2>1. Has(q, s, d) /\ q # p
    BY <1>4, <1>9
  <2>2. s \in held[q]
    BY <2>1 DEF Has
  <2>3. AreaOf(q, s) \in Members(adapter[d].areas)
    BY <2>1, <2>2 DEF AreaInv, Backed
  <2> QED BY <2>1, <2>3, <1>1, <1>5
<1>10. PagesApart'
  <2> SUFFICES ASSUME NEW q \in Proc, NEW z \in Proc, NEW l \in Pages, NEW m \in Pages,
                      NEW e \in Core, NEW f \in Core,
                      mem'[q][l][e] # None, mem'[q][l][e] = mem'[z][m][f]
               PROVE  q = z /\ l = m /\ e = f
    BY DEF PagesApart
  <2>1. q # p /\ z # p
    BY <1>3
  <2>2. mem'[q] = mem[q] /\ mem'[z] = mem[z]
    BY <2>1, <1>3
  <2> QED BY <2>2 DEF AreaInv, PagesApart
<1>11. LostPages'
  <2> SUFFICES ASSUME NEW b \in lost'
               PROVE  PinnedBlock(b)' /\ \A q \in Proc, l \in Pages, e \in Core : mem'[q][l][e] # b
    BY DEF LostPages
  <2>1. CASE b \in lost
    <3>1. PinnedBlock(b) /\ b # None /\ \A q \in Proc, l \in Pages, e \in Core : mem[q][l][e] # b
      BY <2>1, LifecycleAssumption DEF AreaInv, LostPages, CauseInv
    <3>2. PinnedBlock(b)'
      BY <3>1, <1>1 DEF PinnedBlock, Within, At
    <3>3. ASSUME NEW q \in Proc, NEW l \in Pages, NEW e \in Core PROVE mem'[q][l][e] # b
      BY <3>1, <1>3
    <3> QED BY <3>2, <3>3
  <2>2. CASE b \notin lost
    <3>1. PICK k \in Pages, c \in Core : b \in Pinned /\ mem[p][k][c] = b
      BY <2>2, <1>1 DEF Pages
    <3>2. b \in Block /\ b # None
      BY <3>1, LifecycleAssumption DEF Pinned
    <3>3. PinnedBlock(b)
      BY <3>1, <3>2, PinnedIff
    <3>4. PinnedBlock(b)'
      BY <3>3, <1>1 DEF PinnedBlock, Within, At
    <3>5. ASSUME NEW q \in Proc, NEW l \in Pages, NEW e \in Core PROVE mem'[q][l][e] # b
      <4>1. CASE q = p
        BY <4>1, <3>2, <1>3
      <4>2. CASE q # p
        <5>1. mem[q][l][e] # b
          BY <4>2, <3>1, <3>2 DEF AreaInv, PagesApart
        <5> QED BY <4>2, <5>1, <1>3
      <4> QED BY <4>1, <4>2
    <3> QED BY <3>4, <3>5
  <2> QED BY <2>1, <2>2
<1>12. Backed'
  BY <1>9 DEF Backed
<1> QED BY <1>8, <1>10, <1>11, <1>12 DEF AreaInv

(* ixmap_remove keeps layer 4: pages that only this adapter pinned are     *)
(* free again.                                                             *)
LEMMA RemoveArea ==
  ASSUME ProcInv, CauseInv, DeviceInv, AreaInv, NEW d \in Device, RemoveDevice(d)
  PROVE  AreaInv'
<1>1. /\ adapter' = [adapter EXCEPT ![d] = Absent] /\ UNCHANGED <<held, mem>>
      /\ file' = [p \in Proc |-> [i \in Port |-> IF file[p][i] = d THEN Freed ELSE file[p][i]]]
      /\ lost' = {b \in lost : \E e \in Device \ {d} : \E x \in Addresses(adapter[e].areas) :
                      At(b, 0) <= x /\ x < At(b + 1, 0)}
  BY DEF RemoveDevice, ixmap_remove
<1>2. Freed \notin Device
  BY LifecycleAssumption
<1>3. adapter'[d] = Absent /\ \A e \in Device \ {d} : adapter'[e] = adapter[e]
  BY <1>1, AbsentFacts, OneAdapter DEF DeviceInv
<1>4. ASSUME NEW b
      PROVE  b \in lost' <=> b \in lost /\ \E e \in Device \ {d} : \E x \in Members(adapter[e].areas) : Within(x.addr, b)
  <2>1. ASSUME NEW s, NEW a
        PROVE  a \in Addresses(s) <=> \E x \in Members(s) : x.addr = a
    BY DEF Addresses, Members
  <2> QED BY <1>1, <2>1 DEF Within
<1>5. ASSUME NEW q \in Proc, NEW s, NEW e \in Device PROVE Has(q, s, e)' <=> Has(q, s, e) /\ e # d
  <2>1. CASE s \in held[q] /\ IsArea(s)
    <3>1. s.port \in Port
      BY <2>1, AreaNeeds DEF ProcInv, ProcTypes
    <3>2. file'[q][s.port] = IF file[q][s.port] = d THEN Freed ELSE file[q][s.port]
      BY <3>1, <1>1
    <3> QED BY <2>1, <3>2, <1>1, <1>2 DEF Has
  <2>2. CASE ~ (s \in held[q] /\ IsArea(s))
    BY <2>2, <1>1 DEF Has, IsArea
  <2> QED BY <2>1, <2>2
<1>6. \A q, s : AreaOf(q, s)' = AreaOf(q, s)
  BY <1>1 DEF AreaOf, At, RxOff, TxOff
<1>7. ASSUME NEW e \in Device \ {d}, NEW x \in Members(adapter[e].areas) PROVE Accounted(e, x)'
  <2>0. Accounted(e, x) /\ Sorted(adapter[e].areas) /\ adapter[e].areas \in Seq(Area)
    BY AdapterFields DEF AreaInv, Listed, DeviceInv
  <2>1. CASE x = Bar
    BY <2>1 DEF Accounted
  <2>2. CASE \E q \in Proc : \E s \in held[q] : Has(q, s, e) /\ x = AreaOf(q, s)
    <3>1. PICK q \in Proc : \E s \in held[q] : Has(q, s, e) /\ x = AreaOf(q, s)
      BY <2>2
    <3>2. PICK s \in held[q] : Has(q, s, e) /\ x = AreaOf(q, s)
      BY <3>1
    <3>3. Has(q, s, e)' /\ x = AreaOf(q, s)' /\ s \in held'[q]
      BY <3>2, <1>1, <1>5, <1>6
    <3> QED BY <3>3 DEF Accounted
  <2>3. CASE \E b \in lost : Inside(x, b)
    <3>1. PICK b \in lost : Inside(x, b)
      BY <2>3
    <3>2. x \in Area /\ x.len # 0
      BY <2>0 DEF Members, Sorted
    <3>3. b \in Nat
      BY LifecycleAssumption DEF CauseInv
    <3>4. Within(x.addr, b)
      BY <3>1, <3>2, <3>3, WithinOne
    <3>5. b \in lost'
      BY <3>4, <1>4
    <3>6. Inside(x, b)'
      BY <3>1 DEF Inside, At
    <3> QED BY <3>5, <3>6 DEF Accounted
  <2> QED BY <2>0, <2>1, <2>2, <2>3 DEF Accounted
<1>8. ASSUME NEW e \in Device PROVE Listed(e)'
  <2>1. CASE e = d
    <3>1. adapter'[e] = Absent /\ Absent.areas = <<>> /\ Absent.phase = "absent"
      BY <2>1, <1>3 DEF Absent
    <3> QED BY <3>1, EmptyAreas DEF Listed
  <2>2. CASE e # d
    <3>1. adapter'[e] = adapter[e] /\ Listed(e)
      BY <2>2, <1>3 DEF AreaInv
    <3>2. ASSUME NEW x \in Members(adapter[e].areas) PROVE Accounted(e, x)'
      BY <2>2, <1>7
    <3> QED BY <3>1, <3>2 DEF Listed
  <2> QED BY <2>1, <2>2
<1>9. ASSUME NEW q \in Proc, NEW e \in Device, NEW s \in held'[q], Has(q, s, e)'
      PROVE  AreaOf(q, s)' \in Members(adapter'[e].areas)
  <2>1. Has(q, s, e) /\ e # d /\ s \in held[q]
    BY <1>1, <1>5, <1>9
  <2>2. AreaOf(q, s) \in Members(adapter[e].areas)
    BY <2>1 DEF AreaInv, Backed
  <2> QED BY <2>1, <2>2, <1>3, <1>6
<1>10. PagesApart'
  BY <1>1 DEF AreaInv, PagesApart
<1>11. LostPages'
  <2> SUFFICES ASSUME NEW b \in lost'
               PROVE  PinnedBlock(b)' /\ \A q \in Proc, l \in Pages, e \in Core : mem'[q][l][e] # b
    BY DEF LostPages
  <2>1. b \in lost
    BY <1>4
  <2>2. PICK e \in Device \ {d} : \E x \in Members(adapter[e].areas) : Within(x.addr, b)
    BY <1>4
  <2>3. \E x \in Members(adapter'[e].areas) : Within(x.addr, b)
    BY <2>2, <1>3
  <2>4. PinnedBlock(b)'
    BY <2>3 DEF PinnedBlock, Within, At
  <2> QED BY <2>1, <2>4, <1>1 DEF AreaInv, LostPages
<1>12. Backed'
  BY <1>9 DEF Backed
<1> QED BY <1>8, <1>10, <1>11, <1>12 DEF AreaInv

(* An adapter that nobody has open is probed or given up. *)
LEMMA IdleAreas ==
  ASSUME ProcInv, DeviceInv, CauseInv, AreaInv, NEW d \in Device, ~ Owned(d), adapter[d].phase # "bound",
         UNCHANGED <<held, file, mem, lost>>, NEW b \in AdapterType, adapter' = [adapter EXCEPT ![d] = b],
         Sorted(b.areas), b.phase \in {"absent", "alloc"} => b.areas = <<>>,
         \A x \in Members(b.areas) : x = Bar
  PROVE  AreaInv'
<1>1. adapter'[d] = b /\ \A e \in Device \ {d} : adapter'[e] = adapter[e]
  BY OneAdapter DEF DeviceInv
<1>2. \A q, s : AreaOf(q, s)' = AreaOf(q, s)
  BY DEF AreaOf, At, RxOff, TxOff
<1>3. \A q, s, e : Has(q, s, e)' <=> Has(q, s, e)
  BY DEF Has, IsArea
<1>4. ASSUME NEW q \in Proc, NEW s, NEW e, Has(q, s, e) PROVE e # d
  <2>1. s.port \in Port /\ file[q][s.port] = e
    BY <1>4, HasFacts DEF Has
  <2> QED BY <2>1 DEF Owned
<1>5. ASSUME NEW x \in Members(adapter[d].areas) PROVE x = Bar
  <2>1. Listed(d) /\ adapter[d].phase \in {"absent", "alloc", "init", "bound"}
    BY AdapterFields DEF AreaInv, DeviceInv
  <2>2. CASE adapter[d].phase = "init"
    BY <2>1, <2>2 DEF Listed
  <2>3. CASE adapter[d].phase # "init"
    <3>1. adapter[d].areas = <<>>
      BY <2>1, <2>3 DEF Listed
    <3> QED BY <3>1, EmptyAreas
  <2> QED BY <2>2, <2>3
<1>6. ASSUME NEW e \in Device, NEW x, Accounted(e, x) PROVE Accounted(e, x)'
  <2>1. CASE x = Bar
    BY <2>1 DEF Accounted
  <2>2. CASE \E q \in Proc : \E s \in held[q] : Has(q, s, e) /\ x = AreaOf(q, s)
    <3>1. PICK q \in Proc : \E s \in held[q] : Has(q, s, e) /\ x = AreaOf(q, s)
      BY <2>2
    <3>2. PICK s \in held[q] : Has(q, s, e) /\ x = AreaOf(q, s)
      BY <3>1
    <3>3. Has(q, s, e)' /\ x = AreaOf(q, s)' /\ s \in held'[q]
      BY <3>2, <1>2, <1>3
    <3> QED BY <3>3 DEF Accounted
  <2>3. CASE \E z \in lost : Inside(x, z)
    BY <2>3 DEF Accounted, Inside, At
  <2> QED BY <1>6, <2>1, <2>2, <2>3 DEF Accounted
<1>7. ASSUME NEW e \in Device PROVE Listed(e)'
  <2>1. CASE e = d
    <3>1. ASSUME NEW x \in Members(b.areas) PROVE Accounted(e, x)'
      BY DEF Accounted
    <3> QED BY <2>1, <3>1, <1>1 DEF Listed
  <2>2. CASE e # d
    <3>1. adapter'[e] = adapter[e] /\ Listed(e)
      BY <2>2, <1>1 DEF AreaInv
    <3>2. ASSUME NEW x \in Members(adapter[e].areas) PROVE Accounted(e, x)'
      BY <3>1, <1>6 DEF Listed
    <3> QED BY <3>1, <3>2 DEF Listed
  <2> QED BY <2>1, <2>2
<1>8. ASSUME NEW q \in Proc, NEW e \in Device, NEW s \in held'[q], Has(q, s, e)'
      PROVE  AreaOf(q, s)' \in Members(adapter'[e].areas)
  <2>1. Has(q, s, e) /\ s \in held[q]
    BY <1>3, <1>8
  <2>2. AreaOf(q, s) \in Members(adapter[e].areas) /\ e # d
    BY <2>1, <1>4 DEF AreaInv, Backed
  <2> QED BY <2>2, <1>1, <1>2
<1>9. PagesApart'
  BY DEF AreaInv, PagesApart
<1>10. LostPages'
  <2> SUFFICES ASSUME NEW z \in lost PROVE PinnedBlock(z)'
    BY DEF AreaInv, LostPages
  <2>1. z \in Block /\ PinnedBlock(z)
    BY DEF CauseInv, AreaInv, LostPages
  <2>2. PICK e \in Device : \E x \in Members(adapter[e].areas) : Within(x.addr, z)
    BY <2>1 DEF PinnedBlock
  <2>3. PICK x \in Members(adapter[e].areas) : Within(x.addr, z)
    BY <2>2
  <2>4. e # d
    BY <2>1, <2>3, <1>5, BarApart
  <2>5. x \in Members(adapter'[e].areas)
    BY <2>3, <2>4, <1>1
  <2> QED BY <2>3, <2>5 DEF PinnedBlock, Within, At
<1>11. Backed'
  BY <1>8 DEF Backed
<1> QED BY <1>7, <1>9, <1>10, <1>11 DEF AreaInv

(* The probe of an adapter keeps layer 4. *)
LEMMA ProbeArea ==
  ASSUME ProcInv, DeviceInv, CauseInv, AreaInv, NEW d \in Device, Probe(d)
  PROVE  AreaInv'
<1>0. /\ adapter \in [Device -> AdapterType] /\ adapter[d] \in AdapterType
      /\ UNCHANGED <<held, file, mem, lost>>
  BY DEF DeviceInv, Probe, procVars
<1>1. adapter[d].phase # "bound"
  BY DEF Probe, ProbeAlloc, ProbeInit, ProbeFail, ProbeRegister
<1>2. ~ Owned(d)
  BY <1>1 DEF Owned, DeviceInv, OneFile, Valid
<1>3. Listed(d)
  BY DEF AreaInv
<1>4. CASE ProbeAlloc(d)
  <2>1. PICK n : n = Cardinality(dev_list)
    OBVIOUS
  <2>2. PICK b : b = [Absent EXCEPT !.phase = "alloc", !.refcount = 1, !.id = n]
    OBVIOUS
  <2>3. adapter' = [adapter EXCEPT ![d] = b]
    BY <1>4, <2>1, <2>2 DEF ProbeAlloc
  <2>4. b.areas = <<>>
    BY <2>2, AbsentFacts DEF AdapterType
  <2>5. b \in AdapterType
    <3>1. DeviceInv'
      BY ProbeStep
    <3>2. adapter'[d] = b
      BY <2>3, <1>0
    <3> QED BY <3>1, <3>2 DEF DeviceInv
  <2> QED BY <2>3, <2>4, <2>5, <1>0, <1>1, <1>2, EmptyAreas, IdleAreas, ZenonT(60)
<1>5. CASE ProbeInit(d)
  <2>1. PICK c : c = dma_map(adapter[d], BarAddr, BarLen)
    OBVIOUS
  <2>2. BarAddr \in Nat /\ BarLen \in Nat \ {0} /\ CanMap(adapter[d], BarAddr, BarLen)
    BY <1>5, AdapterAssumption DEF ProbeInit
  <2>3. adapter[d].areas = <<>>
    BY <1>3, <1>5 DEF ProbeInit, Listed
  <2>4. c \in AdapterType /\ \A x : x \in Members(c.areas) <=> x \in Members(adapter[d].areas) \/ x = Bar
    <3>1. PICK a \in AdapterType : a = adapter[d]
      BY <1>0
    <3>2. CanMap(a, BarAddr, BarLen) /\ c = dma_map(a, BarAddr, BarLen)
      BY <2>1, <2>2, <3>1
    <3>3. c \in AdapterType
      BY <2>2, <3>2, MapFacts
    <3>4. \A x : x \in Members(c.areas) <=> x \in Members(a.areas) \/ x = [addr |-> BarAddr, len |-> BarLen]
      BY <2>2, <3>2, MapFacts, ZenonT(60)
    <3> QED BY <3>1, <3>3, <3>4 DEF Bar
  <2>5. \A x \in Members(c.areas) : x = Bar
    BY <2>3, <2>4, EmptyAreas
  <2>6. Sorted(c.areas)
    <3>1. PICK w : w = whereto(adapter[d].areas, BarAddr, BarLen)
      OBVIOUS
    <3>2. w \in 0 .. Len(adapter[d].areas) /\ c.areas = InsertAt(adapter[d].areas, w + 1, Bar)
      BY <2>1, <2>2, <3>1, <1>0, MapFacts DEF Bar
    <3>3. Bar \in Area /\ Bar.len # 0 /\ Bar.addr = BarAddr /\ Bar.len = BarLen
      BY <2>2 DEF Bar, Area
    <3>4. PICK s : s = adapter[d].areas
      OBVIOUS
    <3>5. s \in Seq(Area) /\ Sorted(s) /\ \A x \in Members(s) : Apart(Bar, x)
      BY <2>3, <3>4, EmptyAreas
    <3>6. w = whereto(s, Bar.addr, Bar.len) /\ w \in 0 .. Len(s) /\ c.areas = InsertAt(s, w + 1, Bar)
      BY <3>1, <3>2, <3>3, <3>4
    <3> QED BY <3>3, <3>5, <3>6, SortedInsert
  <2>7. PICK b : b = [c EXCEPT !.phase = "init"]
    OBVIOUS
  <2>8. b \in AdapterType /\ b.areas = c.areas /\ b.phase = "init"
    <3>1. b \in AdapterType
      BY <2>4, <2>7, AdapterExcept
    <3> QED BY <3>1, <2>4, <2>7 DEF AdapterType
  <2>9. adapter' = [adapter EXCEPT ![d] = b]
    BY <1>5, <2>1, <2>7 DEF ProbeInit, dma_map_iobase
  <2>10. Sorted(b.areas) /\ (\A x \in Members(b.areas) : x = Bar) /\ b.phase \notin {"absent", "alloc"}
    BY <2>5, <2>6, <2>8
  <2> QED BY <2>8, <2>9, <2>10, <1>0, <1>1, <1>2, IdleAreas
<1>6. CASE ProbeFail(d)
  <2>1. adapter' = [adapter EXCEPT ![d] = Absent]
    BY <1>6 DEF ProbeFail
  <2> QED BY <2>1, <1>0, <1>1, <1>2, AbsentFacts, EmptyAreas, IdleAreas
<1>7. CASE ProbeRegister(d)
  <2>1. PICK b : b = [adapter[d] EXCEPT !.phase = "bound"]
    OBVIOUS
  <2>2. b.areas = adapter[d].areas /\ b.phase = "bound"
    BY <2>1, <1>0 DEF AdapterType
  <2>3. adapter' = [adapter EXCEPT ![d] = b]
    BY <1>7, <2>1 DEF ProbeRegister
  <2>4. \A e \in Device : /\ adapter'[e].areas = adapter[e].areas
                          /\ adapter'[e].phase \in {adapter[e].phase, "bound"}
    BY <2>2, <2>3, <1>0
  <2>5. \A p \in Proc : \A s : IsArea(s) => (s \in held'[p] <=> s \in held[p])
    BY <1>0
  <2> QED BY <2>4, <2>5, <1>0, AreaQuiet
<1> QED BY <1>4, <1>5, <1>6, <1>7 DEF Probe

Blank == Fresh /\ held = [p \in Proc |-> {}] /\ mem = [p \in Proc |-> NoMem] /\ lost = {}

(* With nothing held, layer 4 holds. *)
LEMMA AreaBlank == Blank => AreaInv
<1> SUFFICES ASSUME Blank PROVE AreaInv
  OBVIOUS
<1>1. /\ adapter = [d \in Device |-> Absent] /\ held = [p \in Proc |-> {}]
      /\ mem = [p \in Proc |-> NoMem] /\ lost = {}
  BY DEF Blank, Fresh
<1>2. ASSUME NEW d \in Device PROVE Listed(d)
  <2>1. adapter[d].areas = <<>> /\ adapter[d].phase = "absent"
    BY <1>1, AbsentFacts
  <2> QED BY <2>1, EmptyAreas DEF Listed
<1>3. Backed
  BY <1>1 DEF Backed
<1>4. PagesApart
  BY <1>1 DEF PagesApart, NoMem, Pages
<1>5. LostPages
  BY <1>1 DEF LostPages
<1> QED BY <1>2, <1>3, <1>4, <1>5 DEF AreaInv

(* Every step keeps layer 4. *)
LEMMA AreaInvStep == ProcInv /\ DeviceInv /\ CauseInv /\ AreaInv /\ [Next]_vars => AreaInv'
<1> SUFFICES ASSUME ProcInv, DeviceInv, CauseInv, AreaInv, [Next]_vars PROVE AreaInv'
  OBVIOUS
<1>1. ASSUME NEW p \in Proc, Main(p) PROVE AreaInv'
  <2>1. CASE \/ Private(p) \/ OpenQueue(p) \/ DeviceUp(p) \/ Registers(p) \/ IrqOpen(p) \/ CreateThread(p)
             \/ FailStep(p) \/ SigWait(p) \/ ThreadKill(p) \/ ThreadJoin(p) \/ ClosePrivate(p)
             \/ CloseDown(p) \/ Fault(p)
    BY <2>1, AreaQuietSteps
  <2>2. CASE OpenFile(p)
    BY <2>2, OpenFileArea
  <2>3. CASE MapPages(p)
    BY <2>3, MapPagesArea
  <2>4. CASE MapArea(p)
    BY <2>4, MapAreaArea
  <2>5. CASE UnmapArea(p)
    BY <2>5, UnmapAreaArea
  <2>6. CASE UnmapPages(p)
    BY <2>6, UnmapPagesArea
  <2>7. CASE ClosePut(p)
    BY <2>7, ClosePutArea
  <2> QED BY <1>1, <2>1, <2>2, <2>3, <2>4, <2>5, <2>6, <2>7 DEF Main
<1>2. ASSUME NEW p \in Proc, Interrupt(p) \/ Crash(p) PROVE AreaInv'
  BY <1>2, AreaQuietSteps, CrashArea
<1>3. ASSUME NEW p \in Proc, NEW c \in Core, ThreadRun(p, c) \/ ThreadEnd(p, c) PROVE AreaInv'
  BY <1>3, AreaQuietSteps
<1>4. ASSUME NEW d \in Device, Probe(d) \/ RemoveDevice(d) PROVE AreaInv'
  BY <1>4, ProbeArea, RemoveArea
<1>5. CASE Reboot
  <2>1. Blank'
    BY <1>5 DEF Reboot, Blank, Fresh
  <2> QED BY <2>1, AreaBlank, PTL
<1>6. CASE UNCHANGED vars
  <2>1. UNCHANGED <<adapter, held, file, mem, lost>>
    BY <1>6 DEF vars, procVars
  <2>2. \A p \in Proc : \A s : IsArea(s) => (s \in held'[p] <=> s \in held[p])
    BY <2>1
  <2>3. \A d \in Device : adapter'[d].areas = adapter[d].areas /\ adapter'[d].phase \in {adapter[d].phase, "bound"}
    BY <2>1
  <2> QED BY <2>1, <2>2, <2>3, AreaQuiet
<1> QED BY <1>1, <1>2, <1>3, <1>4, <1>5, <1>6 DEF Next

(* The first four layers hold in every state. *)
LEMMA AreasHold == Spec => [](ProcInv /\ DeviceInv /\ CauseInv /\ AreaInv)
<1>1. Init => AreaInv
  BY AreaBlank DEF Init, AdapterInit, Fresh, Blank
<1>2. ProcInv /\ DeviceInv /\ CauseInv /\ AreaInv /\ [Next]_vars => AreaInv'
  BY AreaInvStep
<1> QED BY <1>1, <1>2, LayersHold, PTL DEF Spec

(* The list of areas of an adapter stays in the order of the addresses,    *)
(* and its areas never overlap, whatever ixmap_dma_area_whereto misses.    *)
THEOREM LifecycleAreasOrdered == Spec => []AreasOrdered
<1>1. DeviceInv /\ AreaInv => AreasOrdered
  <2> SUFFICES ASSUME DeviceInv, AreaInv, NEW d \in Device, NEW k \in 1 .. Len(adapter[d].areas) - 1
               PROVE  adapter[d].areas[k].addr + adapter[d].areas[k].len <= adapter[d].areas[k + 1].addr
    BY DEF AreasOrdered
  <2>1. PICK s : s = adapter[d].areas
    OBVIOUS
  <2>2. s \in Seq(Area)
    BY <2>1, AdapterFields DEF DeviceInv
  <2>3. k \in 1 .. Len(s) /\ k + 1 \in 1 .. Len(s) /\ k < k + 1
    BY <2>1, <2>2
  <2>4. Sorted(s)
    BY <2>1 DEF AreaInv, Listed
  <2> QED BY <2>1, <2>3, <2>4 DEF Sorted
<1> QED BY <1>1, AreasHold, PTL

(* Every area of an adapter is its registers, or a process holds it and    *)
(* will unmap it, or it lies in pages that a killed process left behind:   *)
(* no error path of main and no orderly end leaves one.                    *)
THEOREM LifecycleNothingLeaks == Spec => []NothingLeaks
<1>1. ProcInv /\ DeviceInv /\ CauseInv /\ AreaInv => NothingLeaks
  <2> SUFFICES ASSUME ProcInv, DeviceInv, CauseInv, AreaInv, NEW d \in Device, NEW a \in Addresses(adapter[d].areas),
                      a \notin UNION {{AreaOf(p, s).addr : s \in {s \in held[p] :
                                         /\ s.act \in {"rxring", "txring", "buffer"}
                                         /\ file[p][s.port] = d /\ mem[p][s.call][s.core] # None}} : p \in Proc}
               PROVE  a = BarAddr \/ \E b \in lost : At(b, 0) <= a /\ a < At(b + 1, 0)
    BY DEF NothingLeaks
  <2>1. PICK x \in Members(adapter[d].areas) : x.addr = a
    BY DEF Addresses, Members
  <2>2. Accounted(d, x) /\ Sorted(adapter[d].areas) /\ adapter[d].areas \in Seq(Area)
    BY AdapterFields DEF AreaInv, Listed, DeviceInv
  <2>3. x \in Area /\ x.len # 0
    BY <2>2 DEF Members, Sorted
  <2>4. CASE x = Bar
    BY <2>1, <2>4 DEF Bar
  <2>5. CASE \E p \in Proc : \E s \in held[p] : Has(p, s, d) /\ x = AreaOf(p, s)
    <3>1. PICK p \in Proc : \E s \in held[p] : Has(p, s, d) /\ x = AreaOf(p, s)
      BY <2>5
    <3>2. PICK s \in held[p] : Has(p, s, d) /\ x = AreaOf(p, s)
      BY <3>1
    <3>3. mem[p][s.call][s.core] # None
      BY <3>2, HasFacts
    <3>4. s.act \in {"rxring", "txring", "buffer"} /\ file[p][s.port] = d
      BY <3>2 DEF Has, IsArea
    <3> QED BY <2>1, <3>2, <3>3, <3>4
  <2>6. CASE \E b \in lost : Inside(x, b)
    <3>1. PICK b \in lost : Inside(x, b)
      BY <2>6
    <3>2. b \in Nat
      BY LifecycleAssumption DEF CauseInv
    <3>3. Within(x.addr, b)
      BY <2>3, <3>1, <3>2, WithinOne
    <3> QED BY <2>1, <3>3 DEF Within
  <2> QED BY <2>2, <2>4, <2>5, <2>6 DEF Accounted
<1> QED BY <1>1, AreasHold, PTL

(* A thread that is held has what it works with: the areas, the eventfds   *)
(* and the queues of its core, and the files.                              *)
LEMMA ThreadHas ==
  ASSUME ProcInv, NEW p \in Proc, NEW c \in Core, ThreadStep(c) \in held[p], NEW i \in Port
  PROVE  {S("desc", "rxring", c, i), S("desc", "txring", c, i), S("buf", "buffer", c, i),
          S("plane", "rxirq", c, i), S("plane", "txirq", c, i), S("tun", "queue", c, i),
          S("open", "file", 0, i)} \subseteq held[p]
<1>1. ASSUME NEW s \in {S("desc", "rxring", c, i), S("desc", "txring", c, i), S("buf", "buffer", c, i),
                        S("plane", "rxirq", c, i), S("plane", "txirq", c, i), S("tun", "queue", c, i),
                        S("open", "file", 0, i)}
      PROVE  s \in held[p]
  <2>1. s \in AnyStep /\ IsResource(s)
    BY Sizes DEF S, AnyStep, Call, Act, IsResource
  <2>2. s \in Resource
    BY <2>1, ResourceIff
  <2>3. s.call \in {"desc", "tun", "open"} \/ (s.call \in {"plane", "buf"} /\ s.core = c)
    BY DEF S
  <2>4. ThreadStep(c).act = "thread" /\ ThreadStep(c).core = c
    BY Named
  <2>5. Dep(ThreadStep(c), s)
    BY <2>3, <2>4 DEF Dep
  <2> QED BY <2>2, <2>5, HeldClosed
<1> QED BY <1>1

(* The addresses of the areas of a core that are held are in the list. *)
LEMMA MappedAddresses ==
  ASSUME ProcInv, DeviceInv, AreaInv, NEW p \in Proc, NEW c \in Core, NEW i \in Port, Valid(p, i),
         NEW d, d = file[p][i]
  PROVE  /\ S("desc", "rxring", c, i) \in held[p] => At(mem[p]["desc"][c], RxOff(i)) \in Addresses(adapter[d].areas)
         /\ S("desc", "txring", c, i) \in held[p] => At(mem[p]["desc"][c], TxOff(i)) \in Addresses(adapter[d].areas)
         /\ S("buf", "buffer", c, i) \in held[p] => At(mem[p]["buf"][c], 0) \in Addresses(adapter[d].areas)
<1>1. ASSUME NEW s \in held[p], IsArea(s), s.port = i PROVE AreaOf(p, s).addr \in Addresses(adapter[d].areas)
  <2>1. d \in Device /\ Has(p, s, d)
    BY <1>1 DEF Valid, Has
  <2>2. AreaOf(p, s) \in Members(adapter[d].areas)
    BY <1>1, <2>1 DEF AreaInv, Backed
  <2> QED BY <2>2 DEF Addresses, Members
<1>2. ASSUME S("desc", "rxring", c, i) \in held[p] PROVE At(mem[p]["desc"][c], RxOff(i)) \in Addresses(adapter[d].areas)
  <2>1. PICK s : s = S("desc", "rxring", c, i)
    OBVIOUS
  <2>2. s.act = "rxring" /\ s.core = c /\ s.port = i
    BY <2>1 DEF S
  <2>3. AreaOf(p, s).addr = At(mem[p]["desc"][c], RxOff(i))
    BY <2>2 DEF AreaOf
  <2> QED BY <1>1, <1>2, <2>1, <2>2, <2>3 DEF IsArea
<1>3. ASSUME S("desc", "txring", c, i) \in held[p] PROVE At(mem[p]["desc"][c], TxOff(i)) \in Addresses(adapter[d].areas)
  <2>1. PICK s : s = S("desc", "txring", c, i)
    OBVIOUS
  <2>2. s.act = "txring" /\ s.core = c /\ s.port = i
    BY <2>1 DEF S
  <2>3. AreaOf(p, s).addr = At(mem[p]["desc"][c], TxOff(i))
    BY <2>2 DEF AreaOf
  <2> QED BY <1>1, <1>3, <2>1, <2>2, <2>3 DEF IsArea
<1>4. ASSUME S("buf", "buffer", c, i) \in held[p] PROVE At(mem[p]["buf"][c], 0) \in Addresses(adapter[d].areas)
  <2>1. PICK s : s = S("buf", "buffer", c, i)
    OBVIOUS
  <2>2. s.act = "buffer" /\ s.core = c /\ s.port = i
    BY <2>1 DEF S
  <2>3. AreaOf(p, s).addr = At(mem[p]["buf"][c], 0)
    BY <2>2 DEF AreaOf
  <2> QED BY <1>1, <1>4, <2>1, <2>2, <2>3 DEF IsArea
<1> QED BY <1>2, <1>3, <1>4

(* While a thread runs everything it works with is in place, also while    *)
(* main unwinds because another core failed to start.                      *)
THEOREM LifecycleThreadBacked == Spec => []ThreadBacked
<1>1. ProcInv /\ DeviceInv /\ AreaInv => ThreadBacked
  <2> SUFFICES ASSUME ProcInv, DeviceInv, AreaInv,
                      NEW p \in Proc, NEW c \in Core, NEW i \in Port, thr[p][c] = "running"
               PROVE  /\ {S("desc", "rxring", c, i), S("desc", "txring", c, i), S("buf", "buffer", c, i),
                          S("plane", "rxirq", c, i), S("plane", "txirq", c, i), S("tun", "queue", c, i),
                          S("open", "file", 0, i)} \subseteq held[p]
                      /\ Valid(p, i) =>
                           {At(mem[p]["desc"][c], RxOff(i)), At(mem[p]["desc"][c], TxOff(i)), At(mem[p]["buf"][c], 0)}
                               \subseteq Addresses(adapter[file[p][i]].areas)
    BY DEF ThreadBacked
  <2>1. ThreadStep(c) \in held[p]
    BY DEF ProcInv, Handles
  <2>2. {S("desc", "rxring", c, i), S("desc", "txring", c, i), S("buf", "buffer", c, i),
         S("plane", "rxirq", c, i), S("plane", "txirq", c, i), S("tun", "queue", c, i),
         S("open", "file", 0, i)} \subseteq held[p]
    BY <2>1, ThreadHas
  <2>3. ASSUME Valid(p, i)
        PROVE  {At(mem[p]["desc"][c], RxOff(i)), At(mem[p]["desc"][c], TxOff(i)), At(mem[p]["buf"][c], 0)}
                   \subseteq Addresses(adapter[file[p][i]].areas)
    BY <2>2, <2>3, MappedAddresses, SMTT(40)
  <2> QED BY <2>2, <2>3
<1> QED BY <1>1, AreasHold, PTL

-----------------------------------------------------------------------------
(* Layer 5: what the NIC was told.                                         *)

\* Once the registers of a port are written, the rings are where main put
\* them; the NIC has slots of a queue only if the thread of the queue was
\* created, and they are in its buffer; and what a killed process told the NIC
\* stays mapped until its file is closed.
TargetsAt(p, i) == LET a == adapter[file[p][i]] IN
  /\ ~ Releasing(p) /\ Passed(p, RegisterStep(i)) =>
       \A q \in Core : a.ring[q] = [rx |-> At(mem[p]["desc"][q], RxOff(i)), tx |-> At(mem[p]["desc"][q], TxOff(i))]
  /\ ~ Releasing(p) =>
       \A q \in Core : a.posted[q] # None => ThreadStep(q) \in held[p] /\ a.posted[q] = At(mem[p]["buf"][q], 0)
  /\ mode[p] = "dying" =>
       \A q \in Core : a.posted[q] # None => {a.ring[q].rx, a.ring[q].tx, a.posted[q]} \subseteq Addresses(a.areas)

TargetInv == \A p \in Proc, i \in Port : Valid(p, i) => TargetsAt(p, i)

\* The step changes nothing about port i of the process that matters to what
\* the NIC was told.
Steady(p, i) ==
  /\ ~ Releasing(p)' =>
       /\ ~ Releasing(p)
       /\ Passed(p, RegisterStep(i))' => Passed(p, RegisterStep(i))
       /\ Passed(p, RegisterStep(i)) => \A q \in Core : mem'[p]["desc"][q] = mem[p]["desc"][q]
       /\ \A q \in Core : ThreadStep(q) \in held[p] =>
            ThreadStep(q) \in held'[p] /\ mem'[p]["buf"][q] = mem[p]["buf"][q]
  /\ mode'[p] = "dying" => mode[p] = "dying"

(* The targets on an adapter that the step does not change. *)
LEMMA TargetFrame ==
  ASSUME NEW p \in Proc, NEW i \in Port, TargetsAt(p, i), Steady(p, i), file'[p][i] = file[p][i],
         NEW a, a = adapter[file[p][i]], NEW b, b = adapter'[file[p][i]],
         b.ring = a.ring, b.posted = a.posted, mode'[p] = "dying" => b.areas = a.areas
  PROVE  TargetsAt(p, i)'
<1>1. ASSUME ~ Releasing(p)', Passed(p, RegisterStep(i))', NEW q \in Core
      PROVE  b.ring[q] = [rx |-> At(mem'[p]["desc"][q], RxOff(i)), tx |-> At(mem'[p]["desc"][q], TxOff(i))]
  <2>1. ~ Releasing(p) /\ Passed(p, RegisterStep(i)) /\ mem'[p]["desc"][q] = mem[p]["desc"][q]
    BY <1>1 DEF Steady
  <2>2. a.ring[q] = [rx |-> At(mem[p]["desc"][q], RxOff(i)), tx |-> At(mem[p]["desc"][q], TxOff(i))]
    BY <2>1 DEF TargetsAt
  <2> QED BY <2>1, <2>2
<1>2. ASSUME ~ Releasing(p)', NEW q \in Core, b.posted[q] # None
      PROVE  ThreadStep(q) \in held'[p] /\ b.posted[q] = At(mem'[p]["buf"][q], 0)
  <2>1. ~ Releasing(p) /\ a.posted[q] # None
    BY <1>2 DEF Steady
  <2>2. ThreadStep(q) \in held[p] /\ a.posted[q] = At(mem[p]["buf"][q], 0)
    BY <2>1 DEF TargetsAt
  <2>3. ThreadStep(q) \in held'[p] /\ mem'[p]["buf"][q] = mem[p]["buf"][q]
    BY <1>2, <2>2 DEF Steady
  <2> QED BY <2>2, <2>3
<1>3. ASSUME mode'[p] = "dying", NEW q \in Core, b.posted[q] # None
      PROVE  {b.ring[q].rx, b.ring[q].tx, b.posted[q]} \subseteq Addresses(b.areas)
  <2>1. mode[p] = "dying" /\ a.posted[q] # None /\ b.areas = a.areas
    BY <1>3 DEF Steady
  <2>2. {a.ring[q].rx, a.ring[q].tx, a.posted[q]} \subseteq Addresses(a.areas)
    BY <2>1 DEF TargetsAt
  <2> QED BY <2>1, <2>2
<1>4. b = adapter'[file'[p][i]]
  OBVIOUS
<1> QED BY <1>1, <1>2, <1>3, <1>4, ZenonT(60) DEF TargetsAt, At, RxOff, TxOff

(* A process that releases and was not killed has no targets to speak of. *)
LEMMA NoTargets ==
  ASSUME NEW p, NEW i, mode'[p] \in {"release", "aborted"}
  PROVE  TargetsAt(p, i)'
BY DEF TargetsAt, Releasing

(* A process that does not move. *)
LEMMA SteadyFrame ==
  ASSUME NEW q, NEW i, mode'[q] = mode[q], pc'[q] = pc[q], held'[q] = held[q], mem'[q] = mem[q]
  PROVE  Steady(q, i)
BY DEF Steady, Passed, Now, Releasing

(* A step of one process leaves the targets of the others. *)
LEMMA TargetBy ==
  ASSUME TargetInv, NEW p \in Proc,
         \A q \in Proc : q # p => /\ mode'[q] = mode[q] /\ pc'[q] = pc[q] /\ held'[q] = held[q]
                                  /\ mem'[q] = mem[q] /\ file'[q] = file[q],
         \A q \in Proc, j \in Port : q # p /\ Valid(q, j) => adapter'[file[q][j]] = adapter[file[q][j]],
         \A i \in Port : Valid(p, i)' => TargetsAt(p, i)'
  PROVE  TargetInv'
<1>1. ASSUME NEW q \in Proc, NEW j \in Port, q # p, Valid(q, j)' PROVE TargetsAt(q, j)'
  <2>1. Valid(q, j) /\ file'[q][j] = file[q][j]
    BY <1>1 DEF Valid
  <2>2. TargetsAt(q, j) /\ adapter'[file[q][j]] = adapter[file[q][j]]
    BY <1>1, <2>1 DEF TargetInv
  <2>3. Steady(q, j)
    BY <1>1, SteadyFrame
  <2> QED BY <2>1, <2>2, <2>3, TargetFrame
<1> QED BY <1>1 DEF TargetInv

(* Two open files have two adapters. *)
LEMMA OtherFiles ==
  ASSUME DeviceInv, NEW p \in Proc, NEW i \in Port, Valid(p, i),
         NEW q \in Proc, NEW j \in Port, Valid(q, j), q # p \/ j # i
  PROVE  file[q][j] \in Device /\ file[q][j] # file[p][i]
BY DEF DeviceInv, OneFile, Valid

(* main writes the registers after it has the pages of all rings, and      *)
(* creates the threads after that.                                         *)
LEMMA RegistersFirst ==
  ASSUME ProcInv, NEW p \in Proc, NEW i \in Port, ~ Releasing(p)
  PROVE  /\ Passed(p, RegisterStep(i)) => \A c \in Core : PageStep("desc", c) \in held[p]
         /\ \A c \in Core : ThreadStep(c) \in held[p] => Passed(p, RegisterStep(i))
<1>1. held[p] = {x \in Resource : Passed(p, x)} /\ pc[p] \in 1 .. Len(Startup)
  BY DEF ProcInv, ProcTypes, Where
<1>2. mode[p] = "wait" \/ mode[p] \in {"off", "start"}
  BY DEF ProcInv, ProcTypes, Mode, Releasing
<1>3. Now(p) \in AnyStep
  BY <1>1, StartupOrder DEF Now
<1>4. Stage(Now(p)) \in Nat /\ Stage(RegisterStep(i)) = 3
  BY DEF Stage, RegisterStep, S
<1>5. ASSUME Passed(p, RegisterStep(i)), NEW c \in Core PROVE PageStep("desc", c) \in held[p]
  <2>1. PageStep("desc", c) \in Resource /\ Stage(PageStep("desc", c)) = 2
    <3>1. PageStep("desc", c) \in Resource
      BY Named DEF Pages
    <3> QED BY <3>1 DEF PageStep, S, Stage
  <2>2. CASE mode[p] = "wait"
    BY <2>1, <2>2, <1>1 DEF Passed
  <2>3. CASE mode[p] \in {"off", "start"}
    <3>1. Before(RegisterStep(i), Now(p))
      BY <2>3, <1>5 DEF Passed
    <3>2. 3 <= Stage(Now(p))
      BY <3>1, <1>4 DEF Before
    <3>3. Before(PageStep("desc", c), Now(p))
      BY <3>2, <2>1, <1>4 DEF Before
    <3> QED BY <3>3, <2>1, <2>3, <1>1 DEF Passed
  <2> QED BY <2>2, <2>3, <1>2
<1>6. ASSUME NEW c \in Core, ThreadStep(c) \in held[p] PROVE Passed(p, RegisterStep(i))
  <2>1. CASE mode[p] = "wait"
    BY <2>1 DEF Passed
  <2>2. CASE mode[p] \in {"off", "start"}
    <3>1. Before(ThreadStep(c), Now(p)) /\ Stage(ThreadStep(c)) = 6
      BY <2>2, <1>1, <1>6 DEF Passed, ThreadStep, S, Stage
    <3>2. 6 <= Stage(Now(p))
      BY <3>1, <1>4 DEF Before
    <3> QED BY <3>2, <2>2, <1>4 DEF Before, Passed
  <2> QED BY <2>1, <2>2, <1>2
<1> QED BY <1>5, <1>6

(* A step of main that succeeds, on a port whose registers it does not     *)
(* write.                                                                  *)
LEMMA SteadyAcquired ==
  ASSUME ProcInv, NEW p \in Proc, NEW i \in Port, NEW acts, NEW s \in Step(p, acts), Acquired(p, s),
         s # RegisterStep(i),
         \/ mem' = mem
         \/ s.act = "mmap" /\ \E b : mem' = [mem EXCEPT ![p][s.call][s.core] = b]
  PROVE  Steady(p, i)
<1>1. /\ held'[p] = held[p] \cup ({s} \cap Resource) /\ mode'[p] \in {"start", "wait"}
      /\ \A x \in StartStep : Passed(p, x)' <=> Passed(p, x) \/ x = s
  BY AcquiredFacts
<1>2. ~ Releasing(p) /\ s \notin held[p]
  BY StepFacts
<1>3. Passed(p, RegisterStep(i))' => Passed(p, RegisterStep(i))
  BY <1>1, Named
<1>4. ASSUME NEW k \in Pages, NEW c \in Core, PageStep(k, c) \in held[p] PROVE mem'[p][k][c] = mem[p][k][c]
  <2>1. CASE mem' = mem
    BY <2>1
  <2>2. CASE s.act = "mmap" /\ \E b : mem' = [mem EXCEPT ![p][s.call][s.core] = b]
    <3>1. PICK b : mem' = [mem EXCEPT ![p][s.call][s.core] = b]
      BY <2>2
    <3>2. s = PageStep(s.call, s.core) /\ s.call \in Pages /\ s.core \in Core
      BY <2>2, StepFacts, NameOf
    <3>3. k # s.call \/ c # s.core
      BY <3>2, <1>2, <1>4
    <3> QED BY <3>1, <3>2, <3>3 DEF ProcInv, ProcTypes
  <2> QED BY <2>1, <2>2
<1>5. Passed(p, RegisterStep(i)) => \A q \in Core : mem'[p]["desc"][q] = mem[p]["desc"][q]
  <2>1. "desc" \in Pages
    BY DEF Pages
  <2> QED BY <2>1, <1>2, <1>4, RegistersFirst
<1>6. ASSUME NEW q \in Core, ThreadStep(q) \in held[p]
      PROVE  ThreadStep(q) \in held'[p] /\ mem'[p]["buf"][q] = mem[p]["buf"][q]
  <2>1. "buf" \in Pages /\ PageStep("buf", q) \in held[p]
    BY <1>6, ThreadNeeds DEF Pages
  <2> QED BY <2>1, <1>1, <1>4, <1>6
<1>7. mode'[p] # "dying"
  BY <1>1
<1> QED BY <1>2, <1>3, <1>5, <1>6, <1>7 DEF Steady

(* A step of main that writes no registers and opens no file, whether it   *)
(* succeeds or fails.                                                      *)
LEMMA TargetStart ==
  ASSUME ProcInv, DeviceInv, TargetInv, NEW p \in Proc, NEW acts, NEW s \in Step(p, acts), "registers" \notin acts,
         Acquired(p, s) \/ Failed(p, s, held[p]) \/ Failed(p, s, held[p] \cup {s}), file' = file,
         \/ mem' = mem
         \/ s.act = "mmap" /\ \E b : mem' = [mem EXCEPT ![p][s.call][s.core] = b],
         \A q \in Proc, j \in Port : q # p /\ Valid(q, j) => adapter'[file[q][j]] = adapter[file[q][j]],
         \A j \in Port : Valid(p, j) => /\ adapter'[file[p][j]].ring = adapter[file[p][j]].ring
                                        /\ adapter'[file[p][j]].posted = adapter[file[p][j]].posted
  PROVE  TargetInv'
<1>1. ASSUME NEW q \in Proc, q # p
      PROVE  mode'[q] = mode[q] /\ pc'[q] = pc[q] /\ held'[q] = held[q] /\ mem'[q] = mem[q] /\ file'[q] = file[q]
  <2>1. mode'[q] = mode[q] /\ pc'[q] = pc[q] /\ held'[q] = held[q]
    BY <1>1 DEF Acquired, Failed, ProcInv, ProcTypes
  <2>2. mem'[q] = mem[q]
    BY <1>1 DEF ProcInv, ProcTypes
  <2> QED BY <2>1, <2>2
<1>2. ASSUME NEW i \in Port, Valid(p, i)' PROVE TargetsAt(p, i)'
  <2>1. Valid(p, i) /\ TargetsAt(p, i)
    BY <1>2 DEF Valid, TargetInv
  <2>2. CASE Acquired(p, s)
    <3>1. s # RegisterStep(i)
      BY StepFacts, Named
    <3>2. Steady(p, i)
      BY <2>2, <3>1, SteadyAcquired
    <3>3. mode'[p] # "dying"
      BY <2>2, AcquiredFacts
    <3> QED BY <2>1, <3>2, <3>3, TargetFrame
  <2>3. CASE Failed(p, s, held[p]) \/ Failed(p, s, held[p] \cup {s})
    <3>1. mode'[p] = "release"
      BY <2>3 DEF Failed, ProcInv, ProcTypes
    <3> QED BY <3>1, NoTargets
  <2> QED BY <2>2, <2>3
<1> QED BY <1>1, <1>2, TargetBy

(* The steps of main that write no registers and open no file keep layer 5. *)
LEMMA TargetStarts ==
  ASSUME ProcInv, DeviceInv, TargetInv, NEW p \in Proc,
         \/ Private(p) \/ OpenQueue(p) \/ MapPages(p) \/ CreateThread(p) \/ FailStep(p)
         \/ MapArea(p) \/ IrqOpen(p) \/ DeviceUp(p)
  PROVE  TargetInv'
<1>0. adapter \in [Device -> AdapterType]
  BY DEF DeviceInv
<1>1. ASSUME adapter' = adapter
      PROVE  /\ \A q \in Proc, j \in Port : q # p /\ Valid(q, j) => adapter'[file[q][j]] = adapter[file[q][j]]
             /\ \A j \in Port : Valid(p, j) => /\ adapter'[file[p][j]].ring = adapter[file[p][j]].ring
                                               /\ adapter'[file[p][j]].posted = adapter[file[p][j]].posted
  BY <1>1
<1>2. ASSUME NEW i \in Port, Valid(p, i), NEW b, adapter' = [adapter EXCEPT ![file[p][i]] = b],
             b.ring = adapter[file[p][i]].ring, b.posted = adapter[file[p][i]].posted
      PROVE  /\ \A q \in Proc, j \in Port : q # p /\ Valid(q, j) => adapter'[file[q][j]] = adapter[file[q][j]]
             /\ \A j \in Port : Valid(p, j) => /\ adapter'[file[p][j]].ring = adapter[file[p][j]].ring
                                               /\ adapter'[file[p][j]].posted = adapter[file[p][j]].posted
  <2>1. /\ \A q \in Proc, j \in Port : (q # p \/ j # i) /\ Valid(q, j) => adapter'[file[q][j]] = adapter[file[q][j]]
        /\ adapter'[file[p][i]] = b
    <3>1. file[p][i] \in Device
      BY <1>2 DEF Valid
    <3>2. ASSUME NEW q \in Proc, NEW j \in Port, q # p \/ j # i, Valid(q, j)
          PROVE  adapter'[file[q][j]] = adapter[file[q][j]]
      <4>1. file[q][j] \in Device /\ file[q][j] # file[p][i]
        BY <1>2, <3>2, OtherFiles
      <4> QED BY <4>1, <3>1, <1>0, <1>2
    <3> QED BY <3>1, <3>2, <1>0, <1>2
  <2>2. ASSUME NEW j \in Port, Valid(p, j)
        PROVE  /\ adapter'[file[p][j]].ring = adapter[file[p][j]].ring
               /\ adapter'[file[p][j]].posted = adapter[file[p][j]].posted
    <3>1. CASE j = i
      BY <3>1, <2>1, <1>2
    <3>2. CASE j # i
      BY <3>2, <2>1, <2>2
    <3> QED BY <3>1, <3>2
  <2> QED BY <2>1, <2>2
<1>3. CASE Private(p)
  <2>1. PICK s \in Step(p, {"bar", "rings", "slots", "pool", "mask", "alloc"}) :
           Acquired(p, s) /\ UNCHANGED <<adapter, file, mem>>
    BY <1>3 DEF Private
  <2> QED BY <2>1, <1>1, TargetStart
<1>4. CASE OpenQueue(p)
  <2>1. PICK s \in Step(p, {"queue"}) : AcquiredOrFailed(p, s) /\ UNCHANGED <<adapter, file, mem>>
    BY <1>4 DEF OpenQueue
  <2>2. Acquired(p, s) \/ Failed(p, s, held[p] \cup {s})
    BY <2>1 DEF AcquiredOrFailed
  <2> QED BY <2>1, <2>2, <1>1, TargetStart
<1>5. CASE MapPages(p)
  <2>1. PICK s \in Step(p, {"mmap"}) :
           /\ \E b : mem' = [mem EXCEPT ![p][s.call][s.core] = b]
           /\ Acquired(p, s) /\ UNCHANGED <<adapter, file>>
    BY <1>5 DEF MapPages
  <2>2. s.act = "mmap"
    BY StepFacts
  <2> QED BY <2>1, <2>2, <1>1, TargetStart
<1>6. CASE CreateThread(p)
  <2>1. PICK s \in Step(p, {"thread"}) : Acquired(p, s) /\ UNCHANGED <<adapter, file, mem>>
    BY <1>6 DEF CreateThread
  <2> QED BY <2>1, <1>1, TargetStart
<1>7. CASE FailStep(p)
  <2>1. PICK s \in Step(p, Fallible) : Failed(p, s, held[p]) /\ UNCHANGED <<adapter, file, mem>>
    BY <1>7 DEF FailStep
  <2>2. "registers" \notin Fallible
    BY SMTT(40) DEF Fallible
  <2> QED BY <2>1, <2>2, <1>1, TargetStart
<1>8. CASE MapArea(p)
  <2>1. PICK s \in Step(p, {"rxring", "txring", "buffer"}) :
           /\ Valid(p, s.port)
           /\ CanMap(adapter[file[p][s.port]], AreaOf(p, s).addr, AreaOf(p, s).len)
           /\ adapter' = [adapter EXCEPT ![file[p][s.port]] = dma_map(@, AreaOf(p, s).addr, AreaOf(p, s).len)]
           /\ Acquired(p, s) \/ AcquiredOrFailed(p, s)
           /\ UNCHANGED <<file, mem>>
    BY <1>8 DEF MapArea
  <2>2. Acquired(p, s) \/ Failed(p, s, held[p] \cup {s})
    BY <2>1 DEF AcquiredOrFailed
  <2>3. PICK i \in Port : i = s.port
    <3>1. s \in Resource /\ IsArea(s)
      BY StepFacts DEF IsPlain, IsArea
    <3> QED BY <3>1, AreaNeeds
  <2>4. PICK b : b = dma_map(adapter[file[p][i]], AreaOf(p, s).addr, AreaOf(p, s).len)
    OBVIOUS
  <2>5. adapter' = [adapter EXCEPT ![file[p][i]] = b] /\ Valid(p, i) /\ adapter[file[p][i]] \in AdapterType
    BY <2>1, <2>3, <2>4, <1>0 DEF Valid
  <2>6. b.ring = adapter[file[p][i]].ring /\ b.posted = adapter[file[p][i]].posted
    BY <2>4, <2>5, SMTT(40) DEF dma_map, AdapterType
  <2> QED BY <2>1, <2>2, <2>5, <2>6, <1>2, TargetStart
<1>9. CASE IrqOpen(p)
  <2>1. PICK s \in Step(p, {"rxirq", "txirq"}) :
           /\ Valid(p, s.port)
           /\ adapter' = [adapter EXCEPT ![file[p][s.port]] =
                             irq_assign(@, <<s.core, IF s.act = "rxirq" THEN "rx" ELSE "tx">>, p)]
           /\ AcquiredOrFailed(p, s) /\ UNCHANGED <<file, mem>>
    BY <1>9 DEF IrqOpen
  <2>2. Acquired(p, s) \/ Failed(p, s, held[p] \cup {s})
    BY <2>1 DEF AcquiredOrFailed
  <2>3. PICK i \in Port : i = s.port
    BY StepFacts, NameOf
  <2>4. PICK v : v = <<s.core, IF s.act = "rxirq" THEN "rx" ELSE "tx">>
    OBVIOUS
  <2>5. PICK b : b = irq_assign(adapter[file[p][i]], v, p)
    OBVIOUS
  <2>6. adapter' = [adapter EXCEPT ![file[p][i]] = b] /\ Valid(p, i) /\ adapter[file[p][i]] \in AdapterType
    BY <2>1, <2>3, <2>4, <2>5, <1>0 DEF Valid
  <2>7. b.ring = adapter[file[p][i]].ring /\ b.posted = adapter[file[p][i]].posted
    BY <2>5, <2>6, SMTT(40) DEF irq_assign, AdapterType
  <2> QED BY <2>1, <2>2, <2>6, <2>7, <1>2, TargetStart
<1>10. CASE DeviceUp(p)
  <2>1. PICK s \in Step(p, {"up"}), msix \in {"ok", "failed"} :
           /\ Valid(p, s.port)
           /\ adapter' = [adapter EXCEPT ![file[p][s.port]] = cmd_up(@, msix)]
           /\ Acquired(p, s) /\ UNCHANGED <<file, mem>>
    BY <1>10 DEF DeviceUp
  <2>2. PICK i \in Port : i = s.port
    BY StepFacts, NameOf
  <2>3. PICK b : b = cmd_up(adapter[file[p][i]], msix)
    OBVIOUS
  <2>4. adapter' = [adapter EXCEPT ![file[p][i]] = b] /\ Valid(p, i) /\ adapter[file[p][i]] \in AdapterType
    BY <2>1, <2>2, <2>3, <1>0 DEF Valid
  <2>5. b.ring = adapter[file[p][i]].ring /\ b.posted = adapter[file[p][i]].posted
    BY <2>3, <2>4 DEF cmd_up, ixmap_up, configure_msix, AdapterType
  <2> QED BY <2>1, <2>4, <2>5, <1>2, TargetStart
<1> QED BY <1>3, <1>4, <1>5, <1>6, <1>7, <1>8, <1>9, <1>10

(* The registers of a port keep layer 5. *)
LEMMA RegistersTarget ==
  ASSUME ProcInv, DeviceInv, TargetInv, NEW p \in Proc, Registers(p)
  PROVE  TargetInv'
<1>1. PICK s \in Step(p, {"registers"}) :
         /\ adapter' = IF ~Valid(p, s.port) THEN adapter
                       ELSE [adapter EXCEPT ![file[p][s.port]] =
                               configure(@, [q \in Core |->
                                   [rx |-> configure_rx_ring(p, q, s.port),
                                    tx |-> configure_tx_ring(p, q, s.port)]])]
         /\ Acquired(p, s) /\ UNCHANGED <<file, mem>>
  BY DEF Registers
<1>2. PICK i \in Port : i = s.port /\ s = RegisterStep(i)
  BY StepFacts, NameOf
<1>3. PICK g : g = [q \in Core |-> [rx |-> At(mem[p]["desc"][q], RxOff(i)), tx |-> At(mem[p]["desc"][q], TxOff(i))]]
  OBVIOUS
<1>4. adapter \in [Device -> AdapterType]
  BY DEF DeviceInv
<1>5. adapter' = IF ~Valid(p, i) THEN adapter ELSE [adapter EXCEPT ![file[p][i]] = configure(@, g)]
  BY <1>1, <1>2, <1>3 DEF configure_rx_ring, configure_tx_ring
<1>6. /\ \A q \in Proc, j \in Port : (q # p \/ j # i) /\ Valid(q, j) => adapter'[file[q][j]] = adapter[file[q][j]]
      /\ Valid(p, i) => adapter'[file[p][i]] = configure(adapter[file[p][i]], g)
  <2>1. CASE ~ Valid(p, i)
    BY <2>1, <1>5
  <2>2. CASE Valid(p, i)
    <3>1. file[p][i] \in Device /\ adapter' = [adapter EXCEPT ![file[p][i]] = configure(@, g)]
      BY <2>2, <1>5 DEF Valid
    <3>2. ASSUME NEW q \in Proc, NEW j \in Port, q # p \/ j # i, Valid(q, j)
          PROVE  adapter'[file[q][j]] = adapter[file[q][j]]
      <4>1. file[q][j] \in Device /\ file[q][j] # file[p][i]
        BY <2>2, <3>2, OtherFiles
      <4> QED BY <4>1, <3>1, <1>4
    <3> QED BY <3>1, <3>2, <1>4
  <2> QED BY <2>1, <2>2
<1>7. mode'[p] \in {"start", "wait"} /\ held'[p] = held[p] \cup ({s} \cap Resource) /\ ~ Releasing(p)
  BY <1>1, AcquiredFacts, StepFacts
<1>8. ASSUME NEW j \in Port, Valid(p, j)' PROVE TargetsAt(p, j)'
  <2>1. Valid(p, j) /\ TargetsAt(p, j)
    BY <1>1, <1>8 DEF Valid, TargetInv
  <2>2. CASE j # i
    <3>1. s # RegisterStep(j)
      BY <2>2, <1>2, Named
    <3>2. Steady(p, j)
      BY <3>1, <1>1, SteadyAcquired
    <3>3. adapter'[file[p][j]] = adapter[file[p][j]]
      BY <2>1, <2>2, <1>6
    <3> QED BY <2>1, <3>2, <3>3, <1>1, TargetFrame
  <2>3. CASE j = i
    <3>1. PICK a \in AdapterType : a = adapter[file[p][i]]
      BY <2>1, <2>3, <1>4 DEF Valid
    <3>2. PICK b : b = adapter'[file'[p][i]]
      OBVIOUS
    <3>3. b = configure(a, g)
      BY <2>1, <2>3, <3>1, <3>2, <1>1, <1>6
    <3>4. b.ring = g /\ b.posted = a.posted
      BY <3>3 DEF configure, AdapterType
    <3>5. \A q \in Core : b.ring[q] = [rx |-> At(mem'[p]["desc"][q], RxOff(i)), tx |-> At(mem'[p]["desc"][q], TxOff(i))]
      BY <3>4, <1>1, <1>3
    <3>6. ASSUME NEW q \in Core, b.posted[q] # None
          PROVE  ThreadStep(q) \in held'[p] /\ b.posted[q] = At(mem'[p]["buf"][q], 0)
      BY <2>1, <2>3, <3>1, <3>4, <3>6, <1>1, <1>7 DEF TargetsAt
    <3>7. mode'[p] # "dying"
      BY <1>7
    <3> QED BY <2>3, <3>2, <3>5, <3>6, <3>7 DEF TargetsAt, At, RxOff, TxOff
  <2> QED BY <2>2, <2>3
<1>9. ASSUME NEW q \in Proc, q # p
      PROVE  mode'[q] = mode[q] /\ pc'[q] = pc[q] /\ held'[q] = held[q] /\ mem'[q] = mem[q] /\ file'[q] = file[q]
  BY <1>1, <1>9, AcquiredFacts
<1> QED BY <1>6, <1>8, <1>9, TargetBy

(* open(2) keeps layer 5: the NIC has no slots yet. *)
LEMMA OpenFileTarget ==
  ASSUME ProcInv, DeviceInv, TargetInv, NEW p \in Proc, OpenFile(p)
  PROVE  TargetInv'
<1>1. PICK s \in Step(p, {"file"}), d \in Bound :
         /\ ~ inuse(adapter[d]) /\ adapter' = [adapter EXCEPT ![d] = adapter_get(@)]
         /\ file' = [file EXCEPT ![p][s.port] = d] /\ Acquired(p, s) /\ UNCHANGED mem
  BY DEF OpenFile
<1>2. PICK i \in Port : i = s.port /\ s = FileStep(i)
  BY StepFacts, NameOf
<1>3. d \in Device /\ adapter[d].phase = "bound" /\ adapter[d] \in AdapterType /\ adapter \in [Device -> AdapterType]
  BY DEF Bound, DeviceInv
<1>4. ~ Owned(d) /\ adapter[d].posted = NoRing
  <2>1. adapter[d].refcount = 1
    BY <1>1 DEF inuse
  <2>2. adapter[d].refcount = IF Owned(d) THEN 2 ELSE 1
    BY <1>3 DEF DeviceInv, Kept
  <2>3. ~ Owned(d)
    BY <2>1, <2>2
  <2> QED BY <2>3, <1>3 DEF DeviceInv, Kept
<1>5. /\ \A q \in Proc, j \in Port : Valid(q, j) => adapter'[file[q][j]] = adapter[file[q][j]]
      /\ adapter'[d].posted = NoRing
  <2>1. ASSUME NEW q \in Proc, NEW j \in Port, Valid(q, j) PROVE adapter'[file[q][j]] = adapter[file[q][j]]
    <3>1. file[q][j] \in Device /\ file[q][j] # d
      BY <2>1, <1>4 DEF Valid, Owned
    <3> QED BY <3>1, <1>1, <1>3
  <2>2. adapter'[d] = adapter_get(adapter[d])
    BY <1>1, <1>3
  <2>3. adapter'[d].posted = NoRing
    BY <2>2, <1>3, <1>4 DEF adapter_get, AdapterType
  <2> QED BY <2>1, <2>3
<1>6. /\ file'[p][i] = d /\ \A j \in Port : j # i => file'[p][j] = file[p][j]
      /\ \A q \in Proc : q # p => file'[q] = file[q]
  BY <1>1, <1>2 DEF ProcInv, ProcTypes
<1>7. /\ mode'[p] \in {"start", "wait"}
      /\ \A x \in StartStep : Passed(p, x)' <=> Passed(p, x) \/ x = s
  BY <1>1, AcquiredFacts
<1>8. ASSUME NEW j \in Port, Valid(p, j)' PROVE TargetsAt(p, j)'
  <2>1. s # RegisterStep(j)
    BY <1>2, Named
  <2>2. CASE j # i
    <3>1. Valid(p, j) /\ TargetsAt(p, j) /\ file'[p][j] = file[p][j]
      BY <2>2, <1>6, <1>8 DEF Valid, TargetInv
    <3>2. Steady(p, j)
      BY <2>1, <1>1, SteadyAcquired
    <3> QED BY <3>1, <3>2, <1>5, TargetFrame
  <2>3. CASE j = i
    <3>1. ~ Passed(p, RegisterStep(i))'
      <4>1. ~ Passed(p, RegisterStep(i))
        BY <1>2, ProgramOrder
      <4> QED BY <2>1, <2>3, <4>1, <1>7, Named
    <3>2. PICK b : b = adapter'[file'[p][i]]
      OBVIOUS
    <3>3. \A q \in Core : b.posted[q] = None
      BY <3>2, <1>5, <1>6 DEF NoRing
    <3> QED BY <2>3, <3>1, <3>2, <3>3 DEF TargetsAt
  <2> QED BY <2>2, <2>3
<1>9. ASSUME NEW q \in Proc, q # p
      PROVE  mode'[q] = mode[q] /\ pc'[q] = pc[q] /\ held'[q] = held[q] /\ mem'[q] = mem[q] /\ file'[q] = file[q]
  BY <1>1, <1>6, <1>9, AcquiredFacts
<1> QED BY <1>5, <1>8, <1>9, TargetBy

(* The steps that leave every file, and every adapter but the process's    *)
(* own, while the process releases what it holds.                          *)
LEMMA ReleaseTarget ==
  ASSUME ProcInv, DeviceInv, TargetInv, NEW p \in Proc,
         \/ SigWait(p) \/ ThreadKill(p) \/ ThreadJoin(p) \/ ClosePrivate(p) \/ UnmapArea(p) \/ UnmapPages(p)
  PROVE  TargetInv'
<1>0. adapter \in [Device -> AdapterType]
  BY DEF DeviceInv
<1>1. CASE SigWait(p)
  <2>1. mode'[p] = "release" /\ held' = held /\ pc' = pc /\ \A q \in Proc \ {p} : mode'[q] = mode[q]
    BY <1>1, SigWaitFacts
  <2>2. UNCHANGED <<adapter, file, mem>>
    BY <1>1 DEF SigWait
  <2>3. \A i \in Port : TargetsAt(p, i)'
    BY <2>1, NoTargets
  <2> QED BY <2>1, <2>2, <2>3, TargetBy
<1>2. ASSUME NEW acts, NEW s \in Todo(p, acts), acts \cap {"down", "file"} = {}, Released(p, s), UNCHANGED <<mode, pc, file>>,
             \A q \in Proc : q # p => mem'[q] = mem[q],
             \A q \in Proc, j \in Port : q # p /\ Valid(q, j) => adapter'[file[q][j]] = adapter[file[q][j]]
      PROVE  TargetInv'
  <2>1. mode[p] = "release"
    BY <1>2, TodoFacts
  <2>2. \A q \in Proc : q # p => held'[q] = held[q]
    BY <1>2 DEF Released, ProcInv, ProcTypes
  <2>3. \A i \in Port : TargetsAt(p, i)'
    BY <1>2, <2>1, NoTargets
  <2> QED BY <1>2, <2>2, <2>3, TargetBy
<1>3. CASE ThreadKill(p)
  <2>1. PICK s \in Todo(p, {"kill"}) : Released(p, s) /\ UNCHANGED <<adapter, mode, pc, file, mem>>
    BY <1>3 DEF ThreadKill
  <2>2. {"kill"} \cap {"down", "file"} = {}
    OBVIOUS
  <2> QED BY <2>1, <2>2, <1>2
<1>4. CASE ThreadJoin(p)
  <2>1. PICK s \in Todo(p, {"thread"}) : Released(p, s) /\ UNCHANGED <<adapter, mode, pc, file, mem>>
    BY <1>4 DEF ThreadJoin
  <2>2. {"thread"} \cap {"down", "file"} = {}
    OBVIOUS
  <2> QED BY <2>1, <2>2, <1>2
<1>5. CASE ClosePrivate(p)
  <2>1. PICK s \in Todo(p, {"rxirq", "txirq", "queue"}) : Released(p, s) /\ UNCHANGED <<adapter, mode, pc, file, mem>>
    BY <1>5 DEF ClosePrivate
  <2>2. {"rxirq", "txirq", "queue"} \cap {"down", "file"} = {}
    OBVIOUS
  <2> QED BY <2>1, <2>2, <1>2
<1>6. CASE UnmapArea(p)
  <2>1. PICK s \in Todo(p, {"rxring", "txring", "buffer"}) :
           /\ Valid(p, s.port)
           /\ adapter' = [adapter EXCEPT ![file[p][s.port]] = dma_unmap(@, AreaOf(p, s).addr)]
           /\ Released(p, s) /\ UNCHANGED <<mode, pc, file, mem>>
    BY <1>6 DEF UnmapArea
  <2>2. {"rxring", "txring", "buffer"} \cap {"down", "file"} = {}
    OBVIOUS
  <2>3. s.port \in Port
    BY TodoFacts, NameOf
  <2>4. ASSUME NEW q \in Proc, NEW j \in Port, q # p, Valid(q, j) PROVE adapter'[file[q][j]] = adapter[file[q][j]]
    <3>1. file[q][j] \in Device /\ file[q][j] # file[p][s.port]
      BY <2>1, <2>3, <2>4, OtherFiles
    <3> QED BY <3>1, <2>1, <1>0
  <2> QED BY <2>1, <2>2, <2>4, <1>2
<1>7. CASE UnmapPages(p)
  <2>1. PICK s \in Todo(p, {"mmap"}) :
           /\ mem' = [mem EXCEPT ![p][s.call][s.core] = None]
           /\ Released(p, s) /\ UNCHANGED <<adapter, mode, pc, file>>
    BY <1>7 DEF UnmapPages
  <2>2. {"mmap"} \cap {"down", "file"} = {}
    OBVIOUS
  <2>3. \A q \in Proc : q # p => mem'[q] = mem[q]
    BY <2>1 DEF ProcInv, ProcTypes
  <2> QED BY <2>1, <2>2, <2>3, <1>2
<1> QED BY <1>1, <1>3, <1>4, <1>5, <1>6, <1>7

(* ixmap_close brings the adapter down: the NIC has no slots any more. *)
LEMMA CloseDownTarget ==
  ASSUME ProcInv, DeviceInv, TargetInv, NEW p \in Proc, CloseDown(p)
  PROVE  TargetInv'
<1>0. adapter \in [Device -> AdapterType]
  BY DEF DeviceInv
<1>1. PICK s \in Todo(p, {"down"}) :
         /\ Valid(p, s.port) /\ adapter' = [adapter EXCEPT ![file[p][s.port]] = cmd_down(@)]
         /\ Released(p, s) /\ UNCHANGED <<mode, pc, file, mem>>
  BY DEF CloseDown
<1>2. PICK i \in Port : i = s.port
  BY TodoFacts, NameOf
<1>3. ASSUME NEW q \in Proc, NEW j \in Port, q # p \/ j # i, Valid(q, j) PROVE adapter'[file[q][j]] = adapter[file[q][j]]
  <2>1. file[q][j] \in Device /\ file[q][j] # file[p][i]
    BY <1>1, <1>2, <1>3, OtherFiles
  <2> QED BY <2>1, <1>0, <1>1, <1>2
<1>4. Releasing(p) /\ Releasing(p)' /\ mode'[p] = mode[p]
  BY <1>1, TodoFacts DEF Releasing
<1>5. ASSUME NEW j \in Port, Valid(p, j)' PROVE TargetsAt(p, j)'
  <2>1. Valid(p, j) /\ TargetsAt(p, j)
    BY <1>1, <1>5 DEF Valid, TargetInv
  <2>2. CASE j # i
    <3>1. Steady(p, j)
      BY <1>4 DEF Steady
    <3>2. adapter'[file[p][j]] = adapter[file[p][j]]
      BY <2>1, <2>2, <1>3
    <3> QED BY <2>1, <3>1, <3>2, <1>1, TargetFrame
  <2>3. CASE j = i
    <3>1. PICK a \in AdapterType : a = adapter[file[p][i]]
      BY <2>1, <2>3, <1>0 DEF Valid
    <3>2. PICK b : b = adapter'[file'[p][i]]
      OBVIOUS
    <3>3. b = cmd_down(a)
      BY <2>1, <2>3, <3>1, <3>2, <1>0, <1>1, <1>2 DEF Valid
    <3>4. b.posted = NoRing
      <4>1. CASE a.up
        BY <4>1, <3>3, DownFacts
      <4>2. CASE ~ a.up
        <5>1. a.posted = NoRing
          BY <2>1, <2>3, <3>1, <4>2 DEF DeviceInv, Kept, Valid
        <5> QED BY <4>2, <5>1, <3>3, DownFacts
      <4> QED BY <4>1, <4>2
    <3>5. \A q \in Core : b.posted[q] = None
      BY <3>4 DEF NoRing
    <3> QED BY <2>3, <3>2, <3>5, <1>4 DEF TargetsAt
  <2> QED BY <2>2, <2>3
<1>6. ASSUME NEW q \in Proc, q # p
      PROVE  mode'[q] = mode[q] /\ pc'[q] = pc[q] /\ held'[q] = held[q] /\ mem'[q] = mem[q] /\ file'[q] = file[q]
  BY <1>1, <1>6 DEF Released, ProcInv, ProcTypes
<1> QED BY <1>3, <1>5, <1>6, TargetBy

(* The reference is dropped: the file is closed. *)
LEMMA ClosePutTarget ==
  ASSUME ProcInv, DeviceInv, TargetInv, NEW p \in Proc, ClosePut(p)
  PROVE  TargetInv'
<1>0. adapter \in [Device -> AdapterType]
  BY DEF DeviceInv
<1>1. PICK s \in Todo(p, {"file"}) :
         /\ Valid(p, s.port) /\ adapter' = [adapter EXCEPT ![file[p][s.port]] = adapter_put(@)]
         /\ file' = [file EXCEPT ![p][s.port] = None] /\ Released(p, s)
         /\ mode' = [mode EXCEPT ![p] = IF Tail(rel[p]) = <<>> THEN "off" ELSE @]
         /\ UNCHANGED <<pc, mem>>
  BY DEF ClosePut
<1>2. PICK i \in Port : i = s.port /\ s = FileStep(i)
  BY TodoFacts, NameOf
<1>3. ASSUME NEW q \in Proc, NEW j \in Port, q # p \/ j # i, Valid(q, j) PROVE adapter'[file[q][j]] = adapter[file[q][j]]
  <2>1. file[q][j] \in Device /\ file[q][j] # file[p][i]
    BY <1>1, <1>2, <1>3, OtherFiles
  <2> QED BY <2>1, <1>0, <1>1, <1>2
<1>4. /\ file'[p][i] = None /\ \A j \in Port : j # i => file'[p][j] = file[p][j]
      /\ \A q \in Proc : q # p => file'[q] = file[q]
  BY <1>1, <1>2 DEF ProcInv, ProcTypes
<1>5. mode' = mode \/ (Tail(rel[p]) = <<>> /\ mode' = [mode EXCEPT ![p] = "off"])
  BY <1>1 DEF ProcInv, ProcTypes
<1>6. /\ held'[p] = held[p] \ {s} /\ mode'[p] \in {mode[p], "off"} /\ (mode'[p] = "off" => held'[p] = {})
      /\ \A q \in Proc \ {p} : held'[q] = held[q] /\ mode'[q] = mode[q] /\ pc'[q] = pc[q]
  BY <1>1, <1>5, ReleasedFacts, ZenonT(60)
<1>7. Releasing(p)
  BY TodoFacts
<1>8. ASSUME NEW j \in Port, Valid(p, j)' PROVE TargetsAt(p, j)'
  <2>1. j # i
    BY <1>4, <1>8, LifecycleAssumption DEF Valid
  <2>2. Valid(p, j) /\ TargetsAt(p, j) /\ file'[p][j] = file[p][j]
    BY <2>1, <1>4, <1>8 DEF Valid, TargetInv
  <2>3. FileStep(j) \in held[p] /\ FileStep(j) # s
    BY <2>1, <2>2, <1>2, FilesHeld, Named
  <2>4. mode'[p] = mode[p]
    BY <2>3, <1>6
  <2>5. Steady(p, j)
    BY <2>4, <1>7 DEF Steady, Releasing
  <2>6. adapter'[file[p][j]] = adapter[file[p][j]]
    BY <2>1, <2>2, <1>3
  <2> QED BY <2>2, <2>5, <2>6, TargetFrame
<1>9. ASSUME NEW q \in Proc, q # p
      PROVE  mode'[q] = mode[q] /\ pc'[q] = pc[q] /\ held'[q] = held[q] /\ mem'[q] = mem[q] /\ file'[q] = file[q]
  BY <1>1, <1>4, <1>6, <1>9
<1> QED BY <1>3, <1>8, <1>9, TargetBy

(* The steps that touch neither a process's place nor an adapter. *)
LEMMA IdleTarget ==
  ASSUME TargetInv, UNCHANGED <<adapter, mode, pc, held, file, mem>>
  PROVE  TargetInv'
<1>1. ASSUME NEW p \in Proc, NEW i \in Port, Valid(p, i)' PROVE TargetsAt(p, i)'
  <2>1. Valid(p, i) /\ TargetsAt(p, i)
    BY <1>1 DEF Valid, TargetInv
  <2>2. Steady(p, i)
    BY SteadyFrame
  <2> QED BY <2>1, <2>2, TargetFrame
<1> QED BY <1>1 DEF TargetInv

(* A thread gives the NIC slots of its own buffer. *)
LEMMA ThreadRunTarget ==
  ASSUME ProcInv, DeviceInv, TargetInv, NEW p \in Proc, NEW c \in Core, ThreadRun(p, c)
  PROVE  TargetInv'
<1>0. adapter \in [Device -> AdapterType]
  BY DEF DeviceInv
<1>1. UNCHANGED <<mode, pc, held, file, mem>> /\ thr[p][c] = "new" /\ mode[p] \in {"start", "wait", "release"}
  BY DEF ThreadRun, Alive
<1>2. ThreadStep(c) \in held[p]
  BY <1>1 DEF ProcInv, Handles
<1>3. PICK x : x = At(mem[p]["buf"][c], 0)
  OBVIOUS
<1>4. x \in Nat
  <2>1. mem[p]["buf"][c] \in Nat
    BY <1>2, ThreadNeeds, PagesHeld DEF Pages
  <2> QED BY <1>3, <2>1, AtNat
<1>5. \A d \in Device : adapter'[d] = IF \E i \in Port : file[p][i] = d THEN rx_assign(adapter[d], c, x) ELSE adapter[d]
  BY <1>3 DEF ThreadRun
<1>6. ASSUME NEW q \in Proc, NEW j \in Port, q # p, Valid(q, j) PROVE adapter'[file[q][j]] = adapter[file[q][j]]
  <2>1. file[q][j] \in Device /\ \A i \in Port : file[p][i] # file[q][j]
    BY <1>6 DEF DeviceInv, OneFile, Valid
  <2> QED BY <2>1, <1>5
<1>7. ASSUME NEW i \in Port, Valid(p, i)' PROVE TargetsAt(p, i)'
  <2>1. Valid(p, i) /\ TargetsAt(p, i) /\ file[p][i] \in Device
    BY <1>1, <1>7 DEF Valid, TargetInv
  <2>2. PICK a \in AdapterType : a = adapter[file[p][i]]
    BY <2>1, <1>0
  <2>3. PICK b : b = adapter'[file'[p][i]]
    OBVIOUS
  <2>4. b = rx_assign(a, c, x)
    BY <2>1, <2>2, <2>3, <1>1, <1>5
  <2>5. b.ring = a.ring /\ \A q \in Core : b.posted[q] = IF q = c THEN x ELSE a.posted[q]
    BY <2>4, <1>4, AssignFacts
  <2>6. ASSUME ~ Releasing(p), Passed(p, RegisterStep(i)), NEW q \in Core
        PROVE  b.ring[q] = [rx |-> At(mem[p]["desc"][q], RxOff(i)), tx |-> At(mem[p]["desc"][q], TxOff(i))]
    BY <2>1, <2>2, <2>5, <2>6 DEF TargetsAt
  <2>7. ASSUME ~ Releasing(p), NEW q \in Core, b.posted[q] # None
        PROVE  ThreadStep(q) \in held[p] /\ b.posted[q] = At(mem[p]["buf"][q], 0)
    <3>1. CASE q = c
      BY <3>1, <2>5, <1>2, <1>3
    <3>2. CASE q # c
      BY <3>2, <2>1, <2>2, <2>5, <2>7 DEF TargetsAt
    <3> QED BY <3>1, <3>2
  <2>8. (Releasing(p)' <=> Releasing(p)) /\ (Passed(p, RegisterStep(i))' <=> Passed(p, RegisterStep(i))) /\ mode'[p] # "dying"
    BY <1>1 DEF Releasing, Passed, Now
  <2> QED BY <2>3, <2>6, <2>7, <2>8, <1>1 DEF TargetsAt, At, RxOff, TxOff
<1> QED BY <1>1, <1>6, <1>7, TargetBy

(* What the NIC was told is mapped, while main has not begun to release. *)
LEMMA TargetsMapped ==
  ASSUME ProcInv, DeviceInv, AreaInv, TargetInv, NEW p \in Proc, NEW i \in Port, Valid(p, i), ~ Releasing(p),
         NEW a, a = adapter[file[p][i]], NEW q \in Core, a.posted[q] # None
  PROVE  {a.ring[q].rx, a.ring[q].tx, a.posted[q]} \subseteq Addresses(a.areas)
<1>1. ThreadStep(q) \in held[p] /\ a.posted[q] = At(mem[p]["buf"][q], 0)
  BY DEF TargetInv, TargetsAt
<1>2. Passed(p, RegisterStep(i))
  BY <1>1, RegistersFirst
<1>3. a.ring[q] = [rx |-> At(mem[p]["desc"][q], RxOff(i)), tx |-> At(mem[p]["desc"][q], TxOff(i))]
  BY <1>2 DEF TargetInv, TargetsAt
<1>4. /\ S("desc", "rxring", q, i) \in held[p] /\ S("desc", "txring", q, i) \in held[p]
      /\ S("buf", "buffer", q, i) \in held[p]
  BY <1>1, ThreadHas
<1>5. /\ At(mem[p]["desc"][q], RxOff(i)) \in Addresses(a.areas)
      /\ At(mem[p]["desc"][q], TxOff(i)) \in Addresses(a.areas)
      /\ At(mem[p]["buf"][q], 0) \in Addresses(a.areas)
  BY <1>4, MappedAddresses
<1> QED BY <1>1, <1>3, <1>5

(* A process that is killed leaves what it told the NIC mapped. *)
LEMMA CrashTarget ==
  ASSUME ProcInv, DeviceInv, AreaInv, TargetInv, NEW p \in Proc, Crash(p)
  PROVE  TargetInv'
<1>1. UNCHANGED <<adapter, file>> /\ mem' = [mem EXCEPT ![p] = NoMem]
  BY DEF Crash
<1>2. /\ mode'[p] = IF mode[p] = "release" THEN "aborted" ELSE "dying"
      /\ mode[p] \in {"start", "wait", "release"}
      /\ \A q \in Proc \ {p} : held'[q] = held[q] /\ mode'[q] = mode[q] /\ pc'[q] = pc[q]
  BY CrashFacts
<1>3. \A q \in Proc : q # p => mem'[q] = mem[q]
  BY <1>1 DEF ProcInv, ProcTypes
<1>4. ASSUME NEW i \in Port, Valid(p, i)' PROVE TargetsAt(p, i)'
  <2>1. Valid(p, i)
    BY <1>1, <1>4 DEF Valid
  <2>2. CASE mode[p] = "release"
    BY <2>2, <1>2, NoTargets
  <2>3. CASE mode[p] # "release"
    <3>1. mode'[p] = "dying" /\ ~ Releasing(p) /\ Releasing(p)'
      BY <2>3, <1>2 DEF Releasing
    <3>2. PICK a : a = adapter[file[p][i]]
      OBVIOUS
    <3>3. \A q \in Core : a.posted[q] # None => {a.ring[q].rx, a.ring[q].tx, a.posted[q]} \subseteq Addresses(a.areas)
      BY <2>1, <3>1, <3>2, TargetsMapped
    <3>4. a = adapter'[file'[p][i]]
      BY <3>2, <1>1
    <3> QED BY <3>1, <3>3, <3>4 DEF TargetsAt
  <2> QED BY <2>2, <2>3
<1>5. ASSUME NEW q \in Proc, q # p
      PROVE  mode'[q] = mode[q] /\ pc'[q] = pc[q] /\ held'[q] = held[q] /\ mem'[q] = mem[q] /\ file'[q] = file[q]
  BY <1>1, <1>2, <1>3, <1>5
<1> QED BY <1>1, <1>4, <1>5, TargetBy

(* Probe and remove leave the adapters of the files that stay open. *)
LEMMA DeviceTarget ==
  ASSUME ProcInv, DeviceInv, TargetInv, NEW d \in Device, Probe(d) \/ RemoveDevice(d)
  PROVE  TargetInv'
<1>0. adapter \in [Device -> AdapterType]
  BY DEF DeviceInv
<1>1. /\ UNCHANGED <<mode, pc, held, mem>>
      /\ \A e \in Device \ {d} : adapter'[e] = adapter[e]
  <2>1. CASE Probe(d)
    <3>1. UNCHANGED <<mode, pc, held, mem>>
      BY <2>1 DEF Probe, procVars
    <3>2. ASSUME NEW e \in Device \ {d} PROVE adapter'[e] = adapter[e]
      BY <2>1, <1>0 DEF Probe, ProbeAlloc, ProbeInit, ProbeFail, ProbeRegister
    <3> QED BY <3>1, <3>2
  <2>2. CASE RemoveDevice(d)
    BY <2>2, <1>0 DEF RemoveDevice, ixmap_remove
  <2> QED BY <2>1, <2>2
<1>2. ASSUME NEW p \in Proc, NEW i \in Port, Valid(p, i)'
      PROVE  Valid(p, i) /\ file'[p][i] = file[p][i] /\ file[p][i] \in Device \ {d}
  <2>1. CASE Probe(d)
    <3>1. file' = file /\ adapter[d].phase # "bound"
      BY <2>1 DEF Probe, procVars, ProbeAlloc, ProbeInit, ProbeFail, ProbeRegister
    <3>2. Valid(p, i)
      BY <3>1, <1>2 DEF Valid
    <3>3. file[p][i] # d
      BY <3>1, <3>2 DEF DeviceInv, OneFile
    <3> QED BY <3>1, <3>2, <3>3 DEF Valid
  <2>2. CASE RemoveDevice(d)
    <3>1. file'[p][i] = IF file[p][i] = d THEN Freed ELSE file[p][i]
      BY <2>2 DEF RemoveDevice
    <3>2. Freed \notin Device
      BY LifecycleAssumption
    <3> QED BY <3>1, <3>2, <1>2 DEF Valid
  <2> QED BY <2>1, <2>2
<1>3. ASSUME NEW p \in Proc, NEW i \in Port, Valid(p, i)' PROVE TargetsAt(p, i)'
  <2>1. Valid(p, i) /\ file'[p][i] = file[p][i] /\ file[p][i] \in Device \ {d} /\ TargetsAt(p, i)
    BY <1>2, <1>3 DEF TargetInv
  <2>2. Steady(p, i)
    BY <1>1, SteadyFrame
  <2>3. adapter'[file[p][i]] = adapter[file[p][i]]
    BY <2>1, <1>1
  <2> QED BY <2>1, <2>2, <2>3, TargetFrame
<1> QED BY <1>3 DEF TargetInv

(* With no file open, layer 5 holds. *)
LEMMA TargetFresh == Fresh => TargetInv
<1> SUFFICES ASSUME Fresh PROVE TargetInv
  OBVIOUS
<1>1. \A p \in Proc, i \in Port : ~ Valid(p, i)
  BY LifecycleAssumption DEF Fresh, Valid, NoFile
<1> QED BY <1>1 DEF TargetInv

(* Every step keeps layer 5. *)
LEMMA TargetStep == ProcInv /\ DeviceInv /\ AreaInv /\ TargetInv /\ [Next]_vars => TargetInv'
<1> SUFFICES ASSUME ProcInv, DeviceInv, AreaInv, TargetInv, [Next]_vars PROVE TargetInv'
  OBVIOUS
<1>1. ASSUME NEW p \in Proc, Main(p) PROVE TargetInv'
  <2>1. CASE \/ Private(p) \/ OpenQueue(p) \/ MapPages(p) \/ CreateThread(p) \/ FailStep(p)
             \/ MapArea(p) \/ IrqOpen(p) \/ DeviceUp(p)
    BY <2>1, TargetStarts
  <2>2. CASE OpenFile(p) \/ Registers(p)
    BY <2>2, OpenFileTarget, RegistersTarget
  <2>3. CASE SigWait(p) \/ ThreadKill(p) \/ ThreadJoin(p) \/ ClosePrivate(p) \/ UnmapArea(p) \/ UnmapPages(p)
    BY <2>3, ReleaseTarget
  <2>4. CASE CloseDown(p) \/ ClosePut(p)
    BY <2>4, CloseDownTarget, ClosePutTarget
  <2>5. CASE Fault(p)
    <3>1. UNCHANGED <<adapter, mode, pc, held, file, mem>>
      BY <2>5 DEF Fault, procVars
    <3> QED BY <3>1, IdleTarget
  <2> QED BY <1>1, <2>1, <2>2, <2>3, <2>4, <2>5 DEF Main
<1>2. ASSUME NEW p \in Proc, Interrupt(p) PROVE TargetInv'
  <2>1. UNCHANGED <<adapter, mode, pc, held, file, mem>>
    BY <1>2 DEF Interrupt
  <2> QED BY <2>1, IdleTarget
<1>3. ASSUME NEW p \in Proc, Crash(p) PROVE TargetInv'
  BY <1>3, CrashTarget
<1>4. ASSUME NEW p \in Proc, NEW c \in Core, ThreadRun(p, c) PROVE TargetInv'
  BY <1>4, ThreadRunTarget
<1>5. ASSUME NEW p \in Proc, NEW c \in Core, ThreadEnd(p, c) PROVE TargetInv'
  <2>1. UNCHANGED <<adapter, mode, pc, held, file, mem>>
    BY <1>5 DEF ThreadEnd
  <2> QED BY <2>1, IdleTarget
<1>6. ASSUME NEW d \in Device, Probe(d) \/ RemoveDevice(d) PROVE TargetInv'
  BY <1>6, DeviceTarget
<1>7. CASE Reboot
  <2>1. Fresh'
    BY <1>7 DEF Reboot, Fresh
  <2> QED BY <2>1, TargetFresh, PTL
<1>8. CASE UNCHANGED vars
  <2>1. UNCHANGED <<adapter, mode, pc, held, file, mem>>
    BY <1>8 DEF vars, procVars
  <2> QED BY <2>1, IdleTarget
<1> QED BY <1>1, <1>2, <1>3, <1>4, <1>5, <1>6, <1>7, <1>8 DEF Next

(* All layers hold in every state. *)
LEMMA TargetsHold == Spec => [](ProcInv /\ DeviceInv /\ CauseInv /\ AreaInv /\ TargetInv)
<1>1. Init => TargetInv
  BY TargetFresh DEF Init, AdapterInit, Fresh
<1>2. ProcInv /\ DeviceInv /\ AreaInv /\ TargetInv /\ [Next]_vars => TargetInv'
  BY TargetStep
<1> QED BY <1>1, <1>2, AreasHold, PTL DEF Spec

(* Whatever the NIC may write to is mapped for DMA, while the process runs *)
(* and from its death until the kernel has closed its files.               *)
THEOREM LifecycleNicTargetsMapped == Spec => []NicTargetsMapped
<1>1. ProcInv /\ DeviceInv /\ AreaInv /\ TargetInv => NicTargetsMapped
  <2> SUFFICES ASSUME ProcInv, DeviceInv, AreaInv, TargetInv, NEW d \in Bound, NEW q \in Core,
                      adapter[d].posted[q] # None,
                      \A p \in Proc : mode[p] \in {"release", "aborted"} => \A i \in Port : file[p][i] # d
               PROVE  {adapter[d].ring[q].rx, adapter[d].ring[q].tx, adapter[d].posted[q]}
                          \subseteq Addresses(adapter[d].areas)
    BY DEF NicTargetsMapped
  <2>1. d \in Device
    BY DEF Bound
  <2>2. adapter[d].posted # NoRing
    BY DEF NoRing
  <2>3. Owned(d)
    BY <2>1, <2>2 DEF DeviceInv, Kept
  <2>4. PICK p \in Proc, i \in Port : file[p][i] = d
    BY <2>3 DEF Owned
  <2>5. Valid(p, i) /\ mode[p] \notin {"release", "aborted"}
    BY <2>1, <2>4 DEF Valid
  <2>6. CASE Releasing(p)
    <3>1. mode[p] = "dying" /\ TargetsAt(p, i)
      BY <2>5, <2>6 DEF Releasing, TargetInv
    <3> QED BY <3>1, <2>4 DEF TargetsAt
  <2>7. CASE ~ Releasing(p)
    BY <2>4, <2>5, <2>7, TargetsMapped
  <2> QED BY <2>6, <2>7
<1> QED BY <1>1, TargetsHold, PTL

-----------------------------------------------------------------------------
(* Layer 6: whose rings are programmed, and where they are.                *)

(* Runs of equal length that do not overlap have as many cells together as *)
(* they have one by one.                                                   *)
LEMMA RunsCounted ==
  ASSUME NEW A, IsFiniteSet(A), NEW L \in Nat, NEW base \in [A -> Nat],
         \A x, y \in A : x # y => base[x] + L <= base[y] \/ base[y] + L <= base[x]
  PROVE  Cardinality(UNION {base[x] .. base[x] + L - 1 : x \in A}) = L * Cardinality(A)
<1> DEFINE All == UNION {base[x] .. base[x] + L - 1 : x \in A}
           B == 1 .. L
           f == [z \in A \X B |-> base[z[1]] + z[2] - 1]
<1>1. IsFiniteSet(B) /\ Cardinality(B) = L
  BY FS_Interval
<1>2. IsFiniteSet(A \X B) /\ Cardinality(A \X B) = Cardinality(A) * L
  BY <1>1, FS_Product
<1>3. ASSUME NEW z \in A \X B PROVE f[z] \in All
  <2>1. z[1] \in A /\ z[2] \in B /\ base[z[1]] \in Nat /\ f[z] = base[z[1]] + z[2] - 1
    OBVIOUS
  <2>2. f[z] \in base[z[1]] .. base[z[1]] + L - 1
    BY <2>1
  <2> QED BY <2>1, <2>2
<1>4. ASSUME NEW z \in A \X B, NEW w \in A \X B, f[z] = f[w] PROVE z = w
  <2>1. /\ z[1] \in A /\ z[2] \in B /\ base[z[1]] \in Nat /\ f[z] = base[z[1]] + z[2] - 1 /\ z = <<z[1], z[2]>>
        /\ w[1] \in A /\ w[2] \in B /\ base[w[1]] \in Nat /\ f[w] = base[w[1]] + w[2] - 1 /\ w = <<w[1], w[2]>>
    OBVIOUS
  <2>2. z[1] = w[1]
    <3>1. base[z[1]] + z[2] = base[w[1]] + w[2]
      BY <2>1, <1>4
    <3> QED BY <3>1, <2>1
  <2> QED BY <2>1, <2>2, <1>4
<1>5. ASSUME NEW n \in All PROVE \E z \in A \X B : f[z] = n
  <2>1. PICK x \in A : n \in base[x] .. base[x] + L - 1
    OBVIOUS
  <2>2. base[x] \in Nat /\ n \in Nat /\ n - base[x] + 1 \in B
    BY <2>1
  <2>3. <<x, n - base[x] + 1>> \in A \X B
    BY <2>2
  <2>4. f[<<x, n - base[x] + 1>>] = n
    BY <2>2, <2>3
  <2> QED BY <2>3, <2>4
<1>6. f \in Bijection(A \X B, All)
  <2>1. f \in [A \X B -> All]
    BY <1>3
  <2> HIDE DEF f, All, B
  <2>2. f \in Injection(A \X B, All)
    BY <2>1, <1>4 DEF Injection, IsInjective
  <2>3. f \in Surjection(A \X B, All)
    BY <2>1, <1>5 DEF Surjection
  <2> QED BY <2>2, <2>3 DEF Bijection
<1>7. ExistsBijection(A \X B, All)
  BY <1>6 DEF ExistsBijection
<1>8. Cardinality(All) = Cardinality(A \X B)
  <2> HIDE DEF All, B
  <2> QED BY <1>2, <1>7, FS_Bijection
<1>9. Cardinality(A) \in Nat
  BY FS_CardinalityType
<1> QED BY <1>2, <1>8, <1>9

(* The rings of two ports in one page. *)
LEMMA PortsApart ==
  ASSUME NEW i \in Port, NEW j \in Port, i < j
  PROVE  RxOff(i) + 2 * RxLen <= RxOff(j)
<1>1. RxLen \in Nat /\ i \in Nat /\ j \in Nat
  BY LifecycleAssumption DEF Port
<1>2. PICK k \in Nat : j = i + 1 + k
  <2>1. j - i - 1 \in Nat /\ j = i + 1 + (j - i - 1)
    BY <1>1
  <2> QED BY <2>1
<1>3. PICK n \in Nat : n = 2 * RxLen
  BY <1>1
<1>4. n * j = n * i + n + n * k /\ n * k \in Nat /\ n * i \in Nat
  BY <1>1, <1>2, <1>3
<1>5. RxOff(i) = n * i /\ RxOff(j) = n * j
  BY <1>3 DEF RxOff
<1> QED BY <1>1, <1>3, <1>4, <1>5


\* The first ring that main maps on port i: it cannot without the file.
RxFirst(i) == S("desc", "rxring", 0, i)

RingAt(b, q, i) == [rx |-> At(b[q], RxOff(i)), tx |-> At(b[q], TxOff(i))]

Programmed(p, i) == Valid(p, i) /\ adapter[file[p][i]].ring # NoRing
HasRings(p) == \E i \in Port : Programmed(p, i)
Claim(p, i) == RxFirst(i) \in held[p] \/ HasRings(p)

\* Device files have different names, and a file is one of the right name.
NamesApart == \A d, e \in Bound : adapter[d].id = adapter[e].id => d = e
NamesRight == \A p \in Proc, i \in Port : Valid(p, i) => adapter[file[p][i]].id = i

\* An adapter that is down has no rings.
DownNoRings == \A d \in Device : ~ adapter[d].up => adapter[d].ring = NoRing

\* Two processes are never on each other's ports.
NoRivals == \A p, q \in Proc, i, j \in Port :
  ~ (p # q /\ Valid(p, i) /\ Claim(q, i) /\ Valid(q, j) /\ Claim(p, j))

\* Rings are there only where main has written the registers.
Written(p) == ~ Releasing(p) => \A i \in Port : Programmed(p, i) => Passed(p, RegisterStep(i))

\* The rings of a process are in one page for each core, also when the process
\* has unmapped its pages.
PlacedAt(p, b) ==
  /\ \A q, e \in Core : b[q] = b[e] => q = e
  /\ \A i \in Port, q \in Core :
       Valid(p, i) /\ adapter[file[p][i]].ring[q] # None => adapter[file[p][i]].ring[q] = RingAt(b, q, i)
Placed(p) == \E b \in [Core -> Block] : PlacedAt(p, b)

RingInv ==
  /\ NamesApart /\ NamesRight /\ DownNoRings /\ NoRivals
  /\ \A p \in Proc : Written(p) /\ (HasRings(p) => Placed(p))

\* The step of an adapter keeps its rings, or takes them away.
Tame(d) ==
  /\ \/ adapter'[d].ring = adapter[d].ring /\ (adapter[d].up => adapter'[d].up)
     \/ adapter'[d].ring = NoRing
  /\ adapter[d].phase = "bound" /\ adapter'[d].phase = "bound" => adapter'[d].id = adapter[d].id

\* The process opens no file, and maps rings only on ports it has open.
Stays(p) ==
  /\ \A i \in Port : Valid(p, i)' => Valid(p, i) /\ file'[p][i] = file[p][i]
  /\ \A i \in Port : RxFirst(i) \in held'[p] => RxFirst(i) \in held[p] \/ Valid(p, i)
  /\ \/ Releasing(p)'
     \/ ~ Releasing(p) /\ \A i \in Port : Passed(p, RegisterStep(i)) => Passed(p, RegisterStep(i))'
     \/ \A i \in Port : ~ Valid(p, i)'

\* The process is still opening its files.
Begins(p) ==
  /\ \A i \in Port : Valid(p, i)' => adapter'[file'[p][i]].ring = NoRing /\ adapter'[file'[p][i]].id = i
  /\ \A i \in Port : RxFirst(i) \notin held'[p]

(* Two processes do not have the same port open. *)
LEMMA OnePort ==
  ASSUME DeviceInv, RingInv, NEW p \in Proc, NEW q \in Proc, NEW i \in Port, Valid(p, i), Valid(q, i)
  PROVE  p = q
<1>1. file[p][i] \in Bound /\ file[q][i] \in Bound
  BY DEF DeviceInv, OneFile, Valid, Bound
<1>2. adapter[file[p][i]].id = i /\ adapter[file[q][i]].id = i
  BY DEF RingInv, NamesRight
<1>3. file[p][i] = file[q][i]
  BY <1>1, <1>2 DEF RingInv, NamesApart
<1> QED BY <1>3 DEF DeviceInv, OneFile

(* A step in which no registers are written keeps layer 6. *)
LEMMA RingFrame ==
  ASSUME DeviceInv, DeviceInv', RingInv, NamesApart', \A d \in Device : Tame(d),
         \A p \in Proc : Stays(p) \/ Begins(p)
  PROVE  RingInv'
<1>1. ASSUME NEW p \in Proc, Stays(p), NEW i \in Port, Valid(p, i)'
      PROVE  /\ Valid(p, i) /\ file'[p][i] = file[p][i] /\ file[p][i] \in Device
             /\ adapter'[file[p][i]].id = i
             /\ \/ adapter'[file[p][i]].ring = adapter[file[p][i]].ring
                \/ adapter'[file[p][i]].ring = NoRing
  <2>1. Valid(p, i) /\ file'[p][i] = file[p][i] /\ file[p][i] \in Device
    BY <1>1 DEF Stays, Valid
  <2>2. adapter[file[p][i]].phase = "bound" /\ adapter[file[p][i]].id = i
    BY <2>1 DEF DeviceInv, OneFile, RingInv, NamesRight
  <2>3. adapter'[file[p][i]].phase = "bound"
    BY <1>1, <2>1 DEF DeviceInv, OneFile
  <2> QED BY <2>1, <2>2, <2>3 DEF Tame
<1>2. ASSUME NEW p \in Proc, Stays(p), NEW i \in Port, Programmed(p, i)'
      PROVE  Programmed(p, i) /\ adapter'[file'[p][i]].ring = adapter[file[p][i]].ring
  <2>1. Valid(p, i)' /\ adapter'[file'[p][i]].ring # NoRing
    BY <1>2 DEF Programmed, NoRing
  <2> QED BY <2>1, <1>1, <1>2 DEF Programmed
<1>3. ASSUME NEW p \in Proc, Stays(p), HasRings(p)' PROVE HasRings(p)
  BY <1>2, <1>3 DEF HasRings
<1>4. ASSUME NEW p \in Proc, Begins(p) PROVE ~ HasRings(p)' /\ \A i \in Port : ~ Programmed(p, i)' /\ ~ Claim(p, i)'
  <2>1. \A i \in Port : ~ Programmed(p, i)'
    BY <1>4 DEF Begins, Programmed, NoRing
  <2>2. ~ HasRings(p)'
    BY <2>1 DEF HasRings
  <2> QED BY <2>1, <2>2, <1>4 DEF Claim, Begins, RxFirst
<1>5. NamesRight'
  <2>1. ASSUME NEW p \in Proc, NEW i \in Port, Valid(p, i)' PROVE adapter'[file'[p][i]].id = i
    BY <2>1, <1>1 DEF Begins
  <2> QED BY <2>1 DEF NamesRight
<1>6. DownNoRings'
  <2>1. ASSUME NEW d \in Device, ~ adapter'[d].up PROVE adapter'[d].ring = NoRing
    <3>1. Tame(d) /\ (~ adapter[d].up => adapter[d].ring = NoRing)
      BY DEF RingInv, DownNoRings
    <3> QED BY <2>1, <3>1 DEF Tame
  <2> QED BY <2>1 DEF DownNoRings, NoRing
<1>7. NoRivals'
  <2>1. ASSUME NEW p \in Proc, NEW q \in Proc, NEW i \in Port, p # q, Stays(p), Stays(q),
               Valid(p, i)', Claim(q, i)'
        PROVE  Valid(p, i) /\ Claim(q, i)
    <3>1. Valid(p, i)
      BY <2>1, <1>1
    <3>2. ~ Valid(q, i)
      BY <2>1, <3>1, OnePort
    <3>3. CASE HasRings(q)'
      BY <3>1, <3>3, <1>3, <2>1 DEF Claim
    <3>4. CASE RxFirst(i) \in held'[q]
      BY <3>1, <3>2, <3>4, <2>1 DEF Stays, Claim
    <3> QED BY <2>1, <3>3, <3>4 DEF Claim, RxFirst
  <2>2. ASSUME NEW p \in Proc, NEW q \in Proc, NEW i \in Port, NEW j \in Port,
               p # q, Valid(p, i)', Claim(q, i)', Valid(q, j)', Claim(p, j)'
        PROVE  FALSE
    <3>1. Stays(p) /\ Stays(q)
      BY <2>2, <1>4
    <3>2. Valid(p, i) /\ Claim(q, i) /\ Valid(q, j) /\ Claim(p, j)
      BY <2>1, <2>2, <3>1
    <3> QED BY <2>2, <3>2 DEF RingInv, NoRivals
  <2> QED BY <2>2 DEF NoRivals
<1>8. ASSUME NEW p \in Proc PROVE Written(p)'
  <2>1. ASSUME ~ Releasing(p)', NEW i \in Port, Programmed(p, i)' PROVE Passed(p, RegisterStep(i))'
    <3>1. Stays(p)
      BY <2>1, <1>4
    <3>2. Programmed(p, i) /\ Valid(p, i)'
      BY <3>1, <2>1, <1>2 DEF Programmed
    <3>3. ~ Releasing(p) /\ (Passed(p, RegisterStep(i)) => Passed(p, RegisterStep(i))')
      BY <2>1, <3>1, <3>2 DEF Stays
    <3> QED BY <3>2, <3>3 DEF RingInv, Written
  <2> QED BY <2>1 DEF Written, RegisterStep
<1>9. ASSUME NEW p \in Proc, HasRings(p)' PROVE Placed(p)'
  <2>1. Stays(p) /\ HasRings(p)
    BY <1>3, <1>4, <1>9
  <2>2. PICK b \in [Core -> Block] : PlacedAt(p, b)
    BY <2>1 DEF RingInv, Placed
  <2>3. ASSUME NEW i \in Port, NEW q \in Core, Valid(p, i)', adapter'[file'[p][i]].ring[q] # None
        PROVE  adapter'[file'[p][i]].ring[q] = RingAt(b, q, i)
    <3>1. adapter'[file'[p][i]].ring # NoRing
      BY <2>3 DEF NoRing
    <3>2. Valid(p, i) /\ adapter'[file'[p][i]].ring = adapter[file[p][i]].ring
      BY <2>1, <2>3, <3>1, <1>1
    <3> QED BY <2>2, <2>3, <3>2 DEF PlacedAt
  <2>4. PlacedAt(p, b)'
    BY <2>2, <2>3 DEF PlacedAt, RingAt, At, RxOff, TxOff
  <2> QED BY <2>4 DEF Placed
<1> QED BY <1>5, <1>6, <1>7, <1>8, <1>9 DEF RingInv


\* What a command that writes no registers does to the rings of an adapter.
Keeping(a, b) ==
  /\ b.phase = a.phase /\ b.id = a.id
  /\ \/ b.ring = a.ring /\ (a.up => b.up)
     \/ b.ring = NoRing

OneKeeping ==
  \/ adapter' = adapter
  \/ \E d \in Device : \E b : adapter' = [adapter EXCEPT ![d] = b] /\ Keeping(adapter[d], b)

(* The commands do so. *)
LEMMA CommandsKeep ==
  ASSUME NEW a \in AdapterType, NEW b
  PROVE  /\ \A q, x : b = rx_assign(a, q, x) => Keeping(a, b)
         /\ \A v, p : b = irq_assign(a, v, p) => Keeping(a, b)
         /\ \A m : b = cmd_up(a, m) => Keeping(a, b)
         /\ \A x, n : b = dma_map(a, x, n) => Keeping(a, b)
         /\ \A x : b = dma_unmap(a, x) => Keeping(a, b)
         /\ b = cmd_down(a) \/ b = adapter_get(a) \/ b = adapter_put(a) => Keeping(a, b)
<1>1. \A q, x : b = rx_assign(a, q, x) => Keeping(a, b)
  BY DEF rx_assign, AdapterType, Keeping
<1>2. \A v, p : b = irq_assign(a, v, p) => Keeping(a, b)
  BY DEF irq_assign, AdapterType, Keeping
<1>3. \A m : b = cmd_up(a, m) => Keeping(a, b)
  BY DEF cmd_up, ixmap_up, configure_msix, AdapterType, Keeping
<1>4. \A x, n : b = dma_map(a, x, n) => Keeping(a, b)
  BY DEF dma_map, AdapterType, Keeping
<1>5. ASSUME NEW x, b = dma_unmap(a, x) PROVE Keeping(a, b)
  <2>1. b = a \/ \E t : b = [a EXCEPT !.areas = t]
    BY <1>5 DEF dma_unmap
  <2> QED BY <2>1 DEF AdapterType, Keeping
<1>6. b = cmd_down(a) => Keeping(a, b)
  BY DEF cmd_down, ixmap_down, free_msix, ixmap_reset, reset_hw, stop_adapter, AdapterType, Keeping
<1>7. b = adapter_get(a) \/ b = adapter_put(a) => Keeping(a, b)
  BY DEF adapter_get, adapter_put, AdapterType, Keeping
<1> QED BY <1>1, <1>2, <1>3, <1>4, <1>5, <1>6, <1>7

(* No device file is registered in the step. *)
LEMMA NamesFrame ==
  ASSUME RingInv, \A d \in Device : Tame(d),
         \A d \in Device : adapter'[d].phase = "bound" => adapter[d].phase = "bound"
  PROVE  NamesApart'
<1>1. ASSUME NEW d \in Device, adapter'[d].phase = "bound" PROVE d \in Bound /\ adapter'[d].id = adapter[d].id
  BY <1>1 DEF Bound, Tame
<1> QED BY <1>1 DEF RingInv, NamesApart, Bound

(* One adapter changes, by a command that keeps its rings. *)
LEMMA KeepingTame ==
  ASSUME DeviceInv, RingInv, OneKeeping
  PROVE  (\A d \in Device : Tame(d)) /\ NamesApart'
<1>0. adapter \in [Device -> AdapterType]
  BY DEF DeviceInv
<1>1. ASSUME NEW e \in Device PROVE adapter'[e] = adapter[e] \/ Keeping(adapter[e], adapter'[e])
  <2>1. CASE adapter' = adapter
    BY <2>1
  <2>2. CASE \E d \in Device : \E b : adapter' = [adapter EXCEPT ![d] = b] /\ Keeping(adapter[d], b)
    <3>1. PICK d \in Device : \E b : adapter' = [adapter EXCEPT ![d] = b] /\ Keeping(adapter[d], b)
      BY <2>2
    <3>2. PICK b : adapter' = [adapter EXCEPT ![d] = b] /\ Keeping(adapter[d], b)
      BY <3>1
    <3> QED BY <3>2, <1>0
  <2> QED BY <2>1, <2>2 DEF OneKeeping
<1>2. ASSUME NEW e \in Device PROVE Tame(e) /\ adapter'[e].phase = adapter[e].phase
  BY <1>1 DEF Keeping, Tame
<1> QED BY <1>2, NamesFrame

(* A process that does not move. *)
LEMMA StaysFrame ==
  ASSUME NEW q \in Proc, mode'[q] = mode[q], pc'[q] = pc[q], held'[q] = held[q],
         \A i \in Port : Valid(q, i)' => file'[q][i] = file[q][i]
  PROVE  Stays(q)
<1>1. \A i \in Port : Valid(q, i)' => Valid(q, i)
  BY DEF Valid
<1>2. Releasing(q)' <=> Releasing(q)
  BY DEF Releasing
<1>3. ASSUME NEW i \in Port, Passed(q, RegisterStep(i)) PROVE Passed(q, RegisterStep(i))'
  BY <1>3 DEF Passed, Now
<1> QED BY <1>1, <1>2, <1>3 DEF Stays

(* A step of one process. *)
LEMMA RingBy ==
  ASSUME DeviceInv, DeviceInv', RingInv, NEW p \in Proc, OneKeeping, Stays(p) \/ Begins(p),
         \A q \in Proc : q # p => mode'[q] = mode[q] /\ pc'[q] = pc[q] /\ held'[q] = held[q] /\ file'[q] = file[q]
  PROVE  RingInv'
<1>1. ASSUME NEW q \in Proc PROVE Stays(q) \/ Begins(q)
  <2>1. CASE q = p
    BY <2>1
  <2>2. CASE q # p
    BY <2>2, StaysFrame
  <2> QED BY <2>1, <2>2
<1> QED BY <1>1, KeepingTame, RingFrame

(* Names of the first rings. *)
LEMMA RxFirstNamed ==
  ASSUME NEW i \in Port
  PROVE  /\ RxFirst(i) \in Resource /\ RxFirst(i) \in AnyStep /\ Stage(RxFirst(i)) = 2
         /\ RxFirst(i).act = "rxring" /\ RxFirst(i).port = i
<1>1. 0 \in Core
  BY AdapterAssumption DEF Core
<1>2. RxFirst(i) \in AnyStep
  BY LifecycleAssumption DEF RxFirst, S, AnyStep, Call, Act, Port
<1>3. IsResource(RxFirst(i))
  BY <1>1 DEF RxFirst, S, IsResource
<1> QED BY <1>2, <1>3, ResourceIff DEF RxFirst, S, Stage

(* A step of main that opens no file and writes no registers, whether it   *)
(* succeeds or fails.                                                      *)
LEMMA RingStart ==
  ASSUME ProcInv, DeviceInv, DeviceInv', RingInv, NEW p \in Proc, NEW acts, NEW s \in Step(p, acts),
         Acquired(p, s) \/ Failed(p, s, held[p]) \/ Failed(p, s, held[p] \cup {s}), file' = file,
         s.act = "rxring" => Valid(p, s.port), OneKeeping
  PROVE  RingInv'
<1>1. ASSUME NEW q \in Proc, q # p
      PROVE  mode'[q] = mode[q] /\ pc'[q] = pc[q] /\ held'[q] = held[q] /\ file'[q] = file[q]
  BY <1>1 DEF Acquired, Failed, ProcInv, ProcTypes
<1>2. held'[p] \subseteq held[p] \cup {s}
  BY DEF Acquired, Failed, ProcInv, ProcTypes
<1>3. ASSUME NEW i \in Port, RxFirst(i) \in held'[p] PROVE RxFirst(i) \in held[p] \/ Valid(p, i)
  BY <1>2, <1>3, RxFirstNamed
<1>4. Stays(p)
  <2>1. \A i \in Port : Valid(p, i)' => Valid(p, i) /\ file'[p][i] = file[p][i]
    BY DEF Valid
  <2>2. CASE Acquired(p, s)
    <3>1. ASSUME NEW i \in Port, Passed(p, RegisterStep(i)) PROVE Passed(p, RegisterStep(i))'
      BY <3>1, <2>2, AcquiredFacts, Named
    <3> QED BY <2>1, <3>1, <1>3, StepFacts DEF Stays
  <2>3. CASE Failed(p, s, held[p]) \/ Failed(p, s, held[p] \cup {s})
    <3>1. Releasing(p)'
      BY <2>3 DEF Failed, ProcInv, ProcTypes, Releasing
    <3> QED BY <2>1, <3>1, <1>3 DEF Stays
  <2> QED BY <2>2, <2>3
<1> QED BY <1>1, <1>4, RingBy


(* The steps of main that write no registers and open no file keep layer 6. *)
LEMMA RingStarts ==
  ASSUME ProcInv, DeviceInv, DeviceInv', RingInv, NEW p \in Proc,
         \/ Private(p) \/ OpenQueue(p) \/ MapPages(p) \/ CreateThread(p) \/ FailStep(p)
         \/ MapArea(p) \/ IrqOpen(p) \/ DeviceUp(p)
  PROVE  RingInv'
<1>0. adapter \in [Device -> AdapterType]
  BY DEF DeviceInv
<1>1. adapter' = adapter => OneKeeping
  BY DEF OneKeeping
<1>2. ASSUME NEW i, Valid(p, i), NEW b, adapter' = [adapter EXCEPT ![file[p][i]] = b],
             adapter[file[p][i]] \in AdapterType => Keeping(adapter[file[p][i]], b)
      PROVE  OneKeeping
  BY <1>0, <1>2 DEF Valid, OneKeeping
<1>3. CASE Private(p)
  <2>1. PICK s \in Step(p, {"bar", "rings", "slots", "pool", "mask", "alloc"}) :
           Acquired(p, s) /\ UNCHANGED <<adapter, file>>
    BY <1>3 DEF Private
  <2>2. s.act # "rxring"
    BY StepFacts
  <2> QED BY <2>1, <2>2, <1>1, RingStart
<1>4. CASE OpenQueue(p)
  <2>1. PICK s \in Step(p, {"queue"}) : AcquiredOrFailed(p, s) /\ UNCHANGED <<adapter, file>>
    BY <1>4 DEF OpenQueue
  <2>2. s.act # "rxring" /\ (Acquired(p, s) \/ Failed(p, s, held[p] \cup {s}))
    BY <2>1, StepFacts DEF AcquiredOrFailed
  <2> QED BY <2>1, <2>2, <1>1, RingStart
<1>5. CASE MapPages(p)
  <2>1. PICK s \in Step(p, {"mmap"}) : Acquired(p, s) /\ UNCHANGED <<adapter, file>>
    BY <1>5 DEF MapPages
  <2>2. s.act # "rxring"
    BY StepFacts
  <2> QED BY <2>1, <2>2, <1>1, RingStart
<1>6. CASE CreateThread(p)
  <2>1. PICK s \in Step(p, {"thread"}) : Acquired(p, s) /\ UNCHANGED <<adapter, file>>
    BY <1>6 DEF CreateThread
  <2>2. s.act # "rxring"
    BY StepFacts
  <2> QED BY <2>1, <2>2, <1>1, RingStart
<1>7. CASE FailStep(p)
  <2>1. PICK s \in Step(p, Fallible) : Failed(p, s, held[p]) /\ UNCHANGED <<adapter, file>>
    BY <1>7 DEF FailStep
  <2>2. ASSUME NEW q \in Proc, q # p
        PROVE  mode'[q] = mode[q] /\ pc'[q] = pc[q] /\ held'[q] = held[q] /\ file'[q] = file[q]
    BY <2>1, <2>2 DEF Failed, ProcInv, ProcTypes
  <2>3. Releasing(p)' /\ held'[p] = held[p]
    BY <2>1 DEF Failed, ProcInv, ProcTypes, Releasing
  <2>4. Stays(p)
    BY <2>1, <2>3 DEF Stays, Valid
  <2> QED BY <2>1, <2>2, <2>4, <1>1, RingBy
<1>8. CASE MapArea(p)
  <2>1. PICK s \in Step(p, {"rxring", "txring", "buffer"}) :
           /\ Valid(p, s.port)
           /\ adapter' = [adapter EXCEPT ![file[p][s.port]] = dma_map(@, AreaOf(p, s).addr, AreaOf(p, s).len)]
           /\ Acquired(p, s) \/ AcquiredOrFailed(p, s)
           /\ file' = file
    BY <1>8 DEF MapArea
  <2>2. Acquired(p, s) \/ Failed(p, s, held[p] \cup {s})
    BY <2>1 DEF AcquiredOrFailed
  <2>3. PICK b : b = dma_map(adapter[file[p][s.port]], AreaOf(p, s).addr, AreaOf(p, s).len)
    OBVIOUS
  <2>4. adapter' = [adapter EXCEPT ![file[p][s.port]] = b]
    BY <2>1, <2>3
  <2>5. OneKeeping
    BY <2>1, <2>3, <2>4, <1>2, CommandsKeep
  <2> QED BY <2>1, <2>2, <2>5, RingStart
<1>9. CASE IrqOpen(p)
  <2>1. PICK s \in Step(p, {"rxirq", "txirq"}) :
           /\ Valid(p, s.port)
           /\ adapter' = [adapter EXCEPT ![file[p][s.port]] =
                             irq_assign(@, <<s.core, IF s.act = "rxirq" THEN "rx" ELSE "tx">>, p)]
           /\ AcquiredOrFailed(p, s) /\ file' = file
    BY <1>9 DEF IrqOpen
  <2>2. Acquired(p, s) \/ Failed(p, s, held[p] \cup {s})
    BY <2>1 DEF AcquiredOrFailed
  <2>3. PICK v : v = <<s.core, IF s.act = "rxirq" THEN "rx" ELSE "tx">>
    OBVIOUS
  <2>4. PICK b : b = irq_assign(adapter[file[p][s.port]], v, p)
    OBVIOUS
  <2>5. adapter' = [adapter EXCEPT ![file[p][s.port]] = b]
    BY <2>1, <2>3, <2>4
  <2>6. OneKeeping
    BY <2>1, <2>4, <2>5, <1>2, CommandsKeep
  <2> QED BY <2>1, <2>2, <2>6, RingStart
<1>10. CASE DeviceUp(p)
  <2>1. PICK s \in Step(p, {"up"}), msix \in {"ok", "failed"} :
           /\ Valid(p, s.port)
           /\ adapter' = [adapter EXCEPT ![file[p][s.port]] = cmd_up(@, msix)]
           /\ Acquired(p, s) /\ file' = file
    BY <1>10 DEF DeviceUp
  <2>2. PICK b : b = cmd_up(adapter[file[p][s.port]], msix)
    OBVIOUS
  <2>3. adapter' = [adapter EXCEPT ![file[p][s.port]] = b]
    BY <2>1, <2>2
  <2>4. OneKeeping
    BY <2>1, <2>2, <2>3, <1>2, CommandsKeep
  <2> QED BY <2>1, <2>4, RingStart
<1> QED BY <1>3, <1>4, <1>5, <1>6, <1>7, <1>8, <1>9, <1>10

(* Before it opens its last file, main has neither mapped nor written a    *)
(* ring.                                                                   *)
LEMMA OpeningHasNothing ==
  ASSUME ProcInv, RingInv, NEW p \in Proc, NEW s \in Step(p, {"file"})
  PROVE  \A i \in Port : /\ RxFirst(i) \notin held[p] /\ ~ Passed(p, RegisterStep(i)) /\ ~ Programmed(p, i)
<1>1. s = Now(p) /\ mode[p] \in {"off", "start"} /\ ~ Releasing(p) /\ s.act = "file" /\ s \in AnyStep
  BY StepFacts
<1>2. Stage(s) = 1
  <2>1. s.port \in Port /\ s = FileStep(s.port)
    BY StepFacts, NameOf
  <2>2. s.call = "open"
    BY <2>1, Named
  <2> QED BY <2>2 DEF Stage
<1>3. ASSUME NEW x, Stage(x) \in {2, 3} PROVE ~ Passed(p, x)
  BY <1>1, <1>2, <1>3 DEF Passed, Before
<1>4. ASSUME NEW i \in Port PROVE RxFirst(i) \notin held[p]
  BY <1>1, <1>3, RxFirstNamed DEF ProcInv, Where
<1>5. ASSUME NEW i \in Port PROVE ~ Passed(p, RegisterStep(i))
  <2>1. Stage(RegisterStep(i)) = 3
    BY DEF Stage, RegisterStep, S
  <2> QED BY <2>1, <1>3
<1>6. ASSUME NEW i \in Port PROVE ~ Programmed(p, i)
  BY <1>1, <1>5 DEF RingInv, Written
<1> QED BY <1>4, <1>5, <1>6

(* open(2) keeps layer 6. *)
LEMMA OpenFileRing ==
  ASSUME ProcInv, DeviceInv, DeviceInv', RingInv, NEW p \in Proc, OpenFile(p)
  PROVE  RingInv'
<1>1. PICK s \in Step(p, {"file"}), d \in Bound :
         /\ adapter[d].id = s.port /\ ~ inuse(adapter[d]) /\ adapter' = [adapter EXCEPT ![d] = adapter_get(@)]
         /\ file' = [file EXCEPT ![p][s.port] = d] /\ Acquired(p, s)
  BY DEF OpenFile
<1>2. PICK i \in Port : i = s.port /\ s = FileStep(i)
  BY StepFacts, NameOf
<1>3. d \in Device /\ adapter[d].phase = "bound" /\ adapter[d] \in AdapterType /\ adapter \in [Device -> AdapterType]
  BY DEF Bound, DeviceInv
<1>4. ~ Owned(d) /\ adapter[d].ring = NoRing
  <2>1. adapter[d].refcount = 1
    BY <1>1 DEF inuse
  <2>2. adapter[d].refcount = IF Owned(d) THEN 2 ELSE 1
    BY <1>3 DEF DeviceInv, Kept
  <2>3. ~ Owned(d)
    BY <2>1, <2>2
  <2>4. ~ adapter[d].up
    BY <2>3, <1>3 DEF DeviceInv, Kept
  <2> QED BY <2>3, <2>4, <1>3 DEF RingInv, DownNoRings
<1>5. PICK b : b = adapter_get(adapter[d])
  OBVIOUS
<1>6. adapter' = [adapter EXCEPT ![d] = b] /\ Keeping(adapter[d], b)
  BY <1>1, <1>3, <1>5, CommandsKeep
<1>7. OneKeeping
  BY <1>3, <1>6 DEF OneKeeping
<1>8. /\ file'[p][i] = d /\ \A j \in Port : j # i => file'[p][j] = file[p][j]
      /\ \A q \in Proc : q # p => file'[q] = file[q]
  BY <1>1, <1>2 DEF ProcInv, ProcTypes
<1>9. ASSUME NEW j \in Port, Valid(p, j)'
      PROVE  adapter'[file'[p][j]].ring = NoRing /\ adapter'[file'[p][j]].id = j
  <2>1. CASE j = i
    <3>1. adapter'[d] = b /\ b.id = i /\ b.ring = NoRing
      BY <1>1, <1>2, <1>3, <1>4, <1>6 DEF Keeping
    <3> QED BY <2>1, <3>1, <1>8
  <2>2. CASE j # i
    <3>1. Valid(p, j) /\ file'[p][j] = file[p][j] /\ file[p][j] \in Device /\ file[p][j] # d
      BY <2>2, <1>4, <1>8, <1>9 DEF Valid, Owned
    <3>2. adapter'[file[p][j]] = adapter[file[p][j]]
      BY <3>1, <1>3, <1>6
    <3>3. adapter[file[p][j]].ring = NoRing
      BY <3>1, OpeningHasNothing DEF Programmed
    <3> QED BY <3>1, <3>2, <3>3 DEF RingInv, NamesRight
  <2> QED BY <2>1, <2>2
<1>10. ASSUME NEW j \in Port PROVE RxFirst(j) \notin held'[p]
  <2>1. RxFirst(j) \notin held[p] /\ RxFirst(j) # s
    BY <1>2, OpeningHasNothing, RxFirstNamed, Named
  <2>2. held'[p] = held[p] \cup ({s} \cap Resource)
    BY <1>1, AcquiredFacts
  <2> QED BY <2>1, <2>2
<1>11. Begins(p)
  BY <1>9, <1>10 DEF Begins
<1>12. ASSUME NEW q \in Proc, q # p
       PROVE  mode'[q] = mode[q] /\ pc'[q] = pc[q] /\ held'[q] = held[q] /\ file'[q] = file[q]
  BY <1>1, <1>8, <1>12, AcquiredFacts
<1> QED BY <1>7, <1>11, <1>12, RingBy


(* When main writes the registers of a port, it has its files brought up   *)
(* and all its rings mapped.                                               *)
LEMMA RegistersLate ==
  ASSUME ProcInv, NEW p \in Proc, NEW s \in Step(p, {"registers"}), NEW i \in Port
  PROVE  Passed(p, UpStep(i)) /\ RxFirst(i) \in held[p]
<1>1. s = Now(p) /\ mode[p] \in {"off", "start"} /\ ~ Releasing(p)
  BY StepFacts
<1>2. Stage(s) = 3
  <2>1. s.port \in Port /\ s = RegisterStep(s.port)
    BY StepFacts, NameOf
  <2> QED BY <2>1 DEF RegisterStep, S, Stage
<1>3. ASSUME NEW x, Stage(x) \in {1, 2} PROVE Passed(p, x)
  BY <1>1, <1>2, <1>3 DEF Passed, Before
<1>4. Passed(p, UpStep(i))
  <2>1. Stage(UpStep(i)) = 1
    BY DEF UpStep, S, Stage
  <2> QED BY <2>1, <1>3
<1>5. RxFirst(i) \in held[p]
  BY <1>1, <1>3, RxFirstNamed DEF ProcInv, Where
<1> QED BY <1>4, <1>5

(* Once main has written registers, its rings are in its own pages. *)
LEMMA PlacedByMain ==
  ASSUME ProcInv, AreaInv, TargetInv, NEW p \in Proc, ~ Releasing(p), Written(p), HasRings(p)
  PROVE  Placed(p)
<1>1. PICK b : b = [q \in Core |-> mem[p]["desc"][q]]
  OBVIOUS
<1>2. PICK j \in Port : Programmed(p, j)
  BY DEF HasRings
<1>3. Passed(p, RegisterStep(j))
  BY <1>2 DEF Written
<1>4. \A c \in Core : mem[p]["desc"][c] \in Block /\ mem[p]["desc"][c] # None
  BY <1>3, RegistersFirst, PagesHeld DEF Pages
<1>5. b \in [Core -> Block]
  BY <1>1, <1>4
<1>6. \A q, e \in Core : b[q] = b[e] => q = e
  BY <1>1, <1>4 DEF AreaInv, PagesApart, Pages
<1>7. ASSUME NEW i \in Port, NEW q \in Core, Valid(p, i), adapter[file[p][i]].ring[q] # None
      PROVE  adapter[file[p][i]].ring[q] = RingAt(b, q, i)
  <2>1. Programmed(p, i)
    BY <1>7 DEF Programmed, NoRing
  <2>2. Passed(p, RegisterStep(i))
    BY <2>1 DEF Written
  <2>3. adapter[file[p][i]].ring[q] = [rx |-> At(mem[p]["desc"][q], RxOff(i)), tx |-> At(mem[p]["desc"][q], TxOff(i))]
    BY <2>2, <1>7 DEF TargetInv, TargetsAt
  <2> QED BY <2>3, <1>1 DEF RingAt
<1> QED BY <1>5, <1>6, <1>7 DEF Placed, PlacedAt

MainPlaces == \A p \in Proc : ~ Releasing(p) /\ Written(p) /\ HasRings(p) => Placed(p)

(* The same for all processes. *)
LEMMA PlacedNow == ProcInv /\ AreaInv /\ TargetInv => MainPlaces
BY PlacedByMain DEF MainPlaces

(* After a step. *)
LEMMA PlacedNext == ProcInv' /\ AreaInv' /\ TargetInv' => MainPlaces'
BY PlacedNow, PTL

(* main writes the registers of a port. *)
LEMMA RegistersRing ==
  ASSUME ProcInv, DeviceInv, RingInv, NEW p \in Proc, Registers(p),
         MainPlaces'
  PROVE  RingInv'
<1>1. PICK s \in Step(p, {"registers"}) :
         /\ adapter' = IF ~Valid(p, s.port) THEN adapter
                       ELSE [adapter EXCEPT ![file[p][s.port]] =
                               configure(@, [q \in Core |->
                                   [rx |-> configure_rx_ring(p, q, s.port),
                                    tx |-> configure_tx_ring(p, q, s.port)]])]
         /\ Acquired(p, s) /\ file' = file
  BY DEF Registers
<1>2. PICK i \in Port : i = s.port /\ s = RegisterStep(i)
  BY StepFacts, NameOf
<1>3. adapter \in [Device -> AdapterType]
  BY DEF DeviceInv
<1>4. ASSUME NEW d \in Device
      PROVE  /\ adapter'[d].phase = adapter[d].phase /\ adapter'[d].id = adapter[d].id
             /\ adapter'[d].up = adapter[d].up
             /\ adapter'[d] = adapter[d] \/ (d = file[p][i] /\ Valid(p, i))
  <2>1. CASE d # file[p][i] \/ ~ Valid(p, i)
    <3>1. adapter'[d] = adapter[d]
      BY <2>1, <1>1, <1>2, <1>3
    <3> QED BY <3>1
  <2>2. CASE d = file[p][i] /\ Valid(p, i)
    <3>1. PICK g : adapter' = [adapter EXCEPT ![d] = configure(@, g)]
      BY <2>2, <1>1, <1>2
    <3>2. adapter'[d] = [adapter[d] EXCEPT !.ring = g]
      BY <3>1, <1>3 DEF configure
    <3> QED BY <2>2, <3>2, <1>3 DEF AdapterType
  <2> QED BY <2>1, <2>2
<1>5. \A q \in Proc, j \in Port : Valid(q, j)' <=> Valid(q, j)
  BY <1>1 DEF Valid
<1>6. ASSUME NEW q \in Proc, NEW j \in Port, q # p \/ j # i, Valid(q, j)
      PROVE  adapter'[file[q][j]] = adapter[file[q][j]]
  <2>1. file[q][j] \in Device
    BY <1>6 DEF Valid
  <2>2. Valid(p, i) => file[q][j] # file[p][i]
    BY <1>6, OtherFiles
  <2> QED BY <2>1, <2>2, <1>4
<1>7. ASSUME NEW q \in Proc, NEW j \in Port, q # p \/ j # i
      PROVE  Programmed(q, j)' <=> Programmed(q, j)
  BY <1>1, <1>5, <1>6, <1>7 DEF Programmed, NoRing
<1>8. /\ held'[p] = held[p] \cup ({s} \cap Resource) /\ mode'[p] \in {"start", "wait"}
      /\ \A x \in StartStep : Passed(p, x)' <=> Passed(p, x) \/ x = s
      /\ \A q \in Proc \ {p} : held'[q] = held[q] /\ mode'[q] = mode[q] /\ pc'[q] = pc[q]
  BY <1>1, AcquiredFacts
<1>9. NamesApart' /\ NamesRight'
  <2>1. NamesApart'
    BY <1>4 DEF RingInv, NamesApart, Bound
  <2>2. NamesRight'
    <3>1. ASSUME NEW q \in Proc, NEW j \in Port, Valid(q, j)' PROVE adapter'[file'[q][j]].id = j
      <4>1. Valid(q, j) /\ file[q][j] \in Device /\ file' = file
        BY <1>1, <1>5, <3>1 DEF Valid
      <4> QED BY <4>1, <1>4 DEF RingInv, NamesRight
    <3> QED BY <3>1 DEF NamesRight
  <2> QED BY <2>1, <2>2
<1>10. DownNoRings'
  <2>1. ASSUME NEW d \in Device, ~ adapter'[d].up PROVE adapter'[d].ring = NoRing
    <3>1. ~ adapter[d].up
      BY <2>1, <1>4
    <3>2. ~ (d = file[p][i] /\ Valid(p, i))
      <4>1. Passed(p, UpStep(i))
        BY RegistersLate
      <4> QED BY <3>1, <4>1 DEF DeviceInv, Powered
    <3> QED BY <3>1, <3>2, <1>4 DEF RingInv, DownNoRings
  <2> QED BY <2>1 DEF DownNoRings, NoRing
<1>11. NoRivals'
  <2>1. ASSUME NEW q \in Proc, NEW j \in Port, Claim(q, j)' PROVE Claim(q, j)
    <3>1. CASE q = p
      BY <3>1, RegistersLate DEF Claim
    <3>2. CASE q # p
      <4>1. HasRings(q)' <=> HasRings(q)
        BY <3>2, <1>7 DEF HasRings
      <4>2. held'[q] = held[q]
        BY <3>2, <1>8
      <4> QED BY <2>1, <4>1, <4>2 DEF Claim, RxFirst
    <3> QED BY <3>1, <3>2
  <2>2. ASSUME NEW q \in Proc, NEW e \in Proc, NEW j \in Port, NEW k \in Port,
               q # e, Valid(q, j)', Claim(e, j)', Valid(e, k)', Claim(q, k)'
        PROVE  FALSE
    <3>1. Valid(q, j) /\ Claim(e, j) /\ Valid(e, k) /\ Claim(q, k)
      BY <2>1, <2>2, <1>5
    <3> QED BY <2>2, <3>1 DEF RingInv, NoRivals
  <2> QED BY <2>2 DEF NoRivals
<1>12. ASSUME NEW q \in Proc, q # p PROVE Written(q)' /\ (HasRings(q)' => Placed(q)')
  <2>1. mode'[q] = mode[q] /\ pc'[q] = pc[q] /\ file'[q] = file[q]
    BY <1>1, <1>8, <1>12
  <2>2. Written(q)'
    <3>1. ASSUME ~ Releasing(q)', NEW j \in Port, Programmed(q, j)' PROVE Passed(q, RegisterStep(j))'
      <4>1. ~ Releasing(q) /\ Programmed(q, j)
        BY <2>1, <3>1, <1>7, <1>12 DEF Releasing
      <4>2. Passed(q, RegisterStep(j))
        BY <4>1 DEF RingInv, Written
      <4> QED BY <2>1, <4>2 DEF Passed, Now
    <3> QED BY <3>1 DEF Written, RegisterStep
  <2>3. ASSUME HasRings(q)' PROVE Placed(q)'
    <3>1. HasRings(q)
      BY <2>3, <1>7, <1>12 DEF HasRings
    <3>2. PICK b \in [Core -> Block] : PlacedAt(q, b)
      BY <3>1 DEF RingInv, Placed
    <3>3. \A j \in Port : Valid(q, j)' => Valid(q, j) /\ adapter'[file'[q][j]] = adapter[file[q][j]]
      BY <2>1, <1>5, <1>6, <1>12
    <3>4. PlacedAt(q, b)'
      BY <3>2, <3>3 DEF PlacedAt, RingAt, At, RxOff, TxOff
    <3> QED BY <3>4 DEF Placed
  <2> QED BY <2>2, <2>3
<1>13. Written(p)'
  <2>1. ASSUME NEW j \in Port, Programmed(p, j)' PROVE Passed(p, RegisterStep(j))'
    <3>1. CASE j = i
      BY <3>1, <1>2, <1>8, Named
    <3>2. CASE j # i
      <4>1. Programmed(p, j) /\ ~ Releasing(p)
        BY <2>1, <3>2, <1>7, StepFacts
      <4>2. Passed(p, RegisterStep(j))
        BY <4>1 DEF RingInv, Written
      <4> QED BY <4>2, <1>8, Named
    <3> QED BY <3>1, <3>2
  <2> QED BY <2>1 DEF Written, RegisterStep
<1>14. HasRings(p)' => Placed(p)'
  <2>1. ~ Releasing(p)'
    BY <1>8 DEF Releasing
  <2> QED BY <2>1, <1>13 DEF MainPlaces
<1>15. \A q \in Proc : Written(q)' /\ (HasRings(q)' => Placed(q)')
  BY <1>12, <1>13, <1>14
<1> QED BY <1>9, <1>10, <1>11, <1>15 DEF RingInv


(* The steps in which a process releases what it holds, but for its files. *)
LEMMA ReleaseRing ==
  ASSUME ProcInv, DeviceInv, DeviceInv', RingInv, NEW p \in Proc,
         \/ SigWait(p) \/ ThreadKill(p) \/ ThreadJoin(p) \/ ClosePrivate(p) \/ UnmapArea(p) \/ UnmapPages(p)
         \/ CloseDown(p)
  PROVE  RingInv'
<1>0. adapter \in [Device -> AdapterType]
  BY DEF DeviceInv
<1>1. adapter' = adapter => OneKeeping
  BY DEF OneKeeping
<1>2. CASE SigWait(p)
  <2>1. mode'[p] = "release" /\ held' = held /\ pc' = pc /\ \A q \in Proc \ {p} : mode'[q] = mode[q]
    BY <1>2, SigWaitFacts
  <2>2. UNCHANGED <<adapter, file>>
    BY <1>2 DEF SigWait
  <2>3. Stays(p)
    BY <2>1, <2>2 DEF Stays, Valid, Releasing
  <2> QED BY <2>1, <2>2, <2>3, <1>1, RingBy
<1>3. ASSUME NEW acts, NEW s \in Todo(p, acts), Released(p, s), UNCHANGED <<mode, pc, file>>, OneKeeping
      PROVE  RingInv'
  <2>1. Releasing(p)'
    BY <1>3, TodoFacts DEF Releasing
  <2>2. held'[p] \subseteq held[p] /\ \A q \in Proc : q # p => held'[q] = held[q]
    BY <1>3 DEF Released, ProcInv, ProcTypes
  <2>3. Stays(p)
    BY <1>3, <2>1, <2>2 DEF Stays, Valid
  <2> QED BY <1>3, <2>2, <2>3, RingBy
<1>4. CASE ThreadKill(p)
  <2>1. PICK s \in Todo(p, {"kill"}) : Released(p, s) /\ UNCHANGED <<adapter, mode, pc, file>>
    BY <1>4 DEF ThreadKill
  <2> QED BY <2>1, <1>1, <1>3
<1>5. CASE ThreadJoin(p)
  <2>1. PICK s \in Todo(p, {"thread"}) : Released(p, s) /\ UNCHANGED <<adapter, mode, pc, file>>
    BY <1>5 DEF ThreadJoin
  <2> QED BY <2>1, <1>1, <1>3
<1>6. CASE ClosePrivate(p)
  <2>1. PICK s \in Todo(p, {"rxirq", "txirq", "queue"}) : Released(p, s) /\ UNCHANGED <<adapter, mode, pc, file>>
    BY <1>6 DEF ClosePrivate
  <2> QED BY <2>1, <1>1, <1>3
<1>7. CASE UnmapArea(p)
  <2>1. PICK s \in Todo(p, {"rxring", "txring", "buffer"}) :
           /\ Valid(p, s.port)
           /\ adapter' = [adapter EXCEPT ![file[p][s.port]] = dma_unmap(@, AreaOf(p, s).addr)]
           /\ Released(p, s) /\ UNCHANGED <<mode, pc, file>>
    BY <1>7 DEF UnmapArea
  <2>2. PICK d \in Device : d = file[p][s.port]
    BY <2>1 DEF Valid
  <2>3. PICK b : b = dma_unmap(adapter[d], AreaOf(p, s).addr)
    OBVIOUS
  <2>4. adapter' = [adapter EXCEPT ![d] = b] /\ Keeping(adapter[d], b)
    BY <2>1, <2>2, <2>3, <1>0, CommandsKeep
  <2>5. OneKeeping
    BY <2>4 DEF OneKeeping
  <2> QED BY <2>1, <2>5, <1>3
<1>8. CASE UnmapPages(p)
  <2>1. PICK s \in Todo(p, {"mmap"}) : Released(p, s) /\ UNCHANGED <<adapter, mode, pc, file>>
    BY <1>8 DEF UnmapPages
  <2> QED BY <2>1, <1>1, <1>3
<1>9. CASE CloseDown(p)
  <2>1. PICK s \in Todo(p, {"down"}) :
           /\ Valid(p, s.port) /\ adapter' = [adapter EXCEPT ![file[p][s.port]] = cmd_down(@)]
           /\ Released(p, s) /\ UNCHANGED <<mode, pc, file>>
    BY <1>9 DEF CloseDown
  <2>2. PICK d \in Device : d = file[p][s.port]
    BY <2>1 DEF Valid
  <2>3. PICK b : b = cmd_down(adapter[d])
    OBVIOUS
  <2>4. adapter' = [adapter EXCEPT ![d] = b] /\ Keeping(adapter[d], b)
    BY <2>1, <2>2, <2>3, <1>0, CommandsKeep
  <2>5. OneKeeping
    BY <2>4 DEF OneKeeping
  <2> QED BY <2>1, <2>5, <1>3
<1> QED BY <1>2, <1>4, <1>5, <1>6, <1>7, <1>8, <1>9

(* A file is closed; with the last one the process is gone. *)
LEMMA ClosePutRing ==
  ASSUME ProcInv, ProcInv', DeviceInv, DeviceInv', RingInv, NEW p \in Proc, ClosePut(p)
  PROVE  RingInv'
<1>0. adapter \in [Device -> AdapterType]
  BY DEF DeviceInv
<1>1. PICK s \in Todo(p, {"file"}) :
         /\ Valid(p, s.port) /\ adapter' = [adapter EXCEPT ![file[p][s.port]] = adapter_put(@)]
         /\ file' = [file EXCEPT ![p][s.port] = None] /\ Released(p, s)
         /\ mode' = [mode EXCEPT ![p] = IF Tail(rel[p]) = <<>> THEN "off" ELSE @]
         /\ pc' = pc
  BY DEF ClosePut
<1>2. PICK d \in Device : d = file[p][s.port]
  BY <1>1 DEF Valid
<1>3. PICK b : b = adapter_put(adapter[d])
  OBVIOUS
<1>4. adapter' = [adapter EXCEPT ![d] = b] /\ Keeping(adapter[d], b)
  BY <1>0, <1>1, <1>2, <1>3, CommandsKeep
<1>5. OneKeeping
  BY <1>4 DEF OneKeeping
<1>6. mode' = mode \/ (Tail(rel[p]) = <<>> /\ mode' = [mode EXCEPT ![p] = "off"])
  BY <1>1 DEF ProcInv, ProcTypes
<1>7. /\ held'[p] = held[p] \ {s} /\ mode'[p] \in {mode[p], "off"} /\ (mode'[p] = "off" => held'[p] = {})
      /\ \A q \in Proc \ {p} : held'[q] = held[q] /\ mode'[q] = mode[q] /\ pc'[q] = pc[q]
  BY <1>1, <1>6, ReleasedFacts, ZenonT(60)
<1>8. \A q \in Proc : q # p => file'[q] = file[q]
  BY <1>1 DEF ProcInv, ProcTypes
<1>9. ASSUME NEW i \in Port, Valid(p, i)' PROVE Valid(p, i) /\ file'[p][i] = file[p][i]
  <2>1. file'[p][i] = None \/ file'[p][i] = file[p][i]
    BY <1>1 DEF ProcInv, ProcTypes
  <2> QED BY <2>1, <1>9, LifecycleAssumption DEF Valid
<1>10. Releasing(p)' \/ \A i \in Port : ~ Valid(p, i)'
  <2>1. CASE mode'[p] = mode[p]
    BY <2>1, TodoFacts DEF Releasing
  <2>2. CASE mode'[p] = "off"
    <3>1. held'[p] = {}
      BY <2>2, <1>7
    <3>2. \A i \in Port : file'[p][i] = None
      BY <3>1 DEF ProcInv, Handles
    <3> QED BY <3>2, LifecycleAssumption DEF Valid
  <2> QED BY <2>1, <2>2, <1>7
<1>11. Stays(p)
  BY <1>7, <1>9, <1>10 DEF Stays
<1> QED BY <1>5, <1>7, <1>8, <1>11, RingBy

(* A process is killed. *)
LEMMA CrashRing ==
  ASSUME ProcInv, DeviceInv, DeviceInv', RingInv, NEW p \in Proc, Crash(p)
  PROVE  RingInv'
<1>1. UNCHANGED <<adapter, file>>
  BY DEF Crash
<1>2. /\ mode'[p] \in {"aborted", "dying"} /\ held'[p] \subseteq held[p]
      /\ \A q \in Proc \ {p} : held'[q] = held[q] /\ mode'[q] = mode[q] /\ pc'[q] = pc[q]
  BY CrashFacts
<1>3. Stays(p)
  BY <1>1, <1>2 DEF Stays, Valid, Releasing
<1> QED BY <1>1, <1>2, <1>3, RingBy DEF OneKeeping

(* The steps that change no process's place: of a thread, of an adapter or *)
(* of nobody.                                                              *)
LEMMA IdleRing ==
  ASSUME DeviceInv, DeviceInv', RingInv, UNCHANGED <<mode, pc, held>>,
         \A p \in Proc, i \in Port : Valid(p, i)' => file'[p][i] = file[p][i],
         NamesApart', \A d \in Device : Tame(d)
  PROVE  RingInv'
<1>1. \A q \in Proc : Stays(q)
  BY StaysFrame
<1> QED BY <1>1, RingFrame

(* A thread gives the NIC its first slots. *)
LEMMA ThreadRunRing ==
  ASSUME DeviceInv, DeviceInv', RingInv, NEW p \in Proc, NEW c \in Core, ThreadRun(p, c)
  PROVE  RingInv'
<1>0. adapter \in [Device -> AdapterType]
  BY DEF DeviceInv
<1>1. UNCHANGED <<mode, pc, held, file>>
  BY DEF ThreadRun
<1>2. PICK x : x = At(mem[p]["buf"][c], 0)
  OBVIOUS
<1>3. ASSUME NEW d \in Device PROVE adapter'[d] = adapter[d] \/ adapter'[d] = rx_assign(adapter[d], c, x)
  BY <1>2 DEF ThreadRun
<1>4. ASSUME NEW d \in Device PROVE Tame(d) /\ adapter'[d].phase = adapter[d].phase
  <2>1. CASE adapter'[d] = adapter[d]
    BY <2>1 DEF Tame
  <2>2. CASE adapter'[d] = rx_assign(adapter[d], c, x)
    <3>1. Keeping(adapter[d], adapter'[d])
      BY <2>2, <1>0, CommandsKeep
    <3> QED BY <3>1 DEF Keeping, Tame
  <2> QED BY <2>1, <2>2, <1>3
<1>5. NamesApart'
  BY <1>4, NamesFrame
<1> QED BY <1>1, <1>4, <1>5, IdleRing

(* Probe and remove. *)
LEMMA DeviceRing ==
  ASSUME DeviceInv, DeviceInv', RingInv, NEW d \in Device, Probe(d) \/ RemoveDevice(d)
  PROVE  RingInv'
<1>0. adapter \in [Device -> AdapterType]
  BY DEF DeviceInv
<1>1. /\ UNCHANGED <<mode, pc, held>>
      /\ \A e \in Device \ {d} : adapter'[e] = adapter[e]
      /\ \A p \in Proc, i \in Port : Valid(p, i)' => file'[p][i] = file[p][i]
  <2>1. CASE Probe(d)
    <3>1. UNCHANGED <<mode, pc, held, file>>
      BY <2>1 DEF Probe, procVars
    <3>2. ASSUME NEW e \in Device \ {d} PROVE adapter'[e] = adapter[e]
      BY <2>1, <1>0 DEF Probe, ProbeAlloc, ProbeInit, ProbeFail, ProbeRegister
    <3> QED BY <3>1, <3>2
  <2>2. CASE RemoveDevice(d)
    <3>1. UNCHANGED <<mode, pc, held>> /\ \A e \in Device \ {d} : adapter'[e] = adapter[e]
      BY <2>2, <1>0 DEF RemoveDevice, ixmap_remove
    <3>2. ASSUME NEW p \in Proc, NEW i \in Port, Valid(p, i)' PROVE file'[p][i] = file[p][i]
      <4>1. file'[p][i] = IF file[p][i] = d THEN Freed ELSE file[p][i]
        BY <2>2 DEF RemoveDevice
      <4> QED BY <4>1, <3>2, LifecycleAssumption DEF Valid
    <3> QED BY <3>1, <3>2
  <2> QED BY <2>1, <2>2
<1>2. CASE ProbeRegister(d)
  <2>1. adapter'[d] = [adapter[d] EXCEPT !.phase = "bound"] /\ adapter[d].phase = "init" /\ NameFree(d)
    BY <1>0, <1>2 DEF ProbeRegister
  <2>2. /\ adapter'[d].phase = "bound" /\ adapter'[d].id = adapter[d].id
        /\ adapter'[d].ring = adapter[d].ring /\ adapter'[d].up = adapter[d].up
    BY <2>1, <1>0 DEF AdapterType
  <2>3. \A e \in Device : Tame(e) /\ adapter'[e].id = adapter[e].id
    BY <2>2, <1>1 DEF Tame
  <2>4. ASSUME NEW e \in Device, NEW f \in Device, adapter'[e].phase = "bound", adapter'[f].phase = "bound",
               adapter'[e].id = adapter'[f].id
        PROVE  e = f
    <3>1. adapter[e].id = adapter[f].id
      BY <2>3, <2>4
    <3>2. /\ e # d => e \in Bound
          /\ f # d => f \in Bound
      BY <2>4, <1>1 DEF Bound
    <3> QED BY <2>1, <3>1, <3>2 DEF NameFree, RingInv, NamesApart
  <2>5. NamesApart'
    BY <2>4 DEF NamesApart, Bound
  <2> QED BY <2>3, <2>5, <1>1, IdleRing
<1>3. CASE ProbeAlloc(d) \/ ProbeInit(d) \/ ProbeFail(d) \/ RemoveDevice(d)
  <2>1. Tame(d) /\ adapter'[d].phase # "bound"
    <3>1. CASE ProbeAlloc(d)
      <4>1. PICK n : adapter'[d] = [Absent EXCEPT !.phase = "alloc", !.refcount = 1, !.id = n]
        BY <3>1, <1>0 DEF ProbeAlloc
      <4>2. adapter'[d].phase = "alloc" /\ adapter'[d].ring = NoRing
        BY <4>1 DEF Absent
      <4> QED BY <4>2 DEF Tame
    <3>2. CASE ProbeInit(d)
      <4>1. PICK b : b = dma_map(adapter[d], BarAddr, BarLen)
        OBVIOUS
      <4>2. adapter'[d] = [b EXCEPT !.phase = "init"] /\ Keeping(adapter[d], b) /\ b \in AdapterType
        <5>1. adapter'[d] = [b EXCEPT !.phase = "init"]
          BY <3>2, <4>1, <1>0 DEF ProbeInit, dma_map_iobase
        <5>2. BarAddr \in Nat /\ BarLen \in Nat /\ CanMap(adapter[d], BarAddr, BarLen)
          BY <3>2, AdapterAssumption DEF ProbeInit
        <5>3. b \in AdapterType
          BY <5>2, <4>1, <1>0, MapFacts
        <5> QED BY <5>1, <5>3, <4>1, <1>0, CommandsKeep
      <4>3. adapter'[d].phase = "init" /\ adapter'[d].ring = b.ring /\ adapter'[d].up = b.up
        BY <4>2 DEF AdapterType
      <4> QED BY <4>2, <4>3 DEF Keeping, Tame
    <3>3. CASE ProbeFail(d) \/ RemoveDevice(d)
      <4>1. adapter'[d] = Absent
        BY <3>3, <1>0 DEF ProbeFail, RemoveDevice, ixmap_remove
      <4> QED BY <4>1, AbsentFacts DEF Tame
    <3> QED BY <3>1, <3>2, <3>3, <1>3
  <2>2. \A e \in Device : Tame(e) /\ (adapter'[e].phase = "bound" => adapter[e].phase = "bound")
    BY <2>1, <1>1 DEF Tame
  <2>3. NamesApart'
    BY <2>2, NamesFrame
  <2> QED BY <2>2, <2>3, <1>1, IdleRing
<1> QED BY <1>2, <1>3 DEF Probe

(* With no file open and all adapters absent, layer 6 holds. *)
LEMMA RingFresh == Fresh => RingInv
<1> SUFFICES ASSUME Fresh PROVE RingInv
  OBVIOUS
<1>1. \A p \in Proc, i \in Port : ~ Valid(p, i)
  BY LifecycleAssumption DEF Fresh, Valid, NoFile
<1>2. \A d \in Device : adapter[d] = Absent
  BY DEF Fresh
<1>3. NamesApart /\ DownNoRings
  BY <1>2, AbsentFacts DEF NamesApart, Bound, DownNoRings
<1>4. NamesRight /\ NoRivals
  BY <1>1 DEF NamesRight, NoRivals
<1>5. \A p \in Proc : Written(p) /\ ~ HasRings(p)
  BY <1>1 DEF Written, HasRings, Programmed
<1> QED BY <1>3, <1>4, <1>5 DEF RingInv


(* Every step keeps layer 6. *)
LEMMA RingStep ==
  ASSUME ProcInv, DeviceInv, RingInv, ProcInv', DeviceInv', MainPlaces', [Next]_vars
  PROVE  RingInv'
<1>0. ASSUME UNCHANGED <<adapter, mode, pc, held, file>> PROVE RingInv'
  <2>1. \A d \in Device : Tame(d)
    BY <1>0 DEF Tame
  <2>2. NamesApart'
    BY <1>0, <2>1, NamesFrame
  <2> QED BY <1>0, <2>1, <2>2, IdleRing
<1>1. ASSUME NEW p \in Proc, Main(p) PROVE RingInv'
  <2>1. CASE \/ Private(p) \/ OpenQueue(p) \/ MapPages(p) \/ CreateThread(p) \/ FailStep(p)
             \/ MapArea(p) \/ IrqOpen(p) \/ DeviceUp(p)
    BY <2>1, RingStarts
  <2>2. CASE OpenFile(p) \/ Registers(p)
    BY <2>2, OpenFileRing, RegistersRing
  <2>3. CASE \/ SigWait(p) \/ ThreadKill(p) \/ ThreadJoin(p) \/ ClosePrivate(p) \/ UnmapArea(p)
             \/ UnmapPages(p) \/ CloseDown(p)
    BY <2>3, ReleaseRing
  <2>4. CASE ClosePut(p)
    BY <2>4, ClosePutRing
  <2>5. CASE Fault(p)
    <3>1. UNCHANGED <<adapter, mode, pc, held, file>>
      BY <2>5 DEF Fault, procVars
    <3> QED BY <3>1, <1>0
  <2> QED BY <1>1, <2>1, <2>2, <2>3, <2>4, <2>5 DEF Main
<1>2. ASSUME NEW p \in Proc, Interrupt(p) PROVE RingInv'
  <2>1. UNCHANGED <<adapter, mode, pc, held, file>>
    BY <1>2 DEF Interrupt
  <2> QED BY <2>1, <1>0
<1>3. ASSUME NEW p \in Proc, Crash(p) PROVE RingInv'
  BY <1>3, CrashRing
<1>4. ASSUME NEW p \in Proc, NEW c \in Core, ThreadRun(p, c) PROVE RingInv'
  BY <1>4, ThreadRunRing
<1>5. ASSUME NEW p \in Proc, NEW c \in Core, ThreadEnd(p, c) PROVE RingInv'
  <2>1. UNCHANGED <<adapter, mode, pc, held, file>>
    BY <1>5 DEF ThreadEnd
  <2> QED BY <2>1, <1>0
<1>6. ASSUME NEW d \in Device, Probe(d) \/ RemoveDevice(d) PROVE RingInv'
  BY <1>6, DeviceRing
<1>7. CASE Reboot
  <2>1. Fresh'
    BY <1>7 DEF Reboot, Fresh, Absent, NoFile, NoCtx, NoRing
  <2>2. (Fresh => RingInv)'
    BY RingFresh, PTL
  <2> QED BY <2>1, <2>2
<1>8. CASE UNCHANGED vars
  <2>1. UNCHANGED <<adapter, mode, pc, held, file>>
    BY <1>8 DEF vars, procVars
  <2> QED BY <2>1, <1>0
<1> QED BY <1>1, <1>2, <1>3, <1>4, <1>5, <1>6, <1>7, <1>8 DEF Next

(* All layers hold in every state. *)
LEMMA RingsHold == Spec => [](ProcInv /\ DeviceInv /\ CauseInv /\ AreaInv /\ TargetInv /\ RingInv)
<1>1. Init => RingInv
  BY RingFresh DEF Init, AdapterInit, Fresh
<1>2. ProcInv /\ DeviceInv /\ RingInv /\ ProcInv' /\ DeviceInv' /\ MainPlaces' /\ [Next]_vars => RingInv'
  BY RingStep
<1> QED BY <1>1, <1>2, PlacedNext, TargetsHold, PTL DEF Spec

(* A ring is programmed only into adapters that one process has open. *)
LEMMA RingsOfOne ==
  ASSUME DeviceInv, RingInv, NEW d \in Device, NEW e \in Device,
         adapter[d].ring # NoRing, adapter[e].ring # NoRing
  PROVE  \E p \in Proc : \E i, j \in Port : /\ Valid(p, i) /\ file[p][i] = d
                                            /\ Valid(p, j) /\ file[p][j] = e
<1>1. Owned(d) /\ Owned(e)
  BY DEF RingInv, DownNoRings, DeviceInv, Kept
<1>2. PICK p \in Proc, i \in Port : file[p][i] = d
  BY <1>1 DEF Owned
<1>3. PICK q \in Proc, j \in Port : file[q][j] = e
  BY <1>1 DEF Owned
<1>4. Programmed(p, i) /\ Programmed(q, j) /\ Valid(p, i) /\ Valid(q, j)
  BY <1>2, <1>3 DEF Programmed, Valid
<1>5. HasRings(p) /\ HasRings(q)
  BY <1>4 DEF HasRings
<1>6. p = q
  BY <1>4, <1>5 DEF RingInv, NoRivals, Claim
<1> QED BY <1>2, <1>3, <1>4, <1>6

(* The rings of a queue fill one run of cells in the page of the core. *)
LEMMA RingCells ==
  ASSUME NEW b \in [Core -> Block], NEW q \in Core, NEW i \in Port, NEW g, g = RingAt(b, q, i)
  PROVE  /\ g.rx \in Nat /\ g.rx = At(b[q], RxOff(i))
         /\ (g.rx .. g.rx + RxLen - 1) \cup (g.tx .. g.tx + TxLen - 1) = g.rx .. g.rx + (RxLen + TxLen) - 1
<1>1. b[q] \in Nat
  BY LifecycleAssumption
<1>2. RxOff(i) \in Nat /\ TxOff(i) = RxOff(i) + RxLen /\ RxLen \in Nat \ {0} /\ TxLen \in Nat \ {0}
  BY RingsFit, OffNat
<1>3. g.rx = At(b[q], RxOff(i)) /\ g.tx = At(b[q], TxOff(i))
  BY DEF RingAt
<1>4. At(b[q], RxOff(i)) \in Nat
  BY <1>1, <1>2, AtNat
<1>5. At(b[q], RxOff(i)) = At(b[q], 0) + RxOff(i) /\ At(b[q], TxOff(i)) = At(b[q], 0) + TxOff(i) /\ At(b[q], 0) \in Nat
  BY <1>1, <1>2, BlockEnd
<1>6. g.tx = g.rx + RxLen /\ g.rx \in Nat
  BY <1>2, <1>3, <1>4, <1>5
<1> QED BY <1>2, <1>3, <1>6

(* The rings of different queues or ports do not overlap. *)
LEMMA RunsApart ==
  ASSUME NEW b \in [Core -> Block], \A q, e \in Core : b[q] = b[e] => q = e,
         NEW q \in Core, NEW e \in Core, NEW i \in Port, NEW j \in Port, q # e \/ i # j,
         NEW x, x = At(b[q], RxOff(i)), NEW y, y = At(b[e], RxOff(j)), NEW L, L = RxLen + TxLen
  PROVE  x + L <= y \/ y + L <= x
<1>1. b[q] \in Nat /\ b[e] \in Nat
  BY LifecycleAssumption
<1>2. /\ RxOff(i) \in Nat /\ RxOff(j) \in Nat /\ RxLen \in Nat /\ TxLen \in Nat /\ TxLen <= RxLen /\ BlockLen \in Nat
      /\ RxOff(i) + 2 * RxLen <= BlockLen /\ RxOff(j) + 2 * RxLen <= BlockLen
  BY RingsFit, OffNat
<1>3. /\ x = At(b[q], 0) + RxOff(i) /\ At(b[q], 0) \in Nat /\ At(b[q] + 1, 0) = At(b[q], 0) + BlockLen
      /\ y = At(b[e], 0) + RxOff(j) /\ At(b[e], 0) \in Nat /\ At(b[e] + 1, 0) = At(b[e], 0) + BlockLen
  BY <1>1, <1>2, BlockEnd
<1>4. CASE q # e
  <2>1. b[q] # b[e]
    BY <1>4
  <2>2. At(b[q] + 1, 0) <= At(b[e], 0) \/ At(b[e] + 1, 0) <= At(b[q], 0)
    BY <2>1, <1>1, BlocksApart
  <2> QED BY <2>2, <1>2, <1>3
<1>5. CASE q = e /\ i # j
  <2>1. RxOff(i) + 2 * RxLen <= RxOff(j) \/ RxOff(j) + 2 * RxLen <= RxOff(i)
    <3>1. i < j \/ j < i
      BY <1>5 DEF Port
    <3> QED BY <3>1, PortsApart
  <2> QED BY <2>1, <1>2, <1>3, <1>5
<1> QED BY <1>4, <1>5

(* The rings programmed into all adapters never share a cell, through      *)
(* failures, kills, removals of devices and new processes.                 *)
THEOREM LifecycleRingsApart == Spec => []RingsApart
<1>1. ProcInv /\ DeviceInv /\ RingInv => RingsApart
  <2> SUFFICES ASSUME ProcInv, DeviceInv, RingInv PROVE RingsApart
    OBVIOUS
  <2> DEFINE SetUp == {x \in Device \X Core : adapter[x[1]].ring[x[2]] # None}
             Cells(x) == LET g == adapter[x[1]].ring[x[2]]
                         IN (g.rx .. g.rx + RxLen - 1) \cup (g.tx .. g.tx + TxLen - 1)
             L == RxLen + TxLen
             base == [x \in SetUp |-> adapter[x[1]].ring[x[2]].rx]
  <2>1. IsFiniteSet(SetUp) /\ L \in Nat
    <3>1. IsFiniteSet(Device) /\ IsFiniteSet(Core)
      BY AdapterAssumption, FS_Interval DEF Core
    <3>2. IsFiniteSet(Device \X Core)
      BY <3>1, FS_Product
    <3> QED BY <3>2, FS_Subset, OffNat
  <2>2. ASSUME NEW x \in SetUp PROVE x[1] \in Device /\ x[2] \in Core /\ adapter[x[1]].ring # NoRing /\ x = <<x[1], x[2]>>
    BY DEF NoRing
  <2>3. ASSUME NEW x \in SetUp, NEW y \in SetUp
        PROVE  \E b \in [Core -> Block] : \E i, j \in Port :
                 /\ \A q, e \in Core : b[q] = b[e] => q = e
                 /\ adapter[x[1]].ring[x[2]] = RingAt(b, x[2], i) /\ adapter[y[1]].ring[y[2]] = RingAt(b, y[2], j)
                 /\ i = j => x[1] = y[1]
    <3>1. PICK p \in Proc : \E i, j \in Port : /\ Valid(p, i) /\ file[p][i] = x[1]
                                               /\ Valid(p, j) /\ file[p][j] = y[1]
      BY <2>2, RingsOfOne
    <3>2. PICK i \in Port, j \in Port : /\ Valid(p, i) /\ file[p][i] = x[1]
                                        /\ Valid(p, j) /\ file[p][j] = y[1]
      BY <3>1
    <3>3. HasRings(p)
      BY <3>2, <2>2 DEF HasRings, Programmed
    <3>4. PICK b \in [Core -> Block] : PlacedAt(p, b)
      BY <3>3 DEF RingInv, Placed
    <3>5. adapter[x[1]].ring[x[2]] # None /\ adapter[y[1]].ring[y[2]] # None
      OBVIOUS
    <3>6. adapter[x[1]].ring[x[2]] = RingAt(b, x[2], i) /\ adapter[y[1]].ring[y[2]] = RingAt(b, y[2], j)
      BY <3>2, <3>4, <3>5, <2>2 DEF PlacedAt
    <3> QED BY <3>2, <3>4, <3>6 DEF PlacedAt
  <2>4. ASSUME NEW x \in SetUp
        PROVE  base[x] \in Nat /\ Cells(x) = base[x] .. base[x] + L - 1
    <3>1. PICK b \in [Core -> Block] : \E i \in Port : adapter[x[1]].ring[x[2]] = RingAt(b, x[2], i)
      BY <2>3
    <3>2. PICK i \in Port : adapter[x[1]].ring[x[2]] = RingAt(b, x[2], i)
      BY <3>1
    <3>3. PICK g : g = adapter[x[1]].ring[x[2]]
      OBVIOUS
    <3>4. g.rx \in Nat /\ (g.rx .. g.rx + RxLen - 1) \cup (g.tx .. g.tx + TxLen - 1) = g.rx .. g.rx + L - 1
      BY <3>2, <3>3, <2>2, RingCells
    <3> QED BY <3>3, <3>4
  <2>5. ASSUME NEW x \in SetUp, NEW y \in SetUp, x # y
        PROVE  base[x] + L <= base[y] \/ base[y] + L <= base[x]
    <3>1. PICK b \in [Core -> Block] : \E i, j \in Port :
             /\ \A q, e \in Core : b[q] = b[e] => q = e
             /\ adapter[x[1]].ring[x[2]] = RingAt(b, x[2], i) /\ adapter[y[1]].ring[y[2]] = RingAt(b, y[2], j)
             /\ i = j => x[1] = y[1]
      BY <2>3
    <3>2. PICK i \in Port, j \in Port :
             /\ \A q, e \in Core : b[q] = b[e] => q = e
             /\ adapter[x[1]].ring[x[2]] = RingAt(b, x[2], i) /\ adapter[y[1]].ring[y[2]] = RingAt(b, y[2], j)
             /\ i = j => x[1] = y[1]
      BY <3>1
    <3>3. base[x] = At(b[x[2]], RxOff(i)) /\ base[y] = At(b[y[2]], RxOff(j))
      BY <3>2 DEF RingAt
    <3>4. x[2] # y[2] \/ i # j
      BY <3>2, <2>2, <2>5
    <3>5. x[2] \in Core /\ y[2] \in Core
      BY <2>2
    <3> HIDE DEF base, SetUp
    <3> QED BY <3>2, <3>3, <3>4, <3>5, RunsApart
  <2>6. base \in [SetUp -> Nat]
    BY <2>4
  <2>7. {Cells(x) : x \in SetUp} = {base[x] .. base[x] + L - 1 : x \in SetUp}
    <3> HIDE DEF base, SetUp, Cells, L
    <3> QED BY <2>4
  <2>8. Cardinality(UNION {base[x] .. base[x] + L - 1 : x \in SetUp}) = L * Cardinality(SetUp)
    <3> HIDE DEF base, SetUp, L
    <3> QED BY <2>1, <2>5, <2>6, RunsCounted
  <2>9. Cardinality(UNION {Cells(x) : x \in SetUp}) = L * Cardinality(SetUp)
    BY <2>7, <2>8
  <2> QED BY <2>9 DEF RingsApart
<1> QED BY <1>1, RingsHold, PTL
=============================================================================
