----------------------------- MODULE TrapProofs -----------------------------
(***************************************************************************)
(* Trap entry and return, for stacks of any depth and any number of nested *)
(* traps; and notifications and the console, each for every value of its   *)
(* constants.                                                              *)
(***************************************************************************)
EXTENDS Trap, Notification, Console, TLAPS

RegVals == Regs \cup {"scratch", "local", "saved sp"} \cup Errors

TrapRec == [frame : Int, busy : BOOLEAN, regs : [Regs -> RegVals], sp : Int,
            mscratch : Int, pc : Int, cause : {"ecall", "fault"}]

\* The lowest address that the handler of a trap has in use.
Low(h) == IF h.busy THEN h.frame - 1 ELSE h.frame

\* The addresses that it has in use.
InUse(h) == {h.frame} \cup IF h.busy THEN {h.frame - 1} ELSE {}

\* The frame is on the trap stack, not on the program's.
High(h) == h.frame > UserTop

TrapTypes ==
  /\ regs \in [Regs -> RegVals] /\ sp \in Int /\ mscratch \in Int /\ pc \in Int
  /\ mem = [a \in Memory |-> mem[a]]
  /\ active \in Seq(TrapRec) /\ Len(active) <= MaxNest

\* sp and mscratch are the two stack pointers, in an order that changes with
\* every trap: what each trap found is what the one around it has in use.
TrapChain ==
  /\ InProgram => mscratch = TrapTop /\ sp \in {UserTop - 1, UserTop}
  /\ ~InProgram =>
       /\ sp = Low(Innermost) /\ mscratch = Innermost.sp
       /\ active[1].mscratch = TrapTop /\ active[1].sp \in {UserTop - 1, UserTop}
       /\ ~Innermost.busy => regs["callee"] = Innermost.regs["callee"]
  /\ \A i \in 1 .. Len(active) : active[i].frame = active[i].mscratch - 1
  /\ \A i \in 2 .. Len(active) :
       /\ active[i].sp = Low(active[i - 1])
       /\ active[i].mscratch = active[i - 1].sp
       /\ ~active[i - 1].busy => active[i].regs["callee"] = active[i - 1].regs["callee"]

\* The frames alternate between the stacks, each below what its stack held.
TrapFrames ==
  /\ \A i \in 1 .. Len(active) :
       IF High(active[i]) THEN active[i].frame \in (TrapTop - i) .. (TrapTop - 1)
                          ELSE active[i].frame \in (UserTop - i) .. (active[1].sp - 1)
  /\ active # <<>> => High(active[1])
  /\ \A i \in 2 .. Len(active) : High(active[i]) <=> ~High(active[i - 1])
  /\ \A i, j \in 1 .. Len(active) :
       i < j /\ (High(active[i]) <=> High(active[j])) => active[j].frame < Low(active[i])

TrapInv == TrapTypes /\ TrapChain /\ TrapFrames /\ LiveStacksIntact

\* The frame of the i-th trap lies in one of the two stacks, above the top of
\* the program's or below what the program uses of its own.
LEMMA FrameBounds ==
  ASSUME NEW i \in 1 .. MaxNest, NEW f \in Int, NEW u \in {UserTop - 1, UserTop}
  PROVE  /\ u \in Int /\ u <= UserTop
         /\ f \in (TrapTop - i) .. (TrapTop - 1) =>
              f \in Memory /\ f - 1 \in Memory /\ f - 1 > UserTop
         /\ f \in (UserTop - i) .. (u - 1) =>
              f \in Memory /\ f - 1 \in Memory /\ f < u
BY TrapAssumption DEF Memory

\* The part of the stack that the innermost handler works in belongs to no
\* other trap and not to the program.
LEMMA InnermostApart ==
  ASSUME TrapInv, ~InProgram
  PROVE  /\ Len(active) \in 1 .. MaxNest
         /\ Innermost \in TrapRec
         /\ Innermost.frame \in Memory /\ Innermost.frame - 1 \in Memory
         /\ \A i \in 1 .. (Len(active) - 1) :
              \A a \in InUse(active[i]) : a # Innermost.frame /\ a # Innermost.frame - 1
         /\ \A a \in active[1].sp .. (UserTop - 1) : a # Innermost.frame /\ a # Innermost.frame - 1
<1> DEFINE n == Len(active)
<1>1. n \in 1 .. MaxNest /\ active \in Seq(TrapRec)
  BY TrapAssumption DEF TrapInv, TrapTypes, InProgram
<1>2. \A i \in 1 .. n : active[i] \in TrapRec
  BY <1>1
<1>3. \A i \in 1 .. n : active[i].frame \in Int /\ active[i].busy \in BOOLEAN /\ active[i].sp \in Int
  BY <1>2 DEF TrapRec
<1>4. active[1].sp \in {UserTop - 1, UserTop}
  BY DEF TrapInv, TrapChain
<1>5. \A i \in 1 .. n : IF High(active[i]) THEN active[i].frame \in (TrapTop - i) .. (TrapTop - 1)
                                          ELSE active[i].frame \in (UserTop - i) .. (active[1].sp - 1)
  BY DEF TrapInv, TrapFrames
<1>6. Innermost = active[n]
  BY SMTT(60) DEF Innermost
<1>0. ASSUME NEW i \in 1 .. n
      PROVE  /\ active[i].frame \in Int /\ active[i].frame \in Memory /\ active[i].frame - 1 \in Memory
             /\ High(active[i]) => active[i].frame - 1 > UserTop
             /\ ~High(active[i]) => active[i].frame < active[1].sp
             /\ active[1].sp <= UserTop
  <2>1. i \in 1 .. MaxNest
    BY <1>1, TrapAssumption
  <2>2. active[i].frame \in Int
    BY <1>3
  <2>3. \/ High(active[i]) /\ active[i].frame \in (TrapTop - i) .. (TrapTop - 1)
        \/ ~High(active[i]) /\ active[i].frame \in (UserTop - i) .. (active[1].sp - 1)
    BY <1>5
  <2> QED BY <1>4, <2>1, <2>2, <2>3, FrameBounds
<1>7. Innermost.frame \in Memory /\ Innermost.frame - 1 \in Memory
  BY <1>0, <1>1, <1>6
<1>8. ASSUME NEW i \in 1 .. (n - 1)
      PROVE  \A a \in InUse(active[i]) : a # Innermost.frame /\ a # Innermost.frame - 1
  <2>1. i \in 1 .. n /\ n \in 1 .. n /\ i < n
    BY <1>1
  <2>2. (High(active[i]) <=> High(active[n])) => active[n].frame < Low(active[i])
    BY <2>1 DEF TrapInv, TrapFrames
  <2>3. \A a \in InUse(active[i]) : a = active[i].frame \/ (a = active[i].frame - 1 /\ active[i].busy)
    BY SMTT(60) DEF InUse
  <2>4. CASE High(active[i]) <=> High(active[n])
    BY <1>3, <1>6, <2>1, <2>2, <2>3, <2>4, SMTT(60) DEF Low
  <2>5. CASE ~(High(active[i]) <=> High(active[n]))
    <3>1. \A k \in 1 .. n : IF High(active[k]) THEN active[k].frame - 1 > UserTop
                                              ELSE active[k].frame < UserTop
      BY <1>0, <1>4, <2>5, TrapAssumption
    <3> QED BY <1>3, <1>6, <2>1, <2>3, <2>5, <3>1, TrapAssumption, SMTT(60)
  <2> QED BY <2>4, <2>5
<1>9. \A a \in active[1].sp .. (UserTop - 1) : a # Innermost.frame /\ a # Innermost.frame - 1
  <2>1. n \in 1 .. n
    BY <1>1
  <2>2. /\ active[n].frame \in Int /\ active[1].sp \in Int
        /\ active[n].frame - 1 > UserTop \/ active[n].frame < active[1].sp
    BY <1>0, <1>4, <2>1, TrapAssumption
  <2> QED BY <1>6, <2>2, TrapAssumption, SMTT(60)
<1>10. Innermost \in TrapRec
  BY <1>1, <1>2, <1>6, TrapAssumption
<1> QED BY <1>1, <1>7, <1>8, <1>9, <1>10, Zenon

\* The frame of a new trap goes below what the other stack has in use.
LEMMA EntryPlace ==
  ASSUME TrapInv, Len(active) < MaxNest, NEW n, n = Len(active), NEW F, F = FrameAt,
         NEW base, base = IF InProgram THEN sp ELSE active[1].sp
  PROVE  /\ n \in Nat /\ F \in Memory /\ base \in {UserTop - 1, UserTop}
         /\ IF F > UserTop THEN F \in (TrapTop - (n + 1)) .. (TrapTop - 1)
                           ELSE F \in (UserTop - (n + 1)) .. (base - 1)
         /\ n = 0 => F > UserTop
         /\ n > 0 => (F > UserTop <=> ~High(active[n]))
         /\ \A i \in 1 .. n : (High(active[i]) <=> F > UserTop) => F < Low(active[i])
         /\ \A i \in 1 .. n : \A a \in InUse(active[i]) : a # F
         /\ \A a \in base .. (UserTop - 1) : a # F
<1>1. n \in Nat /\ n < MaxNest /\ active \in Seq(TrapRec) /\ F = mscratch - 1 /\ (InProgram <=> n = 0)
  BY DEF TrapInv, TrapTypes, FrameAt, InProgram
<1>2. \A i \in 1 .. n : active[i].frame \in Int /\ active[i].busy \in BOOLEAN /\ active[i].sp \in Int
  <2>1. \A i \in 1 .. n : active[i] \in TrapRec
    BY <1>1
  <2> QED BY <2>1 DEF TrapRec
<1>3. base \in {UserTop - 1, UserTop}
  BY DEF TrapInv, TrapChain
<1>4. /\ \A i \in 1 .. n : IF High(active[i]) THEN active[i].frame \in (TrapTop - i) .. (TrapTop - 1)
                                            ELSE active[i].frame \in (UserTop - i) .. (base - 1)
      /\ n > 0 => High(active[1])
      /\ \A i \in 2 .. n : High(active[i]) <=> ~High(active[i - 1])
      /\ \A i, j \in 1 .. n :
           i < j /\ (High(active[i]) <=> High(active[j])) => active[j].frame < Low(active[i])
  BY <1>1, SMTT(60) DEF TrapInv, TrapFrames
<1>5. /\ IF F > UserTop THEN F \in (TrapTop - (n + 1)) .. (TrapTop - 1)
                        ELSE F \in (UserTop - (n + 1)) .. (base - 1)
      /\ n = 0 => F > UserTop
      /\ n > 0 => (F > UserTop <=> ~High(active[n]))
      /\ \A i \in 1 .. n : (High(active[i]) <=> F > UserTop) => F < Low(active[i])
  <2>1. CASE n = 0
    <3>1. F = TrapTop - 1
      BY <1>1, <2>1 DEF TrapInv, TrapChain
    <3> QED BY <2>1, <3>1, TrapAssumption
  <2>2. CASE n = 1
    <3>1. F = base - 1
      BY <1>1, <2>2 DEF TrapInv, TrapChain, Innermost
    <3>2. ~(F > UserTop) /\ High(active[1])
      BY <1>3, <1>4, <2>2, <3>1, TrapAssumption
    <3> QED BY <1>3, <2>2, <3>1, <3>2, TrapAssumption, SMTT(60)
  <2>3. CASE n > 1
    <3> DEFINE h == active[n - 1]
    <3>0. n \in 2 .. n /\ n - 1 \in 1 .. n
      BY <1>1, <2>3
    <3>1. F = Low(h) - 1
      <4>1. mscratch = active[n].sp
        BY <1>1, <2>3 DEF TrapInv, TrapChain, Innermost
      <4>2. active[n].sp = Low(active[n - 1])
        BY <1>1, <3>0 DEF TrapInv, TrapChain
      <4> QED BY <1>1, <4>1, <4>2
    <3>2. h.frame \in Int /\ Low(h) \in {h.frame - 1, h.frame}
      BY <1>2, <3>0, SMTT(60) DEF Low
    <3>3. IF High(h) THEN h.frame \in (TrapTop - (n - 1)) .. (TrapTop - 1)
                     ELSE h.frame \in (UserTop - (n - 1)) .. (base - 1)
      BY <1>4, <3>0
    <3>4. High(active[n]) <=> ~High(h)
      BY <1>4, <3>0
    <3> HIDE DEF h
    <3>5. F > UserTop <=> High(h)
      BY <1>1, <1>3, <3>1, <3>2, <3>3, TrapAssumption, SMTT(60) DEF High
    <3>6. IF F > UserTop THEN F \in (TrapTop - (n + 1)) .. (TrapTop - 1)
                         ELSE F \in (UserTop - (n + 1)) .. (base - 1)
      <4>1. CASE High(h)
        <5>1. F \in (TrapTop - (n + 1)) .. (TrapTop - 1)
          BY <1>1, <3>1, <3>2, <3>3, <4>1, TrapAssumption, SMTT(60)
        <5> QED BY <3>5, <4>1, <5>1
      <4>2. CASE ~High(h)
        <5>1. F \in (UserTop - (n + 1)) .. (base - 1)
          BY <1>1, <1>3, <3>1, <3>2, <3>3, <4>2, TrapAssumption, SMTT(60)
        <5> QED BY <3>5, <4>2, <5>1
      <4> QED BY <4>1, <4>2
    <3>7. ASSUME NEW i \in 1 .. n, High(active[i]) <=> F > UserTop
          PROVE  F < Low(active[i])
      <4>1. i # n
        BY <3>4, <3>5, <3>7
      <4>2. CASE i = n - 1
        BY <3>1, <3>2, <4>2 DEF h
      <4>3. CASE i < n - 1
        <5>1. h.frame < Low(active[i])
          BY <1>4, <3>0, <3>5, <3>7, <4>3 DEF h
        <5>2. Low(active[i]) \in Int
          BY <1>2 DEF Low
        <5> QED BY <3>1, <3>2, <5>1, <5>2
      <4> QED BY <1>1, <4>1, <4>2, <4>3
    <3> QED BY <2>3, <3>4, <3>5, <3>6, <3>7
  <2> QED BY <1>1, <2>1, <2>2, <2>3
<1>6. F \in Memory
  BY <1>1, <1>3, <1>5, TrapAssumption DEF Memory
<1>7. ASSUME NEW i \in 1 .. n, NEW a \in InUse(active[i])
      PROVE  a # F
  <2>1. a = active[i].frame \/ (a = active[i].frame - 1 /\ active[i].busy)
    BY DEF InUse
  <2>2. CASE High(active[i]) <=> F > UserTop
    BY <1>2, <1>5, <1>6, <2>1, <2>2, SMTT(60) DEF Low
  <2>3. CASE ~(High(active[i]) <=> F > UserTop)
    <3>1. IF High(active[i]) THEN active[i].frame - 1 > UserTop ELSE active[i].frame < UserTop
      <4>1. i \in Nat /\ i <= n /\ active[i].frame \in Int
        BY <1>1, <1>2
      <4>2. CASE High(active[i])
        <5>1. active[i].frame >= TrapTop - i
          BY <1>4, <4>2
        <5> QED BY <1>1, <4>1, <4>2, <5>1, TrapAssumption, SMTT(60)
      <4>3. CASE ~High(active[i])
        <5>1. active[i].frame <= base - 1
          BY <1>4, <4>3
        <5> QED BY <1>3, <4>1, <4>3, <5>1, TrapAssumption, SMTT(60)
      <4> QED BY <4>2, <4>3
    <3> QED BY <1>1, <1>2, <1>3, <1>5, <2>1, <2>3, <3>1, TrapAssumption, SMTT(60)
  <2> QED BY <2>2, <2>3
<1>8. \A a \in base .. (UserTop - 1) : a # F
  BY <1>1, <1>3, <1>5, TrapAssumption, SMTT(60)
<1> QED BY <1>1, <1>3, <1>5, <1>6, <1>7, <1>8

\* What LiveStacksIntact says of one trap and of the program's stack.
FrameSaved(h, m) ==
  /\ m[h.frame] = [regs |-> h.regs, sp |-> h.sp, pc |-> h.pc, cause |-> h.cause]
  /\ h.busy => m[h.frame - 1] = [callee |-> h.regs["callee"]]

ProgramSaved(low, m) == \A a \in low .. (UserTop - 1) : m[a] = [data |-> "program"]

\* Every frame lies in memory, with the word below it.
LEMMA FramesInMemory ==
  ASSUME TrapInv
  PROVE  \A i \in 1 .. Len(active) :
           /\ active[i] \in TrapRec /\ active[i].frame \in Int
           /\ active[i].frame \in Memory /\ active[i].frame - 1 \in Memory
           /\ FrameSaved(active[i], mem)
<1> SUFFICES ASSUME NEW i \in 1 .. Len(active)
             PROVE  /\ active[i] \in TrapRec /\ active[i].frame \in Int
                    /\ active[i].frame \in Memory /\ active[i].frame - 1 \in Memory
                    /\ FrameSaved(active[i], mem)
  OBVIOUS
<1>1. active \in Seq(TrapRec) /\ Len(active) \in 1 .. MaxNest /\ active # <<>>
  BY TrapAssumption, SMTT(60) DEF TrapInv, TrapTypes
<1>2. active[i] \in TrapRec
  BY <1>1
<1>3. active[i].frame \in Int
  BY <1>2 DEF TrapRec
<1>4. active[1].sp \in {UserTop - 1, UserTop}
  BY <1>1 DEF TrapInv, TrapChain, InProgram
<1>5. IF High(active[i]) THEN active[i].frame \in (TrapTop - i) .. (TrapTop - 1)
                         ELSE active[i].frame \in (UserTop - i) .. (active[1].sp - 1)
  BY DEF TrapInv, TrapFrames
<1>6. active[i].frame \in Memory /\ active[i].frame - 1 \in Memory
  <2>1. active[i].frame > 0 /\ active[i].frame < TrapTop
    BY <1>1, <1>3, <1>4, <1>5, TrapAssumption, SMTT(60)
  <2> QED BY <1>3, <2>1, TrapAssumption DEF Memory
<1>7. FrameSaved(active[i], mem)
  BY DEF TrapInv, LiveStacksIntact, FrameSaved
<1> QED BY <1>2, <1>3, <1>6, <1>7

\* A write elsewhere leaves what a trap has in use.
LEMMA WriteElsewhere ==
  ASSUME NEW m, m = [x \in Memory |-> m[x]], NEW a, NEW v, NEW h, FrameSaved(h, m),
         h.frame \in Memory, h.frame - 1 \in Memory, \A b \in InUse(h) : b # a
  PROVE  FrameSaved(h, [m EXCEPT ![a] = v])
<1>1. \A x \in Memory \ {a} : [m EXCEPT ![a] = v][x] = m[x]
  OBVIOUS
<1>2. h.frame # a /\ (h.busy => h.frame - 1 # a)
  BY DEF InUse
<1> QED BY <1>1, <1>2 DEF FrameSaved

\* The program starts outside any trap, with an empty trap stack.
LEMMA TrapInvInit == TInit => TrapInv
<1> SUFFICES ASSUME TInit PROVE TrapInv
  OBVIOUS
<1>1. active = <<>> /\ InProgram /\ sp = UserTop /\ mscratch = TrapTop
  BY DEF TInit, InProgram
<1>2. TrapTypes
  <2>1. regs \in [Regs -> RegVals]
    BY Zenon DEF TInit, RegVals
  <2>2. mem = [a \in Memory |-> mem[a]]
    BY SMTT(60) DEF TInit
  <2> QED BY <1>1, <2>1, <2>2, TrapAssumption DEF TInit, TrapTypes
<1>3. TrapChain /\ TrapFrames
  BY <1>1, SMTT(60) DEF TrapChain, TrapFrames
<1>4. LiveStacksIntact
  BY <1>1, TrapAssumption DEF LiveStacksIntact
<1> QED BY <1>2, <1>3, <1>4 DEF TrapInv

\* The program's own pushes and pops.
LEMMA ProgramSteps ==
  ASSUME TrapInv, ProgramPush \/ ProgramPop
  PROVE  TrapInv'
<1>0. active = <<>> /\ active' = <<>> /\ InProgram /\ InProgram' /\ regs' = regs /\ pc' = pc
  BY SMTT(60) DEF ProgramPush, ProgramPop, InProgram
<1>1. mscratch' = TrapTop /\ sp' \in {UserTop - 1, UserTop} /\ sp \in {UserTop - 1, UserTop}
  BY TrapAssumption DEF ProgramPush, ProgramPop, TrapInv, TrapChain
<1>2. mem' = [a \in Memory |-> mem'[a]] /\ ProgramSaved(sp', mem')
  <2>1. mem = [a \in Memory |-> mem[a]] /\ ProgramSaved(sp, mem)
    BY <1>0 DEF TrapInv, TrapTypes, LiveStacksIntact, ProgramSaved
  <2>2. CASE ProgramPush
    <3>1. sp - 1 \in Memory /\ sp = UserTop /\ sp' = UserTop - 1
      BY <2>2, TrapAssumption DEF ProgramPush, Memory
    <3>2. mem' = [mem EXCEPT ![UserTop - 1] = [data |-> "program"]]
      BY <2>2, <3>1 DEF ProgramPush
    <3>3. mem' = [a \in Memory |-> mem'[a]] /\ mem'[UserTop - 1] = [data |-> "program"]
      BY <2>1, <3>1, <3>2
    <3>4. \A a \in sp' .. (UserTop - 1) : a = UserTop - 1
      BY <3>1, TrapAssumption
    <3> QED BY <3>3, <3>4 DEF ProgramSaved
  <2>3. CASE ProgramPop
    <3>1. sp' = UserTop
      BY <1>1, <2>3, TrapAssumption DEF ProgramPop
    <3>2. mem' = [a \in Memory |-> mem'[a]]
      BY <2>1, <2>3 DEF ProgramPop
    <3> QED BY <3>1, <3>2, TrapAssumption DEF ProgramSaved
  <2> QED BY <2>2, <2>3
<1>3. TrapTypes'
  BY <1>0, <1>1, <1>2, TrapAssumption, SMTT(60) DEF TrapInv, TrapTypes
<1>4. TrapChain' /\ TrapFrames'
  BY <1>0, <1>1 DEF TrapChain, TrapFrames
<1>5. LiveStacksIntact'
  BY <1>0, <1>2 DEF LiveStacksIntact, ProgramSaved
<1> QED BY <1>3, <1>4, <1>5 DEF TrapInv

\* A trap, of the program or of a handler.
LEMMA EntryStep ==
  ASSUME TrapInv, NEW cause \in {"ecall", "fault"}, TrapEntry(cause)
  PROVE  TrapInv'
<1> DEFINE n == Len(active)
           F == FrameAt
           h == [frame |-> F, busy |-> FALSE, regs |-> regs, sp |-> sp,
                 mscratch |-> mscratch, pc |-> pc, cause |-> cause]
           base == IF InProgram THEN sp ELSE active[1].sp
<1>0. /\ n < MaxNest
      /\ active' = Append(active, h)
      /\ mem' = [mem EXCEPT ![F] = FrameOf(cause)]
      /\ sp' = F /\ mscratch' = sp /\ pc' = HandlerPc
      /\ regs' = [r \in Regs |-> IF r = "callee" THEN regs[r] ELSE "scratch"]
  BY SMTT(60) DEF TrapEntry
<1>1. /\ n \in Nat /\ F \in Memory /\ base \in {UserTop - 1, UserTop}
      /\ IF F > UserTop THEN F \in (TrapTop - (n + 1)) .. (TrapTop - 1)
                        ELSE F \in (UserTop - (n + 1)) .. (base - 1)
      /\ n = 0 => F > UserTop
      /\ n > 0 => (F > UserTop <=> ~High(active[n]))
      /\ \A i \in 1 .. n : (High(active[i]) <=> F > UserTop) => F < Low(active[i])
      /\ \A i \in 1 .. n : \A a \in InUse(active[i]) : a # F
      /\ \A a \in base .. (UserTop - 1) : a # F
  BY <1>0, EntryPlace, ZenonT(60)
<1>2. h \in TrapRec /\ F = mscratch - 1 /\ F \in Int
  BY <1>1, TrapAssumption DEF TrapInv, TrapTypes, TrapRec, FrameAt, Memory
<1>3. h.frame = F /\ ~h.busy /\ h.sp = sp /\ h.mscratch = mscratch /\ h.regs = regs
      /\ h.pc = pc /\ h.cause = cause
  OBVIOUS
<1>4. active \in Seq(TrapRec) /\ (InProgram <=> n = 0)
  BY SMTT(60) DEF TrapInv, TrapTypes, InProgram
<1> HIDE DEF h, F
<1>5. /\ active' \in Seq(TrapRec) /\ Len(active') = n + 1
      /\ \A i \in 1 .. n : active'[i] = active[i]
      /\ active'[n + 1] = h
      /\ active' # <<>>
  BY <1>0, <1>1, <1>2, <1>4, SMTT(60)
<1>6. ~InProgram' /\ Innermost' = h /\ active'[1].sp = base
  BY <1>1, <1>3, <1>4, <1>5 DEF InProgram, Innermost
<1> HIDE DEF base
<1>7. regs' \in [Regs -> RegVals] /\ regs'["callee"] = regs["callee"]
  BY <1>0, Zenon DEF TrapInv, TrapTypes, RegVals, Regs
<1>8. mem' = [a \in Memory |-> mem'[a]]
  BY <1>0, Zenon DEF TrapInv, TrapTypes
<1>9. TrapTypes'
  BY <1>0, <1>1, <1>2, <1>5, <1>7, <1>8, TrapAssumption, SMTT(60) DEF TrapInv, TrapTypes, HandlerPc
<1>10. TrapChain'
  <2>1. sp' = Low(Innermost') /\ mscratch' = Innermost'.sp /\ regs'["callee"] = Innermost'.regs["callee"]
    BY <1>0, <1>3, <1>6, <1>7, SMTT(60) DEF Low
  <2>2. active'[1].mscratch = TrapTop
    BY <1>1, <1>3, <1>4, <1>5, SMTT(60) DEF TrapInv, TrapChain
  <2>3. \A i \in 1 .. (n + 1) : active'[i].frame = active'[i].mscratch - 1
    BY <1>1, <1>2, <1>3, <1>5, SMTT(60) DEF TrapInv, TrapChain
  <2>4. ASSUME NEW i \in 2 .. (n + 1)
        PROVE  /\ active'[i].sp = Low(active'[i - 1])
               /\ active'[i].mscratch = active'[i - 1].sp
               /\ ~active'[i - 1].busy => active'[i].regs["callee"] = active'[i - 1].regs["callee"]
    <3>1. CASE i \in 2 .. n
      <4>1. active'[i] = active[i] /\ active'[i - 1] = active[i - 1]
        BY <1>1, <1>5, <3>1, SMTT(60)
      <4> QED BY <3>1, <4>1 DEF TrapInv, TrapChain
    <3>2. CASE i = n + 1
      <4>1. active'[i] = h /\ active'[i - 1] = Innermost /\ ~InProgram
        BY <1>1, <1>4, <1>5, <3>2, SMTT(60) DEF Innermost
      <4> QED BY <1>3, <4>1 DEF TrapInv, TrapChain
    <3> QED BY <1>1, <3>1, <3>2, SMTT(60)
  <2> QED BY <1>1, <1>5, <1>6, <2>1, <2>2, <2>3, <2>4, ZenonT(60) DEF TrapChain
<1>11. TrapFrames'
  <2>1. \A i \in 1 .. (n + 1) :
          IF High(active'[i]) THEN active'[i].frame \in (TrapTop - i) .. (TrapTop - 1)
                              ELSE active'[i].frame \in (UserTop - i) .. (active'[1].sp - 1)
    <3> TAKE i \in 1 .. (n + 1)
    <3>1. CASE i \in 1 .. n
      <4>1. active'[i] = active[i] /\ active'[1].sp = active[1].sp
        BY <1>1, <1>5, <3>1, SMTT(60)
      <4> QED BY <3>1, <4>1 DEF TrapInv, TrapFrames
    <3>2. CASE i = n + 1
      BY <1>1, <1>3, <1>5, <1>6, <3>2, SMTT(60) DEF High
    <3> QED BY <1>1, <3>1, <3>2
  <2>2. High(active'[1])
    BY <1>1, <1>3, <1>4, <1>5, SMTT(60) DEF TrapInv, TrapFrames, High
  <2>3. ASSUME NEW i \in 2 .. (n + 1)
        PROVE  High(active'[i]) <=> ~High(active'[i - 1])
    <3>1. CASE i \in 2 .. n
      <4>1. active'[i] = active[i] /\ active'[i - 1] = active[i - 1]
        BY <1>1, <1>5, <3>1, SMTT(60)
      <4> QED BY <3>1, <4>1, SMTT(60) DEF TrapInv, TrapFrames
    <3>2. CASE i = n + 1
      <4>1. active'[i] = h /\ active'[i - 1] = active[n] /\ n > 0
        BY <1>1, <1>5, <3>2
      <4> QED BY <1>1, <1>3, <4>1 DEF High
    <3> QED BY <1>1, <3>1, <3>2, SMTT(60)
  <2>4. ASSUME NEW i \in 1 .. (n + 1), NEW j \in 1 .. (n + 1),
               i < j, High(active'[i]) <=> High(active'[j])
        PROVE  active'[j].frame < Low(active'[i])
    <3>0. i \in 1 .. n /\ active'[i] = active[i]
      BY <1>1, <1>5, <2>4
    <3>1. CASE j \in 1 .. n
      <4>1. active'[j] = active[j]
        BY <1>5, <3>1, SMTT(60)
      <4> QED BY <2>4, <3>0, <3>1, <4>1 DEF TrapInv, TrapFrames
    <3>2. CASE j = n + 1
      BY <1>1, <1>3, <1>5, <2>4, <3>0, <3>2, SMTT(60) DEF High
    <3> QED BY <1>1, <3>1, <3>2
  <2> QED BY <1>5, <2>1, <2>2, <2>3, <2>4, SMTT(60) DEF TrapFrames
<1>12. LiveStacksIntact'
  <2>1. mem = [a \in Memory |-> mem[a]]
    BY DEF TrapInv, TrapTypes
  <2>2. ASSUME NEW i \in 1 .. (n + 1) PROVE FrameSaved(active'[i], mem')
    <3>1. CASE i \in 1 .. n
      <4>1. active'[i] = active[i]
        BY <1>5, <3>1
      <4>2. FrameSaved(active[i], [mem EXCEPT ![F] = FrameOf(cause)])
        BY <1>1, <2>1, <3>1, FramesInMemory, WriteElsewhere, Zenon
      <4> QED BY <1>0, <4>1, <4>2
    <3>2. CASE i = n + 1
      <4>1. active'[i] = h /\ mem'[F] = FrameOf(cause)
        BY <1>0, <1>1, <1>5, <2>1, <3>2
      <4> QED BY <1>3, <4>1 DEF FrameSaved, FrameOf
    <3> QED BY <1>1, <3>1, <3>2, SMTT(60)
  <2>3. ProgramSaved(base, mem')
    <3>1. ProgramSaved(base, mem)
      BY Zenon DEF TrapInv, LiveStacksIntact, ProgramSaved, base
    <3>2. \A a \in base .. (UserTop - 1) : a \in Memory
      BY <1>1, TrapAssumption DEF Memory
    <3> QED BY <1>0, <1>1, <2>1, <3>1, <3>2, ZenonT(60) DEF ProgramSaved
  <2> QED BY <1>5, <1>6, <2>2, <2>3 DEF LiveStacksIntact, FrameSaved, ProgramSaved
<1> QED BY <1>9, <1>10, <1>11, <1>12, SMTT(60) DEF TrapInv

\* The handler of the innermost trap calls a function or returns from one:
\* what it has in use changes, the frames do not.
LEMMA BusyShape ==
  ASSUME TrapInv, ~InProgram, NEW b \in BOOLEAN,
         active' = [active EXCEPT ![Len(active)].busy = b],
         sp' = IF b THEN Innermost.frame - 1 ELSE Innermost.frame,
         mscratch' = mscratch,
         ~b => regs'["callee"] = Innermost.regs["callee"]
  PROVE  /\ active' \in Seq(TrapRec) /\ Len(active') = Len(active)
         /\ \A i \in 1 .. (Len(active) - 1) : active'[i] = active[i]
         /\ active'[Len(active)] = [Innermost EXCEPT !.busy = b]
         /\ active'[1].sp = active[1].sp /\ ~InProgram'
         /\ TrapChain' /\ TrapFrames'
<1> DEFINE n == Len(active)
           g == [Innermost EXCEPT !.busy = b]
<1>1. n \in Nat \ {0} /\ active \in Seq(TrapRec) /\ Innermost = active[n] /\ Innermost \in TrapRec
  BY InnermostApart DEF TrapInv, TrapTypes, Innermost
<1>2. /\ g \in TrapRec /\ g.busy = b /\ g.frame = Innermost.frame /\ g.sp = Innermost.sp
      /\ g.mscratch = Innermost.mscratch /\ g.regs = Innermost.regs
  BY <1>1, Zenon DEF TrapRec
<1>3. active' = [active EXCEPT ![n] = g]
  BY <1>1
<1> HIDE DEF g
<1>4. /\ active' \in Seq(TrapRec) /\ Len(active') = n
      /\ \A i \in 1 .. (n - 1) : active'[i] = active[i]
      /\ active'[n] = g /\ active' # <<>>
  BY <1>1, <1>2, <1>3, SMTT(60)
<1>5. \A i \in 1 .. n : /\ active'[i].frame = active[i].frame /\ active'[i].sp = active[i].sp
                        /\ active'[i].mscratch = active[i].mscratch
                        /\ active'[i].regs = active[i].regs
  BY <1>1, <1>2, <1>4
<1>6. ~InProgram' /\ Innermost' = g /\ 1 \in 1 .. n /\ n \in 1 .. n
  BY <1>1, <1>4 DEF InProgram, Innermost
<1>7. TrapChain'
  <2>1. sp' = Low(Innermost') /\ mscratch' = Innermost'.sp
    BY <1>2, <1>6 DEF Low, TrapInv, TrapChain
  <2>2. ~Innermost'.busy => regs'["callee"] = Innermost'.regs["callee"]
    BY <1>2, <1>6
  <2>3. active'[1].mscratch = TrapTop /\ active'[1].sp \in {UserTop - 1, UserTop}
    BY <1>5, <1>6 DEF TrapInv, TrapChain
  <2>4. \A i \in 1 .. n : active'[i].frame = active'[i].mscratch - 1
    BY <1>5 DEF TrapInv, TrapChain
  <2>5. ASSUME NEW i \in 2 .. n
        PROVE  /\ active'[i].sp = Low(active'[i - 1])
               /\ active'[i].mscratch = active'[i - 1].sp
               /\ ~active'[i - 1].busy => active'[i].regs["callee"] = active'[i - 1].regs["callee"]
    <3>1. i \in 1 .. n /\ active'[i - 1] = active[i - 1]
      BY <1>1, <1>4
    <3> QED BY <1>5, <3>1 DEF TrapInv, TrapChain
  <2> QED BY <1>4, <1>6, <2>1, <2>2, <2>3, <2>4, <2>5 DEF TrapChain
<1>8. TrapFrames'
  <2>1. \A i \in 1 .. n : High(active'[i]) <=> High(active[i])
    BY <1>5 DEF High
  <2>2. ASSUME NEW i \in 1 .. n
        PROVE  IF High(active'[i]) THEN active'[i].frame \in (TrapTop - i) .. (TrapTop - 1)
                              ELSE active'[i].frame \in (UserTop - i) .. (active'[1].sp - 1)
    <3>1. IF High(active[i]) THEN active[i].frame \in (TrapTop - i) .. (TrapTop - 1)
                             ELSE active[i].frame \in (UserTop - i) .. (active[1].sp - 1)
      BY DEF TrapInv, TrapFrames
    <3> QED BY <1>5, <1>6, <2>1, <3>1, SMTT(60)
  <2>3. High(active'[1])
    BY <1>1, <1>6, <2>1 DEF TrapInv, TrapFrames, InProgram
  <2>4. \A i \in 2 .. n : High(active'[i]) <=> ~High(active'[i - 1])
    <3> TAKE i \in 2 .. n
    <3>1. i \in 1 .. n /\ i - 1 \in 1 .. n
      BY <1>1
    <3> QED BY <2>1, <3>1, Zenon DEF TrapInv, TrapFrames
  <2>5. ASSUME NEW i \in 1 .. n, NEW j \in 1 .. n, i < j, High(active'[i]) <=> High(active'[j])
        PROVE  active'[j].frame < Low(active'[i])
    <3>1. active'[i] = active[i] /\ active'[j].frame = active[j].frame
      BY <1>1, <1>4, <1>5, <2>5
    <3> QED BY <2>1, <2>5, <3>1, Zenon DEF TrapInv, TrapFrames
  <2> QED BY <1>4, <2>2, <2>3, <2>4, <2>5, Zenon DEF TrapFrames
<1> QED BY <1>4, <1>5, <1>6, <1>7, <1>8, SMTT(60) DEF g

\* A handler's function calls and returns.
LEMMA HandlerSteps ==
  ASSUME TrapInv, HandlerCall \/ HandlerReturn
  PROVE  TrapInv'
<1> DEFINE n == Len(active)
           h == Innermost
           F == h.frame - 1
<1>1. ~InProgram /\ mscratch' = mscratch /\ pc' = pc
  BY SMTT(60) DEF HandlerCall, HandlerReturn
<1>2. /\ n \in Nat \ {0} /\ n \in 1 .. n /\ h = active[n] /\ h \in TrapRec
      /\ h.frame \in Memory /\ F \in Memory /\ h.frame \in Int
      /\ mem = [a \in Memory |-> mem[a]]
      /\ FrameSaved(h, mem) /\ sp = Low(h)
      /\ ~h.busy => regs["callee"] = h.regs["callee"]
  <2>1. n \in Nat \ {0} /\ n \in 1 .. n /\ h = active[n]
    <3>1. n \in 1 .. MaxNest
      BY <1>1, InnermostApart, Zenon
    <3>2. h = active[n]
      BY Zenon DEF Innermost
    <3> HIDE DEF n, h
    <3> QED BY <3>1, <3>2, TrapAssumption
  <2>2. /\ h \in TrapRec /\ h.frame \in Memory /\ F \in Memory /\ h.frame \in Int
        /\ FrameSaved(h, mem)
    BY <2>1, FramesInMemory, Zenon
  <2>3. mem = [a \in Memory |-> mem[a]]
    BY SMTT(60) DEF TrapInv, TrapTypes
  <2>4. sp = Low(h) /\ (~h.busy => regs["callee"] = h.regs["callee"])
    BY <1>1, ZenonT(60) DEF TrapInv, TrapChain
  <2> QED BY <2>1, <2>2, <2>3, <2>4, SMTT(60)
<1>3. \A i \in 1 .. (n - 1) : \A a \in InUse(active[i]) : a # F
  BY <1>1, InnermostApart, ZenonT(60)
<1>4. \A a \in active[1].sp .. (UserTop - 1) : a # F
  BY <1>1, InnermostApart
<1>5. \E b \in BOOLEAN : \E v :
        /\ active' = [active EXCEPT ![n].busy = b]
        /\ sp' = IF b THEN F ELSE h.frame
        /\ ~b => regs'["callee"] = h.regs["callee"]
        /\ regs' \in [Regs -> RegVals]
        /\ mem' = [mem EXCEPT ![F] = v]
        /\ b => v = [callee |-> h.regs["callee"]]
  <2>1. CASE HandlerCall
    <3>1. sp = h.frame /\ regs["callee"] = h.regs["callee"] /\ sp' = F
      BY <1>2, <2>1 DEF HandlerCall, Low
    <3>2. mem' = [mem EXCEPT ![F] = [callee |-> h.regs["callee"]]]
      BY <2>1, <3>1 DEF HandlerCall
    <3>3. regs' \in [Regs -> RegVals]
      BY <2>1, Zenon DEF HandlerCall, TrapInv, TrapTypes, RegVals
    <3>4. active' = [active EXCEPT ![n].busy = TRUE]
      BY <2>1 DEF HandlerCall
    <3> QED BY <3>1, <3>2, <3>3, <3>4, Zenon
  <2>2. CASE HandlerReturn
    <3>1. sp = F /\ mem[sp] = [callee |-> h.regs["callee"]] /\ sp' = h.frame
      BY <1>2, <2>2 DEF HandlerReturn, Low, FrameSaved
    <3>2. regs' = [regs EXCEPT !["callee"] = h.regs["callee"]]
      BY <2>2, <3>1 DEF HandlerReturn
    <3>3. regs' \in [Regs -> RegVals] /\ regs'["callee"] = h.regs["callee"]
      BY <1>2, <3>2, Zenon DEF TrapInv, TrapTypes, TrapRec, Regs
    <3>4. mem' = [mem EXCEPT ![F] = Blank] /\ active' = [active EXCEPT ![n].busy = FALSE]
      BY <2>2, <3>1 DEF HandlerReturn
    <3> QED BY <3>1, <3>3, <3>4, ZenonT(60)
  <2> QED BY <2>1, <2>2
<1>5a. PICK b \in BOOLEAN : \E v :
        /\ active' = [active EXCEPT ![n].busy = b]
        /\ sp' = IF b THEN F ELSE h.frame
        /\ ~b => regs'["callee"] = h.regs["callee"]
        /\ regs' \in [Regs -> RegVals]
        /\ mem' = [mem EXCEPT ![F] = v]
        /\ b => v = [callee |-> h.regs["callee"]]
  BY <1>5, Zenon
<1>6. PICK v :
        /\ active' = [active EXCEPT ![n].busy = b]
        /\ sp' = IF b THEN F ELSE h.frame
        /\ ~b => regs'["callee"] = h.regs["callee"]
        /\ regs' \in [Regs -> RegVals]
        /\ mem' = [mem EXCEPT ![F] = v]
        /\ b => v = [callee |-> h.regs["callee"]]
  BY <1>5a, Zenon
<1>7. /\ active' \in Seq(TrapRec) /\ Len(active') = n
      /\ \A i \in 1 .. (n - 1) : active'[i] = active[i]
      /\ active'[n] = [h EXCEPT !.busy = b]
      /\ active'[1].sp = active[1].sp /\ ~InProgram'
      /\ TrapChain' /\ TrapFrames'
  BY <1>1, <1>6, BusyShape, ZenonT(60)
<1>8. TrapTypes'
  <2>1. mem' = [a \in Memory |-> mem'[a]]
    BY <1>2, <1>6, SMTT(60)
  <2>2. sp' \in Int
    BY <1>2, <1>6
  <2> QED BY <1>1, <1>6, <1>7, <2>1, <2>2 DEF TrapInv, TrapTypes
<1>9. LiveStacksIntact'
  <2>1. ASSUME NEW i \in 1 .. n PROVE FrameSaved(active'[i], mem')
    <3>1. CASE i \in 1 .. (n - 1)
      <4>1. i \in 1 .. n
        BY <1>2, <3>1, SMTT(60)
      <4>2. /\ active[i].frame \in Memory /\ active[i].frame - 1 \in Memory
            /\ FrameSaved(active[i], mem)
        BY <4>1, FramesInMemory, ZenonT(60)
      <4>3. FrameSaved(active[i], [mem EXCEPT ![F] = v])
        BY <1>2, <1>3, <3>1, <4>2, WriteElsewhere, ZenonT(60)
      <4> QED BY <1>6, <1>7, <3>1, <4>3, SMTT(60)
    <3>2. CASE i = n
      <4>1. /\ active'[i].frame = h.frame /\ active'[i].busy = b /\ active'[i].regs = h.regs
            /\ active'[i].sp = h.sp /\ active'[i].pc = h.pc /\ active'[i].cause = h.cause
        BY <1>2, <1>7, <3>2, Zenon DEF TrapRec
      <4>2. mem'[h.frame] = mem[h.frame] /\ mem'[F] = v
        BY <1>2, <1>6
      <4> QED BY <1>2, <1>6, <4>1, <4>2, SMTT(60) DEF FrameSaved
    <3> QED BY <1>2, <3>1, <3>2, SMTT(60)
  <2>2. ProgramSaved(active[1].sp, mem')
    <3>1. ProgramSaved(active[1].sp, mem) /\ active[1].sp \in {UserTop - 1, UserTop}
      BY <1>1, Zenon DEF TrapInv, LiveStacksIntact, ProgramSaved, TrapChain
    <3>2. \A a \in active[1].sp .. (UserTop - 1) : a \in Memory
      BY <3>1, TrapAssumption, SMTT(60) DEF Memory
    <3> QED BY <1>2, <1>4, <1>6, <3>1, <3>2, ZenonT(60) DEF ProgramSaved
  <2> QED BY <1>7, <2>1, <2>2, SMTT(60) DEF LiveStacksIntact, FrameSaved, ProgramSaved
<1> QED BY <1>7, <1>8, <1>9 DEF TrapInv

\* What the return from a trap gives back, which is what it interrupted.
LEMMA ReturnGives ==
  ASSUME TrapInv, NEW result, TrapReturn(result)
  PROVE  LET h == Innermost
         IN  /\ sp' = h.sp /\ mscratch' = h.mscratch
             /\ pc' = IF h.cause = "ecall" THEN (h.pc + 4) % PcMod ELSE h.pc
             /\ regs' \in [Regs -> RegVals]
             /\ \A r \in {"caller", "callee"} : regs'[r] = h.regs[r]
             /\ regs'["a0"] \in Errors \cup {h.regs["a0"]}
             /\ regs'["t0"] = "saved sp"
<1> DEFINE n == Len(active)
           h == Innermost
           v == IF result \in Errors THEN result ELSE h.regs["a0"]
           f == [mem[sp] EXCEPT !.regs["a0"] = IF result \in Errors THEN result ELSE @]
<1>1. ~InProgram /\ ~h.busy
  BY ZenonT(60) DEF TrapReturn
<1>2. n \in 1 .. n /\ h = active[n]
  BY <1>1, InnermostApart DEF Innermost
<1>3. h \in TrapRec /\ h.frame \in Int /\ FrameSaved(h, mem)
  BY <1>2, FramesInMemory, SMTT(60)
<1>4. sp = h.frame /\ mscratch = h.sp /\ h.frame = h.mscratch - 1
  BY <1>1, <1>2, SMTT(60) DEF TrapInv, TrapChain, Low
<1>5. mem[sp] = [regs |-> h.regs, sp |-> h.sp, pc |-> h.pc, cause |-> h.cause]
  BY <1>3, <1>4 DEF FrameSaved
<1>6. h.regs \in [Regs -> RegVals] /\ h.mscratch \in Int /\ v \in RegVals /\ "a0" \in Regs
  BY <1>3, Zenon DEF TrapRec, RegVals, Regs
<1>7. f = [regs |-> [h.regs EXCEPT !["a0"] = v], sp |-> h.sp, pc |-> h.pc, cause |-> h.cause]
  BY <1>5, <1>6
<1>8. pc' = Resumed(f) /\ regs' = [f.regs EXCEPT !["t0"] = "saved sp"]
      /\ sp' = mscratch /\ mscratch' = sp + 1
  BY ZenonT(60) DEF TrapReturn, StackFreed
<1> HIDE DEF f, v
<1>9. f.pc = h.pc /\ f.cause = h.cause /\ f.regs = [h.regs EXCEPT !["a0"] = v]
  BY <1>7
<1>10. regs' = [[h.regs EXCEPT !["a0"] = v] EXCEPT !["t0"] = "saved sp"]
  BY <1>8, <1>9, Zenon
<1> HIDE DEF h
<1>11. regs' \in [Regs -> RegVals]
  BY <1>6, <1>10, Zenon DEF RegVals, Regs
<1>12. \A r \in {"caller", "callee"} : regs'[r] = h.regs[r]
  BY <1>6, <1>10, Zenon DEF Regs
<1>13. regs'["a0"] \in Errors \cup {h.regs["a0"]}
  BY <1>6, <1>10, Zenon DEF Regs, v
<1>14. sp' = h.sp /\ mscratch' = h.mscratch
  <2>1. h.mscratch \in Int /\ sp = h.mscratch - 1 /\ mscratch' = sp + 1
    BY <1>4, <1>6, <1>8, Zenon
  <2>2. mscratch' = h.mscratch
    BY <2>1
  <2> QED BY <1>4, <1>8, <2>2, Zenon
<1>15. pc' = IF h.cause = "ecall" THEN (h.pc + 4) % PcMod ELSE h.pc
  BY <1>8, <1>9, Zenon DEF Resumed
<1>16. regs'["t0"] = "saved sp"
  BY <1>6, <1>10, Zenon DEF Regs
<1> QED BY <1>11, <1>12, <1>13, <1>14, <1>15, <1>16, Zenon DEF h

\* A return uncovers the next trap, whose state was kept.
LEMMA ReturnStep ==
  ASSUME TrapInv, NEW result, TrapReturn(result)
  PROVE  TrapInv'
<1> DEFINE n == Len(active)
           h == Innermost
<1>1. ~InProgram /\ ~h.busy /\ active' = SubSeq(active, 1, n - 1) /\ mem' = [mem EXCEPT ![sp] = Blank]
  BY Zenon DEF TrapReturn
<1>2. /\ n \in Nat \ {0} /\ n <= MaxNest /\ n \in 1 .. n /\ h = active[n]
      /\ active \in Seq(TrapRec) /\ mem = [a \in Memory |-> mem[a]]
  BY <1>1, InnermostApart DEF TrapInv, TrapTypes, Innermost
<1>3. sp = h.frame /\ h \in TrapRec
  <2>1. sp = h.frame
    BY <1>1 DEF TrapInv, TrapChain, Low
  <2>2. h \in TrapRec
    BY <1>2
  <2> QED BY <2>1, <2>2
<1>4. /\ sp' = h.sp /\ mscratch' = h.mscratch /\ regs' \in [Regs -> RegVals]
      /\ pc' = (IF h.cause = "ecall" THEN (h.pc + 4) % PcMod ELSE h.pc)
      /\ regs'["callee"] = h.regs["callee"]
  BY ReturnGives
<1>5. /\ active' \in Seq(TrapRec) /\ Len(active') = n - 1
      /\ \A i \in 1 .. (n - 1) : active'[i] = active[i] /\ i \in 1 .. n
      /\ n = 1 \/ n > 1
  <2>1. n \in Nat \ {0} /\ n = Len(active) /\ active \in Seq(TrapRec)
    BY <1>2
  <2>2. active' = SubSeq(active, 1, n - 1)
    BY <1>1
  <2> HIDE DEF n
  <2> QED BY <2>1, <2>2
<1>6. InProgram' <=> n = 1
  BY <1>2, <1>5 DEF InProgram
<1>7. n > 1 => Innermost' = active[n - 1] /\ active'[1] = active[1] /\ n \in 2 .. n
  BY <1>2, <1>5 DEF Innermost
<1>8. TrapTypes'
  <2>1. mem' = [a \in Memory |-> mem'[a]]
    BY <1>1, <1>2, SMTT(60)
  <2>2. sp' \in Int /\ mscratch' \in Int /\ pc' \in Int
    <3>1. h.sp \in Int /\ h.mscratch \in Int /\ h.pc \in Int
      BY <1>3 DEF TrapRec
    <3>2. (h.pc + 4) % PcMod \in Int
      BY <3>1 DEF PcMod
    <3> QED BY <1>4, <3>1, <3>2
  <2>3. Len(active') <= MaxNest
    BY <1>2, <1>5, TrapAssumption
  <2> QED BY <1>4, <1>5, <2>1, <2>2, <2>3 DEF TrapTypes
<1>9. TrapChain'
  <2>1. CASE n = 1
    BY <1>1, <1>2, <1>4, <1>5, <1>6, <2>1, SMTT(60) DEF TrapInv, TrapChain
  <2>2. CASE n > 1
    <3>1. /\ h.sp = Low(active[n - 1]) /\ h.mscratch = active[n - 1].sp
          /\ ~active[n - 1].busy => h.regs["callee"] = active[n - 1].regs["callee"]
      BY <1>2, <1>7, <2>2, SMTT(60) DEF TrapInv, TrapChain
    <3>2. active'[1].mscratch = TrapTop /\ active'[1].sp \in {UserTop - 1, UserTop}
      BY <1>1, <1>7, <2>2, SMTT(60) DEF TrapInv, TrapChain
    <3>3. \A i \in 1 .. (n - 1) : active'[i].frame = active'[i].mscratch - 1
      BY <1>5, SMTT(60) DEF TrapInv, TrapChain
    <3>4. ASSUME NEW i \in 2 .. (n - 1)
          PROVE  /\ active'[i].sp = Low(active'[i - 1])
                 /\ active'[i].mscratch = active'[i - 1].sp
                 /\ ~active'[i - 1].busy => active'[i].regs["callee"] = active'[i - 1].regs["callee"]
      <4>1. i \in 2 .. n /\ active'[i] = active[i] /\ active'[i - 1] = active[i - 1]
        BY <1>2, <1>5, SMTT(60)
      <4> QED BY <4>1 DEF TrapInv, TrapChain
    <3> QED BY <1>2, <1>4, <1>5, <1>6, <1>7, <2>2, <3>1, <3>2, <3>3, <3>4, SMTT(60) DEF TrapChain
  <2> QED BY <1>5, <2>1, <2>2, SMTT(60)
<1>10. TrapFrames'
  <2>1. ASSUME NEW i \in 1 .. (n - 1)
        PROVE  IF High(active'[i]) THEN active'[i].frame \in (TrapTop - i) .. (TrapTop - 1)
                              ELSE active'[i].frame \in (UserTop - i) .. (active'[1].sp - 1)
    <3>1. active'[i] = active[i] /\ active'[1] = active[1] /\ i \in 1 .. n
      BY <1>2, <1>5, <1>7, SMTT(60)
    <3> QED BY <3>1 DEF TrapInv, TrapFrames
  <2>2. active' # <<>> => High(active'[1])
    BY <1>1, <1>2, <1>5, <1>6, <1>7, SMTT(60) DEF TrapInv, TrapFrames, InProgram
  <2>3. \A i \in 2 .. (n - 1) : High(active'[i]) <=> ~High(active'[i - 1])
    <3> TAKE i \in 2 .. (n - 1)
    <3>1. i \in 2 .. n /\ active'[i] = active[i] /\ active'[i - 1] = active[i - 1]
      BY <1>2, <1>5
    <3> QED BY <3>1 DEF TrapInv, TrapFrames
  <2>4. \A i, j \in 1 .. (n - 1) :
          i < j /\ (High(active'[i]) <=> High(active'[j])) => active'[j].frame < Low(active'[i])
    BY <1>5, Zenon DEF TrapInv, TrapFrames
  <2> QED BY <1>5, <2>1, <2>2, <2>3, <2>4, SMTT(60) DEF TrapFrames
<1>11. LiveStacksIntact'
  <2>1. ASSUME NEW i \in 1 .. (n - 1) PROVE FrameSaved(active'[i], mem')
    <3>1. /\ active[i].frame \in Memory /\ active[i].frame - 1 \in Memory
          /\ FrameSaved(active[i], mem)
      BY <1>5, FramesInMemory, SMTT(60)
    <3>2. \A a \in InUse(active[i]) : a # sp
      BY <1>1, <1>3, InnermostApart, Zenon
    <3>3. FrameSaved(active[i], [mem EXCEPT ![sp] = Blank])
      BY <1>2, <3>1, <3>2, WriteElsewhere, Zenon
    <3> QED BY <1>1, <1>5, <3>3
  <2>2. ProgramSaved(active[1].sp, mem')
    <3>1. ProgramSaved(active[1].sp, mem) /\ active[1].sp \in {UserTop - 1, UserTop}
      BY <1>1, Zenon DEF TrapInv, LiveStacksIntact, ProgramSaved, TrapChain
    <3>2. \A a \in active[1].sp .. (UserTop - 1) : a \in Memory /\ a # sp
      <4>1. \A a \in active[1].sp .. (UserTop - 1) : a # sp
        BY <1>1, <1>3, InnermostApart, ZenonT(60)
      <4>2. \A u \in {UserTop - 1, UserTop} : u .. (UserTop - 1) \subseteq Memory
        BY TrapAssumption DEF Memory
      <4> QED BY <3>1, <4>1, <4>2, Zenon
    <3> QED BY <1>1, <1>2, <3>1, <3>2, ZenonT(60) DEF ProgramSaved
  <2>3. active[1].sp = IF InProgram' THEN sp' ELSE active'[1].sp
    <3>1. CASE n = 1
      BY <1>2, <1>4, <1>6, <3>1, SMTT(60)
    <3>2. CASE n > 1
      BY <1>2, <1>6, <1>7, <3>2, SMTT(60)
    <3> QED BY <1>5, <3>1, <3>2, ZenonT(60)
  <2> QED BY <1>5, <2>1, <2>2, <2>3 DEF LiveStacksIntact, FrameSaved, ProgramSaved
<1> QED BY <1>8, <1>9, <1>10, <1>11 DEF TrapInv

\* The two stacks are well formed and intact in every state, however deeply
\* traps nest.
THEOREM TrapInvariant == TSpec => []TrapInv
<1>1. ASSUME TrapInv, [TNext]_tvars PROVE TrapInv'
  <2>1. CASE UNCHANGED tvars
    <3>1. /\ regs' = regs /\ sp' = sp /\ mscratch' = mscratch /\ pc' = pc
          /\ mem' = mem /\ active' = active
      BY <2>1, SMTT(60) DEF tvars
    <3>2. TrapTypes'
      BY <1>1, <3>1, SMTT(60) DEF TrapInv, TrapTypes
    <3>3. TrapChain' /\ TrapFrames'
      BY <1>1, <3>1, ZenonT(60) DEF TrapInv, TrapChain, TrapFrames, InProgram, Innermost
    <3>4. LiveStacksIntact'
      BY <1>1, <3>1, Zenon DEF TrapInv, LiveStacksIntact, InProgram
    <3> QED BY <3>2, <3>3, <3>4, SMTT(60) DEF TrapInv
  <2>2. CASE TNext
    BY <1>1, <2>2, ProgramSteps, EntryStep, HandlerSteps, ReturnStep, Zenon DEF TNext
  <2> QED BY <1>1, <2>1, <2>2, SMTT(60)
<1> QED BY <1>1, TrapInvInit, PTL DEF TSpec

\* Saved registers and stacked words stay as they were written.
THEOREM LiveStacksStayIntact == TSpec => []LiveStacksIntact
<1>1. TrapInv => LiveStacksIntact
  BY DEF TrapInv
<1> QED BY <1>1, TrapInvariant, PTL

\* Every return from a trap gives back sp, mscratch, the next instruction and all
\* registers but two: t0, which trap.S overwrites, and a0, which may hold an error
\* code whatever the cause of the trap was.
THEOREM ReturnsGiveBack == TSpec => ReturnGivesBack
<1>1. ASSUME TrapInv, [TNext]_tvars
      PROVE  [ Len(active') < Len(active) =>
                 LET h == Innermost
                 IN  /\ sp' = h.sp
                     /\ mscratch' = h.mscratch
                     /\ pc' = IF h.cause = "ecall" THEN (h.pc + 4) % PcMod ELSE h.pc
                     /\ \A r \in {"caller", "callee"} : regs'[r] = h.regs[r]
                     /\ regs'["a0"] \in Errors \cup {h.regs["a0"]}
                     /\ regs'["t0"] = "saved sp" ]_tvars
  <2> SUFFICES ASSUME TNext, Len(active') < Len(active)
               PROVE  LET h == Innermost
                      IN  /\ sp' = h.sp
                          /\ mscratch' = h.mscratch
                          /\ pc' = IF h.cause = "ecall" THEN (h.pc + 4) % PcMod ELSE h.pc
                          /\ \A r \in {"caller", "callee"} : regs'[r] = h.regs[r]
                          /\ regs'["a0"] \in Errors \cup {h.regs["a0"]}
                          /\ regs'["t0"] = "saved sp"
    BY <1>1, Zenon
  <2>0. active \in Seq(TrapRec) /\ Len(active) \in Nat
    BY <1>1 DEF TrapInv, TrapTypes
  <2>1. ASSUME NEW cause \in {"ecall", "fault"}, TrapEntry(cause) PROVE FALSE
    <3>1. Len(active') = Len(active) + 1
      BY <2>0, <2>1 DEF TrapEntry
    <3> QED BY <2>0, <3>1, SMTT(60)
  <2>2. ASSUME ProgramPush \/ ProgramPop PROVE FALSE
    <3>1. active' = active
      BY <2>2, Zenon DEF ProgramPush, ProgramPop
    <3> QED BY <2>0, <3>1, SMTT(60)
  <2>3. ASSUME HandlerCall \/ HandlerReturn PROVE FALSE
    <3>1. Len(active') = Len(active)
      BY <2>0, <2>3 DEF HandlerCall, HandlerReturn
    <3> QED BY <2>0, <3>1, SMTT(60)
  <2> QED BY <1>1, <2>1, <2>2, <2>3, ReturnGives, ZenonT(60) DEF TNext
<1> QED BY <1>1, TrapInvariant, PTL DEF TSpec, ReturnGivesBack

(***************************************************************************)
(* Notifications.                                                          *)
(***************************************************************************)

\* NoMissedSignal, and nobody but the driver sleeps.
WaitInv ==
  /\ ntfn \in [badge : SUBSET Bits, has_waiter : BOOLEAN,
               waiter_tcb : {Driver, Peer}, bound_tcb : {Driver, Peer}]
  /\ asleep \subseteq {Driver}
  /\ NoMissedSignal

\* A blocked thread is registered and has nothing to take.
THEOREM SignalsNotMissed == WSpec => []NoMissedSignal
<1>1. WInit => WaitInv
  BY DEF WInit, notification_zero, WaitInv, NoMissedSignal
<1>2. ASSUME WaitInv, [WNext]_wvars PROVE WaitInv'
  <2> USE <1>2 DEF WaitInv, NoMissedSignal
  <2>1. CASE UNCHANGED wvars
    BY <2>1 DEF wvars
  <2>2. ASSUME NEW badge \in SUBSET Bits, Signal(badge) PROVE WaitInv'
    BY <2>2 DEF Signal, notification_signal, Woken
  <2>3. CASE Wait(Driver)
    BY <2>3, Zenon DEF Wait, notification_wait
  <2>4. ASSUME NEW t \in {Driver, Peer}, Poll(t) PROVE WaitInv'
    BY <2>4 DEF Poll, notification_poll
  <2>5. ASSUME NEW t \in {Driver, Peer}, Bind(t) PROVE WaitInv'
    BY <2>5 DEF Bind, notification_bind
  <2> QED BY <2>1, <2>2, <2>3, <2>4, <2>5 DEF WNext
<1>3. WaitInv => NoMissedSignal
  BY DEF WaitInv
<1> QED BY <1>1, <1>2, <1>3, PTL DEF WSpec

(***************************************************************************)
(* The console.                                                            *)
(***************************************************************************)

ConsoleInv ==
  /\ line \in Seq(Chars)
  /\ screen \in [Cells -> Chars \cup {Dark}]
  /\ LineShown

\* The row of the cursor shows what has been written since column 0.
THEOREM LineStaysShown == KSpec => []LineShown
<1>1. KInit => ConsoleInv
  BY ConsoleAssumption DEF KInit, ConsoleInv, LineShown, DarkScreen, Cells
<1>2. ASSUME ConsoleInv, [KNext]_kvars PROVE ConsoleInv'
  <2>0. /\ Cols \in Nat \ {0} /\ Rows \in Nat \ {0}
        /\ cx \in 0 .. (Cols - 1) /\ cy \in 0 .. (Rows - 1)
        /\ DarkScreen \in [Cells -> Chars \cup {Dark}]
    BY <1>2, ConsoleAssumption DEF ConsoleInv, LineShown, Cells, DarkScreen
  <2>1. NextRow(cy) \in 0 .. (Rows - 1)
    BY <2>0 DEF NextRow
  <2>2. \A scr \in [Cells -> Chars \cup {Dark}] : Scrolled(scr, cy) \in [Cells -> Chars \cup {Dark}]
    BY <2>0 DEF Scrolled
  <2>3. ASSUME cx' = 0, cy' \in 0 .. (Rows - 1), line' = <<>>,
               screen' \in [Cells -> Chars \cup {Dark}]
        PROVE  ConsoleInv'
    BY <2>0, <2>3 DEF ConsoleInv, LineShown, Cells
  <2>4. CASE UNCHANGED kvars
    BY <1>2, <2>4 DEF ConsoleInv, LineShown, kvars
  <2>5. CASE vga_init \/ vga_console_clear \/ CarriageReturn
    BY <1>2, <2>0, <2>3, <2>5 DEF vga_init, vga_console_clear, CarriageReturn, ConsoleInv
  <2>6. CASE NewLine
    BY <1>2, <2>1, <2>2, <2>3, <2>6 DEF NewLine, ConsoleInv
  <2>7. ASSUME NEW c \in Chars, Draw(c) PROVE ConsoleInv'
    <3> DEFINE drawn == [screen EXCEPT ![<<cx, cy>>] = c]
    <3>1. drawn \in [Cells -> Chars \cup {Dark}]
      BY <1>2, Zenon DEF ConsoleInv
    <3>2. CASE cx + 1 >= Cols
      <4>1. cx' = 0 /\ cy' = NextRow(cy) /\ line' = <<>> /\ screen' = Scrolled(drawn, cy)
        BY <2>7, <3>2, SMTT(60) DEF Draw, DrawAndWrap
      <4> QED BY <2>1, <2>2, <2>3, <3>1, <4>1, Zenon
    <3>3. CASE ~(cx + 1 >= Cols)
      <4>1. cx' = cx + 1 /\ cy' = cy /\ line' = Append(line, c) /\ screen' = drawn
        BY <2>7, <3>3 DEF Draw, DrawAndWrap
      <4>2. line' \in Seq(Chars) /\ Len(line') = Len(line) + 1 /\ cx = Len(line)
        BY <1>2, <4>1 DEF ConsoleInv, LineShown
      <4>3. <<cx', cy'>> \in Cells /\ cx' = Len(line')
        BY <2>0, <3>3, <4>1, <4>2, SMTT(60) DEF Cells
      <4>4. ASSUME NEW x \in 1 .. Len(line')
            PROVE  screen'[<<x - 1, cy'>>] = line'[x]
        <5>1. <<x - 1, cy>> \in Cells
          BY <2>0, <4>2 DEF Cells
        <5>2. CASE x = Len(line')
          BY <1>2, <4>1, <4>2, <5>1, <5>2 DEF ConsoleInv
        <5>3. CASE x # Len(line')
          <6>1. x \in 1 .. Len(line) /\ line'[x] = line[x] /\ x - 1 # cx
            BY <1>2, <4>1, <4>2, <5>3 DEF ConsoleInv
          <6>2. screen'[<<x - 1, cy>>] = screen[<<x - 1, cy>>]
            BY <1>2, <4>1, <5>1, <6>1 DEF ConsoleInv
          <6> QED BY <1>2, <4>1, <6>1, <6>2 DEF ConsoleInv, LineShown
        <5> QED BY <5>2, <5>3
      <4> QED BY <3>1, <4>1, <4>2, <4>3, <4>4, SMTT(60) DEF ConsoleInv, LineShown
    <3> QED BY <3>2, <3>3
  <2> QED BY <1>2, <2>4, <2>5, <2>6, <2>7 DEF KNext
<1>3. ConsoleInv => LineShown
  BY SMTT(60) DEF ConsoleInv
<1> QED BY <1>1, <1>2, <1>3, PTL DEF KSpec
=============================================================================
