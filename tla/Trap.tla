-------------------------------- MODULE Trap --------------------------------
(***************************************************************************)
(* Trap entry and return (kernel/src/trap.S) with syscall_handler as far   *)
(* as the trap frame shows it.  A program, which has a stack of its own,   *)
(* is interrupted by a system call or a fault; the handler itself may      *)
(* fault, and is then interrupted by the same code.  sp and mscratch are   *)
(* swapped at entry and at return, so that nested traps alternate between  *)
(* the two stacks.                                                         *)
(*                                                                         *)
(* Memory is counted in frames of 272 bytes; what is freed from a stack is *)
(* dead and is forgotten.  Registers that the code and the C calling       *)
(* convention treat alike are one register here: "caller" stands for ra,   *)
(* t1-t6 and a1-a7, "callee" for s0-s11, gp and tp.  The entry and the     *)
(* return code do not trap themselves.                                     *)
(***************************************************************************)
EXTENDS Integers, Sequences

CONSTANTS
  TrapTop,    \* _trap_stack_top
  UserTop,    \* the top of the program's stack
  MaxNest,    \* bound: traps that are active at a time
  Errors,     \* kerror_t values that syscall_handler writes to a0
  Blank       \* memory that nothing has been written to

ASSUME TrapAssumption ==
  /\ MaxNest \in Nat \ {0}
  /\ UserTop \in Nat /\ TrapTop \in Nat
  /\ UserTop > 2 * MaxNest + 1 /\ TrapTop > UserTop + 2 * MaxNest

Regs == {"t0", "a0", "caller", "callee"}

Memory == 0 .. TrapTop

VARIABLES
  regs,       \* the registers other than sp
  sp,
  mscratch,
  pc,         \* of the program; HandlerPc in the handler
  mem,        \* memory
  active      \* the traps that have not returned, outermost first (history,
              \* but for frame and busy: where sp is in the handler)

tvars == <<regs, sp, mscratch, pc, mem, active>>

\* The program counts instructions of 4 bytes and loops; one instruction of
\* the handler stands for all.
PcMod == 8
HandlerPc == 1

TInit ==
  /\ regs = [r \in Regs |-> r]
  /\ sp = UserTop
  /\ mscratch = TrapTop
  /\ pc = 0
  /\ mem = [a \in Memory |-> Blank]
  /\ active = <<>>

InProgram == active = <<>>

Innermost == active[Len(active)]

-----------------------------------------------------------------------------

\* The program pushes and pops words of its own.
ProgramPush ==
  /\ InProgram
  /\ sp = UserTop
  /\ sp' = sp - 1
  /\ mem' = [mem EXCEPT ![sp - 1] = [data |-> "program"]]
  /\ UNCHANGED <<regs, mscratch, pc, active>>

ProgramPop ==
  /\ InProgram
  /\ sp < UserTop
  /\ sp' = sp + 1
  /\ mem' = [mem EXCEPT ![sp] = Blank]
  /\ UNCHANGED <<regs, mscratch, pc, active>>

\* Slip: every frame goes to the top of the trap stack.
FrameAtTop == TrapTop - 1

\* Where the frame goes: below the stack pointer that mscratch holds.
FrameAt == mscratch - 1

\* What the entry code stores: all registers, the swapped-out sp, mepc, mcause.
FrameOf(cause) == [regs |-> regs, sp |-> sp, pc |-> pc, cause |-> cause]

\* trap_entry up to the call of syscall_handler.  The handler is free to use
\* the caller-saved registers.
TrapEntry(cause) ==
  /\ Len(active) < MaxNest
  /\ cause = "ecall" => InProgram
  /\ mem' = [mem EXCEPT ![FrameAt] = FrameOf(cause)]
  /\ active' = Append(active, [frame |-> FrameAt, busy |-> FALSE, regs |-> regs, sp |-> sp,
                               mscratch |-> mscratch, pc |-> pc, cause |-> cause])
  /\ sp' = FrameAt
  /\ mscratch' = sp
  /\ regs' = [r \in Regs |-> IF r = "callee" THEN regs[r] ELSE "scratch"]
  /\ pc' = HandlerPc

\* The handler calls functions, which save the callee-saved registers they use
\* on the stack and restore them.
HandlerCall ==
  /\ ~InProgram /\ ~Innermost.busy
  /\ sp' = sp - 1
  /\ mem' = [mem EXCEPT ![sp - 1] = [callee |-> regs["callee"]]]
  /\ regs' = [regs EXCEPT !["callee"] = "local"]
  /\ active' = [active EXCEPT ![Len(active)].busy = TRUE]
  /\ UNCHANGED <<mscratch, pc>>

HandlerReturn ==
  /\ ~InProgram /\ Innermost.busy
  /\ regs' = [regs EXCEPT !["callee"] = mem[sp].callee]
  /\ sp' = sp + 1
  /\ mem' = [mem EXCEPT ![sp] = Blank]
  /\ active' = [active EXCEPT ![Len(active)].busy = FALSE]
  /\ UNCHANGED <<mscratch, pc>>

\* mcause 8 to 11: the instruction after the ecall is next.
Resumed(f) == IF f.cause = "ecall" THEN (f.pc + 4) % PcMod ELSE f.pc

\* Slip: the frame is not taken off the stack before the swap.
StackLeftDown(a) == a

\* addi sp, sp, 272
StackFreed(a) == a + 1

\* The rest of trap_entry.  syscall_handler has written its result to a0 of the
\* frame, or has returned early and written nothing.  t0 is loaded twice, the
\* second time with the saved sp.
TrapReturn(result) ==
  /\ ~InProgram /\ ~Innermost.busy
  /\ LET f == [mem[sp] EXCEPT !.regs["a0"] = IF result \in Errors THEN result ELSE @]
     IN  /\ pc' = Resumed(f)
         /\ regs' = [f.regs EXCEPT !["t0"] = "saved sp"]
  /\ mem' = [mem EXCEPT ![sp] = Blank]
  /\ sp' = mscratch
  /\ mscratch' = StackFreed(sp)
  /\ active' = SubSeq(active, 1, Len(active) - 1)

TNext ==
  \/ ProgramPush \/ ProgramPop
  \/ \E cause \in {"ecall", "fault"} : TrapEntry(cause)
  \/ HandlerCall \/ HandlerReturn
  \/ \E result \in Errors \cup {"early return"} : TrapReturn(result)

TSpec == TInit /\ [][TNext]_tvars

-----------------------------------------------------------------------------

\* What an active trap saved, what the functions of its handler saved and what
\* the program has on its stack stay as they were written, however deeply traps
\* nest: the alternating stacks never run into each other's live part.
LiveStacksIntact ==
  /\ \A i \in 1 .. Len(active) :
       LET h == active[i]
       IN  /\ mem[h.frame] = [regs |-> h.regs, sp |-> h.sp, pc |-> h.pc, cause |-> h.cause]
           /\ h.busy => mem[h.frame - 1] = [callee |-> h.regs["callee"]]
  /\ \A a \in (IF InProgram THEN sp ELSE active[1].sp) .. (UserTop - 1) :
       mem[a] = [data |-> "program"]

\* What a trap gives back to what it interrupts, the handler of another trap
\* included: sp, mscratch and all registers but a0 and t0 are as they were, and
\* execution goes on behind an ecall and at a faulting instruction.  t0 is lost
\* whatever the cause, since trap.S loads the saved sp into it; a0 may hold an
\* error code after a fault too, since syscall_handler runs for every cause.
ReturnGivesBack ==
  [][ Len(active') < Len(active) =>
        LET h == Innermost
        IN  /\ sp' = h.sp
            /\ mscratch' = h.mscratch
            /\ pc' = IF h.cause = "ecall" THEN (h.pc + 4) % PcMod ELSE h.pc
            /\ \A r \in {"caller", "callee"} : regs'[r] = h.regs[r]
            /\ regs'["a0"] \in Errors \cup {h.regs["a0"]}
            /\ regs'["t0"] = "saved sp" ]_tvars
=============================================================================
