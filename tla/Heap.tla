-------------------------------- MODULE Heap --------------------------------
(***************************************************************************)
(* The hardware priority queue of the timing master: heap_pathfinder.vhd   *)
(* looks for the way of an element through a binary heap of keys, one      *)
(* level per clock cycle, and heap_writer.vhd follows two cycles behind,   *)
(* moving the elements on the way in RAM (heap_top.vhd connects the two).  *)
(* A step of the model is a clock cycle: every register takes its next     *)
(* value from the present ones.                                            *)
(*                                                                         *)
(* The RAMs are external (general-cores). A read returns the word a cycle  *)
(* later; a read of the word that is being written may return anything, as *)
(* the instances leave the resolution of such conflicts open.              *)
(***************************************************************************)
EXTENDS Integers, FiniteSets, Bags, TLC

CONSTANTS
  IdxWidth,   \* g_idx_width: indices are 1 .. 2^IdxWidth - 1
  Elements    \* what is queued: pairs <<key, value>>

ASSUME HeapAssumption ==
  /\ IdxWidth \in Nat \ {0}
  /\ \A e \in Elements : e[1] \in Nat
  /\ Elements # {}

VARIABLES
  pf,      \* registers of heap_pathfinder
  wr,      \* registers of heap_writer
  mem,     \* the RAM of elements; the two RAMs of keys have their keys
  stored,  \* history: the elements accepted and not yet removed, as a bag
  clash    \* history: a command and the check came together, since the last clear

heapVars == <<pf, wr, mem, stored, clash>>

-----------------------------------------------------------------------------
(* Indices: heap_pkg *)

Size == 2 ^ IdxWidth
Index == 0 .. Size - 1
First == 1
Key(e) == e[1]

Blank == CHOOSE e \in Elements : TRUE

Parent(i) == IF i = 1 THEN i ELSE i \div 2
LChild(i) == (2 * i) % Size
RChild(i) == (2 * i + 1) % Size

\* The index has the leading bit of last.
IsLowestLevel(i, last) ==
  \E b \in 0 .. IdxWidth - 1 : /\ 2 ^ b <= last /\ last < 2 ^ (b + 1)
                               /\ (i \div 2 ^ b) % 2 = 1

-----------------------------------------------------------------------------
(* Combinatorial logic of the pathfinder; qa holds the keys read last cycle *)

HasRight == RChild(pf.ptr) <= pf.newLast
AGreB    == pf.qa[0] >= pf.qa[1] /\ HasRight
AGreMov  == pf.qa[0] >= pf.mov
BGreMov  == pf.qa[1] >= pf.mov /\ HasRight

Full  == pf.last = Size - 1
Empty == pf.last = 0

PtrDown ==
  CASE pf.state = "DOWN_SETUP" -> First
    [] pf.state # "DOWN_SETUP" /\ ~AGreB /\ ~AGreMov -> LChild(pf.ptr)
    [] pf.state # "DOWN_SETUP" /\ AGreB /\ ~BGreMov -> RChild(pf.ptr)
    [] OTHER -> pf.ptr

PtrUp ==
  CASE pf.state = "UP_SETUP" -> pf.last
    [] pf.state # "UP_SETUP" /\ AGreMov -> Parent(pf.ptr)
    [] OTHER -> pf.ptr

\* (mutant of PosFoundDown) the right child is not compared.
PosFoundDownLeft ==
  /\ pf.state = "DOWN"
  /\ \/ AGreMov \/ LChild(pf.ptr) > pf.newLast
     \/ IsLowestLevel(pf.ptr, pf.newLast)

PosFoundDown ==
  /\ pf.state = "DOWN"
  /\ \/ /\ BGreMov \/ RChild(pf.ptr) > pf.newLast
        /\ AGreMov \/ LChild(pf.ptr) > pf.newLast
     \/ IsLowestLevel(pf.ptr, pf.newLast)

\* (mutant of PosFoundUp) the search does not stop at the root.
PosFoundUpOpen == pf.state = "UP" /\ ~AGreMov

PosFoundUp == pf.state = "UP" /\ (~AGreMov \/ PtrUp = First)

PosFound == PosFoundDown \/ PosFoundUp      \* final_o
Valid == pf.state \in {"DOWN", "UP"}        \* valid_o; idx_o is pf.ptr

\* Addresses of the two key RAMs. On the way up the second is not driven and the
\* word it reads is not used.
KeyAddr(port) ==
  CASE pf.mode = "DOWN" -> IF port = 0 THEN LChild(PtrDown) ELSE RChild(PtrDown)
    [] pf.mode = "UP"   -> IF port = 0 THEN Parent(PtrUp) ELSE 0
    [] OTHER            -> IF port = 0 THEN First ELSE pf.last

-----------------------------------------------------------------------------
(* The writer's port to the RAMs *)

\* (mutant of WrVal) the moving element is selected a cycle late.
WrValLate == IF wr.fin[2] /\ ~wr.fin[1] THEN wr.mov ELSE wr.q

\* The falling edge of the final flag, two cycles late, selects the moving element.
WrVal == IF wr.fin[1] /\ ~wr.fin[0] THEN wr.mov ELSE wr.q
WrEn  == wr.en[1]
WrIdx == wr.idx[1]

\* (mutants of ReadIdx) the last element is not read for the next removal; the
\* last element is put out.
ReadIdxNoUpdate ==
  CASE wr.mode = "OUTPUT" -> First
    [] wr.mode = "DBG"    -> wr.dbgAdr
    [] OTHER              -> pf.ptr

ReadIdxLast ==
  CASE wr.mode \in {"OUTPUT", "UPDATE"} -> pf.last
    [] wr.mode = "DBG"    -> wr.dbgAdr
    [] OTHER              -> pf.ptr

ReadIdx ==
  CASE wr.mode = "OUTPUT" -> First
    [] wr.mode = "UPDATE" -> pf.last
    [] wr.mode = "DBG"    -> wr.dbgAdr
    [] OTHER              -> pf.ptr

MemNext == IF WrEn THEN [mem EXCEPT ![WrIdx] = WrVal] ELSE mem

\* What a read of the element at i may return.
ReadResults(i) == IF WrEn /\ i = WrIdx THEN Elements ELSE {mem[i]}

-----------------------------------------------------------------------------
(* The clocked processes *)

Busy == pf.busy \/ wr.busy

\* A pathfinder in a state has the address mode and the busy flag of it.
PfIn(state) ==
  [state |-> state, busy |-> state # "IDLE",
   mode |-> CASE state \in {"DOWN", "DOWN_SETUP"} -> "DOWN"
              [] state \in {"UP", "UP_SETUP"} -> "UP"
              [] OTHER -> "DEF"]

\* (mutant of PfCommand) a removal from an empty heap is not refused.
PfCommandUnchecked(push, pop, d) ==
  CASE push /\ ~pop /\ ~Full ->
         PfIn("UP_SETUP") @@ [mov |-> Key(d), ptr |-> pf.last + 1, newLast |-> pf.last + 1]
    [] ~push /\ pop ->
         PfIn(IF pf.last = First THEN "UPDATE" ELSE "DOWN_SETUP")
           @@ [mov |-> pf.mov, ptr |-> First, newLast |-> pf.last - 1]
    [] push /\ pop ->
         PfIn("DOWN_SETUP") @@ [mov |-> Key(d), ptr |-> First, newLast |-> pf.last]
    [] OTHER -> PfIn("IDLE") @@ [mov |-> pf.qa[1]]

\* e_IDLE of the pathfinder: insert, remove or replace. The pair is the next
\* state and the registers that go with it.
PfCommand(push, pop, d) ==
  CASE push /\ ~pop /\ ~Full ->
         PfIn("UP_SETUP") @@ [mov |-> Key(d), ptr |-> pf.last + 1, newLast |-> pf.last + 1]
    [] ~push /\ pop /\ ~Empty ->
         PfIn(IF pf.last = First THEN "UPDATE" ELSE "DOWN_SETUP")
           @@ [mov |-> pf.mov, ptr |-> First, newLast |-> pf.last - 1]
    [] push /\ pop ->
         PfIn("DOWN_SETUP") @@ [mov |-> Key(d), ptr |-> First, newLast |-> pf.last]
    [] OTHER -> PfIn("IDLE") @@ [mov |-> pf.qa[1]]

PfStep(push, pop, d) ==
  CASE pf.state = "IDLE"       -> PfCommand(push, pop, d)
    [] pf.state = "UP_SETUP"   -> PfIn("UP") @@ [last |-> pf.newLast]
    [] pf.state = "DOWN_SETUP" -> PfIn("DOWN")
    [] pf.state = "DOWN"       -> PfIn(IF PosFound THEN "UPDATE" ELSE "DOWN") @@ [ptr |-> PtrDown]
    [] pf.state = "UP"         -> PfIn(IF pf.found THEN "UPDATE" ELSE "UP") @@ [ptr |-> PtrUp]
    [] pf.state = "UPDATE"     -> PfIn("IDLE") @@ [last |-> pf.newLast]

PfReset == PfIn("IDLE") @@ [ptr |-> 0, last |-> 0, newLast |-> 0, mov |-> 0]

\* The pathfinder's registers; of a register that is reset or not written the
\* old value stays.
PfTick(clear, push, pop, d) ==
  \E e0 \in ReadResults(KeyAddr(0)), e1 \in ReadResults(KeyAddr(1)) :
    pf' = [qa |-> [i \in 0 .. 1 |-> Key(IF i = 0 THEN e0 ELSE e1)]]
          @@ (IF clear THEN PfReset ELSE PfStep(push, pop, d) @@ [found |-> PosFound])
          @@ pf

WrIn(state) ==
  [state |-> state, busy |-> state # "IDLE",
   mode |-> CASE state = "SET_ADR_1ST" -> "OUTPUT"
              [] state = "SET_ADR_LAST_CPY_1ST" -> "UPDATE"
              [] state \in {"DBG_RD_C", "DBG_RD_P", "DBG_WAIT", "DBG_VER"} -> "DBG"
              [] OTHER -> "INP"]

Done == wr.fin[2] /\ ~wr.fin[1]

\* (mutant of DbgBad) equal keys are taken for a fault.
DbgBadStrict == ~Empty /\ Key(wr.dbgCmp) <= Key(wr.q)

\* The consistency check walks from the last element to the first and compares
\* each with its parent.
DbgBad == ~Empty /\ Key(wr.dbgCmp) < Key(wr.q)
DbgOver == Empty \/ DbgBad \/ wr.dbgPtr = First

WrStep(push, dbg, d) ==
  CASE wr.state = "IDLE" ->
         (IF dbg THEN WrIn("DBG_RD_C") @@ [dbgPtr |-> pf.last, dbgAdr |-> pf.last]
          ELSE WrIn(IF Valid THEN "COPY" ELSE "IDLE"))
         @@ [mov |-> IF push THEN d ELSE wr.mov]
    [] wr.state = "COPY" -> WrIn(IF Done THEN "SET_ADR_1ST" ELSE "COPY")
    [] wr.state = "SET_ADR_1ST" -> WrIn("SET_ADR_LAST_CPY_1ST")
    [] wr.state = "SET_ADR_LAST_CPY_1ST" -> WrIn("CPY_LAST") @@ [out |-> TRUE]
    [] wr.state = "CPY_LAST" -> WrIn("IDLE") @@ [mov |-> wr.q]
    [] wr.state = "DBG_RD_C" -> WrIn("DBG_RD_P")
    [] wr.state = "DBG_RD_P" -> WrIn("DBG_WAIT") @@ [dbgAdr |-> Parent(wr.dbgPtr)]
    [] wr.state = "DBG_WAIT" -> WrIn("DBG_VER") @@ [dbgCmp |-> wr.q]
    [] wr.state = "DBG_VER" ->
         WrIn(IF DbgOver THEN "SET_ADR_1ST" ELSE "DBG_RD_C")
         @@ [dbgPtr |-> (wr.dbgPtr - 1) % Size, dbgAdr |-> (wr.dbgPtr - 1) % Size,
             dbgOk |-> Empty \/ wr.dbgPtr = First, dbgErr |-> DbgBad]

\* data_o, which counts with out_o, and the registers of the check. A word that
\* nothing looks at before the next one is written is Blank, or 0.
Scratch == [dout   |-> IF wr.state = "SET_ADR_LAST_CPY_1ST" THEN wr.q ELSE Blank,
            dbgCmp |-> Blank,
            dbgPtr |-> IF wr.mode = "DBG" THEN wr.dbgPtr ELSE 0,
            dbgAdr |-> IF wr.mode = "DBG" THEN wr.dbgAdr ELSE 0]

Pulses == [out |-> FALSE, dbgOk |-> FALSE, dbgErr |-> FALSE]

\* The delays of final_i, en_i and idx_i stand still during a reset. The index
\* counts with the enable.
Delays == [fin |-> [i \in 0 .. 2 |-> IF i = 0 THEN PosFound ELSE wr.fin[i - 1]],
           en  |-> [i \in 0 .. 1 |-> IF i = 0 THEN Valid ELSE wr.en[i - 1]],
           idx |-> [i \in 0 .. 1 |-> IF i = 1 THEN wr.idx[0] ELSE IF Valid THEN pf.ptr ELSE 0]]

WrTick(clear, push, dbg, d) ==
  \E e \in ReadResults(ReadIdx) :
    wr' = [q |-> e]
          @@ (IF clear THEN [state |-> "IDLE"] @@ Pulses
              ELSE WrStep(push, dbg, d) @@ Pulses @@ Scratch @@ Delays)
          @@ wr

One(e) == SetToBag({e})

\* heap_top: commands are passed on when nothing is busy. What is stored
\* changes with the command, the RAM in the cycles after it. A check that is asked
\* for with a command starts its walk at the old last element and takes the read
\* port from the copying of the elements; of what is stored then no account is
\* kept until the heap is cleared.
HeapTick(clear, dbg, push, pop, d) ==
  LET ready == ~Busy  s_push == push /\ ready  s_pop == pop /\ ready IN
  /\ PfTick(clear, s_push, s_pop, d)
  /\ WrTick(clear, s_push, dbg /\ ready, d)
  /\ mem' = MemNext
  /\ clash' = (~clear /\ (clash \/ (dbg /\ (s_push \/ s_pop))))
  /\ stored' = CASE clear \/ clash' -> EmptyBag
                 [] ~(clear \/ clash') /\ s_push /\ ~s_pop /\ ~Full -> stored (+) One(d)
                 [] ~(clear \/ clash') /\ ~s_push /\ s_pop /\ ~Empty -> stored (-) One(mem[First])
                 [] ~(clear \/ clash') /\ s_push /\ s_pop /\ ~Empty ->
                      (stored (-) One(mem[First])) (+) One(d)
                 [] OTHER -> stored

HeapInit ==
  LET e == Blank IN
  /\ pf = PfReset @@ [qa |-> [i \in 0 .. 1 |-> Key(e)], found |-> FALSE]
  /\ wr = WrIn("IDLE") @@ Pulses
          @@ [q |-> e, mov |-> e, dout |-> e, dbgPtr |-> 0, dbgAdr |-> 0, dbgCmp |-> e,
              fin |-> [i \in 0 .. 2 |-> FALSE], en |-> [i \in 0 .. 1 |-> FALSE],
              idx |-> [i \in 0 .. 1 |-> 0]]
  /\ mem = [i \in Index |-> e]
  /\ stored = EmptyBag
  /\ clash = FALSE

\* What the queue around the heap (ftm_priority_queue) keeps to: it stalls its
\* input while the heap is full and does not pop an empty one. Nothing keeps the
\* consistency check from being asked for with a command. Commands given to a
\* busy heap are not passed on, so that none is enough.
Allowed(clear, dbg, push, pop) ==
  /\ Full => ~push \/ pop
  /\ Empty => ~push \/ ~pop
  /\ Busy \/ clear => ~dbg /\ ~push /\ ~pop

Tick == \E clear, dbg, push, pop \in BOOLEAN :
          /\ Allowed(clear, dbg, push, pop)
          /\ \E d \in IF push THEN Elements ELSE {Blank} : HeapTick(clear, dbg, push, pop, d)

\* A cycle in which the heap is not cleared. The clock does not stop, and the
\* command to clear is a pulse.
Running == \E dbg, push, pop \in BOOLEAN :
             /\ Allowed(FALSE, dbg, push, pop)
             /\ \E d \in IF push THEN Elements ELSE {Blank} : HeapTick(FALSE, dbg, push, pop, d)

HeapSpec == HeapInit /\ [][Tick]_heapVars /\ WF_heapVars(Running)

-----------------------------------------------------------------------------
(* Properties *)

TypeOK ==
  /\ pf.ptr \in Index /\ pf.last \in Index /\ pf.newLast \in Index
  /\ mem \in [Index -> Elements]
  /\ wr.dbgPtr \in Index

\* Whenever the queue can take a command its RAM is a heap: no element has a
\* smaller key than its parent, although the writer moves elements two cycles
\* behind the search and reads what it has just written.
HeapOrder ==
  ~Busy => \A i \in 2 .. pf.last : Key(mem[i]) >= Key(mem[Parent(i)])

Copies(e) == Cardinality({i \in 1 .. pf.last : mem[i] = e})

\* ... and, as long as no command came with the check, it holds exactly the
\* elements put in and not taken out.
NothingLost ==
  ~clash /\ ~Busy => \A e \in Elements : Copies(e) = CopiesIn(e, stored)

\* What is put out after a command is a stored element of least key ("Lowest
\* key will always be the first element in the heap").
PutsOutLeast ==
  ~clash /\ wr.out /\ ~Empty =>
    /\ BagIn(wr.dout, stored)
    /\ \A e \in BagToSet(stored) : Key(wr.dout) <= Key(e)

\* The consistency check never finds a fault, unless it was asked for together
\* with a command: it then compares elements that are on the move.
CheckPasses == ~clash => ~wr.dbgErr

\* A removal moves the last element to the root: whenever the queue is ready both
\* cores hold it already, though each fetches it in its own time, while the other
\* may still be writing.
MovReady == ~Busy /\ ~Empty => wr.mov = mem[pf.last] /\ pf.mov = Key(mem[pf.last])

\* Every command comes to an end.
BecomesReady == []<>(~Busy)
=============================================================================
