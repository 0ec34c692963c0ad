----------------------------- MODULE StackFrame -----------------------------
(***************************************************************************)
(* The tensor stack of a Workbench (runtime/stack.cpp) and the stack       *)
(* instructions (runtime/instruction/stack_instruction.cpp) as operators   *)
(* on a sequence of cells.                                                 *)
(*                                                                         *)
(* `cells' is m_stack, bottom first; `base' is m_base, the number of cells *)
(* that lie below the running frame.  Indices are those of the code:       *)
(* 0-based from the base when they are >= 0, from the top when negative.   *)
(* A tensor is an uninterpreted value.                                     *)
(***************************************************************************)
EXTENDS Integers, Sequences

\* The macro relative2absolute: a 0-based index into the whole of m_stack.
\* Zero counts as non-negative, so `-0' names the base and not the top.
Absolute(cells, base, i) == IF i >= 0 THEN base + i ELSE Len(cells) + i

\* The absolute position can be dereferenced (deque::at throws otherwise).
Valid(cells, base, i) == Absolute(cells, base, i) \in 0 .. Len(cells) - 1

\* Stack::index
Cell(cells, base, i) == cells[Absolute(cells, base, i) + 1]

\* Stack::size, the number of cells above the base
FrameSize(cells, base) == Len(cells) - base

\* instruction::Stack::push(i)
PushIndex(cells, base, i) == Append(cells, Cell(cells, base, i))

\* instruction::Stack::swap(i, j)
Swap(cells, base, i, j) ==
    [cells EXCEPT ![Absolute(cells, base, i) + 1] = Cell(cells, base, j),
                  ![Absolute(cells, base, j) + 1] = Cell(cells, base, i)]

\* Stack::erase(beg, end): removes the cells in [beg, end)
EraseRange(cells, base, beg, end) ==
    SubSeq(cells, 1, Absolute(cells, base, beg))
        \o SubSeq(cells, Absolute(cells, base, end) + 1, Len(cells))

\* Stack::clear: removes every cell above the base
Clear(cells, base) == EraseRange(cells, base, 0, FrameSize(cells, base))

\* The last n cells: the frame an operator sees after push_base(-n)
TopCells(cells, n) == SubSeq(cells, Len(cells) - n + 1, Len(cells))

\* OperatorInstruction::run for an operator that returned `result': push_base(-nargs),
\* the operator pushes its result above its arguments, erase(0, -1), pop_base.
\* With nargs = 0 the frame it erases is the whole frame of its caller.
ReplaceArguments(cells, base, nargs, result) ==
    EraseRange(Append(cells, result), Absolute(cells, base, -nargs), 0, -1)
=============================================================================
