------------------------------ MODULE Snapshot ------------------------------
(***************************************************************************)
(* The bytes a paused machine is written to, and the machine they are read *)
(* back to: internal/ir/snapshot.go.  The machine's state is a record      *)
(*   [mem, globals, stack, exc, frames, handlers]                          *)
(* of what Machine's variables of these names hold; cells nobody reaches   *)
(* are no part of it.  A cell is written where it is found: a variable, or *)
(* an element or a field of one, or, found through a reference only, among *)
(* the orphans.  References are written as the numbers of their targets,   *)
(* and the cells with these numbers looked up when all have been read.     *)
(*                                                                         *)
(* Counters and flags that are copied, the program's fingerprint and the   *)
(* bytes themselves are left out.  The heap of OPNew is empty, as no       *)
(* generated code fills it, and files and channels, for which there is no  *)
(* snapshot, are not among Machine's values.  The variables are written in *)
(* some fixed order, which is that of their names in the code.             *)
(***************************************************************************)
EXTENDS Naturals, Sequences, SequencesExt, FiniteSetsExt, Functions

InOrder(set) == FoldSet(LAMBDA x, seq : Append(seq, x), <<>>, set)

\* The cells that a value has as its parts, in order.
PartsOf(v) ==
  CASE v[1] = "arr" -> v[2] [] v[1] = "rec" -> [k \in DOMAIN v[2] |-> v[2][k][2]] [] OTHER -> <<>>

---------------------------------------------------------------------------
(* Writing. *)

\* What the walk has found: the targets of references, whose places are their
\* numbers; the cells that have a place of their own; and the orphans, in order.
AssignID(e, c) == IF c \in ToSet(e.targets) THEN e ELSE [e EXCEPT !.targets = Append(@, c)]
IdOf(e, c) == SelectInSeq(e.targets, LAMBDA t : t = c)

RECURSIVE MarkOwned(_, _, _), Discover(_, _, _), Encode(_, _, _), Rebuild(_, _), RebuildValue(_, _), Wire(_, _)
MarkOwnedAlone(m, e, c) == [e EXCEPT !.owned = @ \cup {c}]
MarkOwned(m, e, c) ==
  IF c \in e.owned THEN e
  ELSE FoldLeft(LAMBDA e1, p : MarkOwned(m, e1, p), MarkOwnedAlone(m, e, c), PartsOf(m.mem[c]))

\* Through the parts of a value, what a function has captured, and references:
\* a target without a place is an orphan, and is walked at once.
Discover(m, e, v) ==
  LET through(e1, vals) == FoldLeft(LAMBDA e2, u : Discover(m, e2, u), e1, vals)
      named == AssignID(e, v[2])
  IN  CASE v[1] = "ptr" /\ v[2] \in e.owned -> named
        [] v[1] = "ptr" /\ v[2] \notin e.owned ->
             Discover(m, MarkOwned(m, [named EXCEPT !.orphans = Append(@, v[2])], v[2]), m.mem[v[2]])
        [] v[1] = "func" -> through(e, v[3])
        [] OTHER -> through(e, [k \in DOMAIN PartsOf(v) |-> m.mem[PartsOf(v)[k]]])

\* A value as it is written; each part with its number, 0 if it is no target.
\* (The fields are written by name; here in the order they have.)
Encode(m, e, v) ==
  LET cell(c) == <<IdOf(e, c), Encode(m, e, m.mem[c])>>
  IN  CASE v[1] = "ptr" -> <<"ptr", IdOf(e, v[2])>>
        [] v[1] = "arr" -> <<"arr", [k \in DOMAIN v[2] |-> cell(v[2][k])]>>
        [] v[1] = "rec" -> <<"rec", [k \in DOMAIN v[2] |-> <<v[2][k][1], cell(v[2][k][2])>>]>>
        [] v[1] = "func" -> <<"func", v[2], [k \in DOMAIN v[3] |-> Encode(m, e, v[3][k])]>>
        [] OTHER -> v

FrameCells(f) == f.at \o <<f.res>>
\* The variables: globals, then the locals and results of the calls.
RootCells(m) ==
  InOrder(Range(m.globals)) \o FlattenSeq([k \in DOMAIN m.frames |-> FrameCells(m.frames[k])])

\* First every cell that has a place is marked, then the walk.
Found(m) ==
  LET operands == <<m.exc.value>> \o m.stack
      cells == FlattenSeq([k \in DOMAIN operands |-> PartsOf(operands[k])]) \o RootCells(m)
      marked == FoldLeft(LAMBDA e, c : MarkOwned(m, e, c), [targets |-> <<>>, owned |-> {}, orphans |-> <<>>], cells)
  IN  FoldLeft(LAMBDA e, v : Discover(m, e, v), marked,
               operands \o [k \in DOMAIN RootCells(m) |-> m.mem[RootCells(m)[k]]])

Snapshot(m) ==
  LET e == Found(m)
      cell(c) == <<IdOf(e, c), Encode(m, e, m.mem[c])>>
  IN  [globals |-> [n \in DOMAIN m.globals |-> cell(m.globals[n])],
       stack |-> [k \in DOMAIN m.stack |-> Encode(m, e, m.stack[k])],
       exc |-> [m.exc EXCEPT !.value = Encode(m, e, @)],
       frames |-> [k \in DOMAIN m.frames |->
                     [m.frames[k] EXCEPT !.at = [j \in DOMAIN @ |-> cell(@[j])], !.res = cell(@)]],
       handlers |-> m.handlers,
       orphans |-> [k \in DOMAIN e.orphans |-> cell(e.orphans[k])]]

---------------------------------------------------------------------------
(* Reading. *)

\* A cell as it was written is built behind those there are; a number that was
\* written twice is that of the cell built last.
Rebuild(d, c) ==
  LET here == Len(d.mem) + 1
      r == RebuildValue([mem |-> Append(d.mem, c[2]), at |-> IF c[1] = 0 THEN d.at ELSE c[1] :> here @@ d.at], c[2])
  IN  [d |-> [r.d EXCEPT !.mem[here] = r.val], cell |-> here]
RebuildCells(d, cells) ==
  FoldLeft(LAMBDA q, c : LET r == Rebuild(q.d, c) IN [d |-> r.d, at |-> Append(q.at, r.cell)],
           [d |-> d, at |-> <<>>], cells)
RebuildValue(d, v) ==
  LET parts == RebuildCells(d, IF v[1] = "arr" THEN v[2] ELSE [k \in DOMAIN v[2] |-> v[2][k][2]])
  IN  CASE v[1] = "arr" -> [d |-> parts.d, val |-> <<"arr", parts.at>>]
        [] v[1] = "rec" -> [d |-> parts.d, val |-> <<"rec", [k \in DOMAIN v[2] |-> <<v[2][k][1], parts.at[k]>>]>>]
        [] OTHER -> [d |-> d, val |-> v]
RebuildValues(d, vals) ==
  FoldLeft(LAMBDA q, v : LET r == RebuildValue(q.d, v) IN [d |-> r.d, vals |-> Append(q.vals, r.val)],
           [d |-> d, vals |-> <<>>], vals)

\* The references, once every cell is there.
Wire(at, v) ==
  CASE v[1] = "ptr" -> <<"ptr", at[v[2]]>>
    [] v[1] = "func" -> <<"func", v[2], [k \in DOMAIN v[3] |-> Wire(at, v[3][k])]>>
    [] OTHER -> v

\* In the order they are built: the globals, the operands and the exception, the
\* frames, the orphans.
RestoreGlobals(s, names) ==
  RebuildCells([mem |-> <<>>, at |-> <<>>], [k \in DOMAIN names |-> s.globals[names[k]]])
RestoreOperands(s, globals) ==
  LET r == RebuildValues(globals.d, s.stack \o <<s.exc.value>>)
  IN  [d |-> r.d, globals |-> globals.at, operands |-> r.vals, frames |-> <<>>]
RestoreFrame(r, f) ==
  LET q == RebuildCells(r.d, FrameCells(f))
  IN  [r EXCEPT !.d = q.d, !.frames = Append(@, [f EXCEPT !.at = Front(q.at), !.res = Last(q.at)])]
RestoreOrphans(s, r) == [r EXCEPT !.d = RebuildCells(@, s.orphans).d]
WireAll(s, names, r) ==
  LET wired(vals) == [k \in DOMAIN vals |-> Wire(r.d.at, vals[k])]
      operands == wired(r.operands)
  IN  [mem |-> wired(r.d.mem),
       globals |-> [n \in DOMAIN s.globals |-> r.globals[CHOOSE k \in DOMAIN names : names[k] = n]],
       stack |-> Front(operands),
       exc |-> [s.exc EXCEPT !.value = Last(operands)],
       frames |-> r.frames,
       handlers |-> s.handlers]
RestoreVM(s) ==
  LET names == InOrder(DOMAIN s.globals) IN
  WireAll(s, names,
          RestoreOrphans(s, FoldLeft(RestoreFrame, RestoreOperands(s, RestoreGlobals(s, names)), s.frames)))
=============================================================================
