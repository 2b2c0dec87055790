# A TLA+ verification of go-turbo-pascal

go-turbo-pascal compiles Turbo Pascal (and a few modern extensions) to the
intermediate representation of `internal/ir` and runs it on a virtual machine.
The machine can be driven by command line tools, an IDE, a debug adapter, a
language server, and by Go programs that embed it through `pkg/vmpas`.

This directory holds TLA+ specifications of that code, the TLC configurations
that check them on small instances, and TLAPS proofs about them for instances
of any size. `PROJECT.json` is the index: which definition models which lines,
what each run checks, which hazard each property is for, which mutation of a
definition breaks each property, and what is proved.

Contents: [the system](#the-system), [the plan](#the-plan),
[the modules](#the-modules), [the runs](#the-runs), [the proofs](#the-proofs),
[what the code does otherwise than it says](#what-the-code-does-otherwise-than-it-says),
[what is left out](#what-is-left-out).

To check: `tlc -config fibers.cfg MCFibers`, and so on for the pairs listed
under [the runs](#the-runs); `tlapm FibersProofs.tla`.


## The system

    source text
      | internal/lexer, internal/parser -> internal/ast
      | internal/sem                      (scopes, types)
      | internal/codegen                  (lowering to ir.Program)
      v
    internal/ir     VM: operands, frames, handlers, fibers, channels
      ^  ^  ^  ^
      |  |  |  +-- internal/rtl/*, internal/tv/*   builtins, units
      |  |  +----- internal/ir/snapshot.go         pause and resume
      |  +-------- internal/ir/debugger.go         <- internal/dap
      +----------- pkg/vmpas                       embedding API

Everything the machine does at run time goes through `VM.Step`: one instruction
of the frame on top of the running fiber's call stack. Builtins are Go functions
in a table the host assembles; they can raise a Pascal exception
(`VM.RaiseValue`), ask for a pause (`VM.Suspended`), or halt the machine.

### Components

| component | state | operations | what makes it correct |
|---|---|---|---|
| Fibers and channels (`ir/vm.go`) | fibers with a status, `cur`, the run queue, per channel a buffer and two wait queues | spawn, Send, Receive, Close, return of a root frame, scheduling | every fiber is in one place; no lost wake-up; values leave a channel once, in the order they came; a reported deadlock is one; the program ends |
| Exceptions, `finally`, `defer`, `recover` (`ir/vm.go`, `codegen`) | the handler stack, the active exception | the instructions that the lowering of try, raise, defer, exit and jumps emits; unwinding | an exception goes to the innermost enclosing try; cleanups start and finish |
| Frames (`ir/vm.go`, `codegen/closures.go`) | call stacks, the pool of frames, references into frames | call, return, unwind, spawn, closures | a frame serves one activation; references and handlers never point into a recycled frame |
| Durable execution (`vmpas/durable.go`, `ir/snapshot.go`, `vmpas/audit.go`) | the machine, the States the host keeps, the audit log | RunDurable, ResumeDurable, Suspend, crash of the host process | a resumed script stands where it paused; a State is of a paused script |
| Embedding API (`vmpas/vmpas.go`, `sandbox.go`, `analyze.go`) | capabilities, bindings, the cached table of builtins, the last host error | SetCapabilities, UseDB, Var, Function, Compile, Analyze, Run, RunContext, Script.Run | the table is never stale; what is forbidden is not called; cancellation is prompt and reported; bound variables keep every update |
| Lexer, parser | a position in the text | tokens, comments, directives; expression and statement grammar | precedence, no token lost, termination |
| Semantic checks (`sem`) | nested scopes | declaration, lookup, assignability | shadowing; a use is of the innermost declaration |
| Code generator (`codegen`) | the function under construction, patch lists | lowering of each statement, loops, match, methods, units | every jump is patched to its target; the operand stack is balanced |
| Values and data opcodes (`ir/vm.go`) | operand stack, cells, arrays, records | arithmetic, indexing, copying, heap | 64-bit and declared widths, range checks, copies that do not alias |
| Snapshot encoding (`ir/snapshot.go`) | the graph of cells | discover, encode, rebuild, fix-ups | aliasing survives the round trip |
| Debugger, debug adapter (`ir/debugger.go`, `dap`) | breakpoints, current line, session | Step, StepOver, Continue; launch, setBreakpoints, continue, disconnect | every breakpoint that is reached stops; one answer for each request |
| Language server (`lsp`) | open documents | didOpen, didChange, didClose, requests | answers are about the last text; no diagnostics for closed documents |
| HTTP, SQL, JSON builtins (`vmpas/sandbox.go`, `db.go`, `json.go`) | the SQL cursor, the last error, the last response | DbOpen, DbNext, DbClose, Http*, Json* | a cursor is closed; errors are of the last call |
| System unit (`rtl/system`, `codegen/files.go`) | file variables and their files, console input, random seed | Assign, Reset, Rewrite, Read, Write, Close; strings, currency | the protocol of a file variable; arithmetic at its limits |
| Crt, Graph, Dos, Strings, Printer, Overlay, ... (`rtl/*`) | screen, window, drawing state | the routines of these units | the cursor stays in its window |
| Turbo Vision (`tv/*`) | groups of views, event queue, memory manager, history, editor buffer | insert, delete, focus, modal execution, events | one focused view; commands reach it; no event is lost by order |
| IDE, tools, 8086 back end, file formats | editor buffer, options | editing, compiling, writing object files | an edit changes what the screen shows |

How they interact, where it is hard:

- **Fibers share one machine.** `VM.schedule` runs a fiber until it parks or
  returns; its operand stack, call stack and handlers are swapped in and out
  (`switchTo`), the frame pool, the heap and the step budget are shared.
- **The machine knows nothing of the nesting of the program.** Whether a
  handler is popped, a cleanup runs or a frame may be recycled is decided by
  the order of instructions that `codegen` emitted on each path.
- **Callbacks.** A builtin runs inside an instruction; what it does to the
  machine (raise, suspend, halt) is looked at after it returns, in a fixed
  order (`OPCallBuiltin`).
- **The host.** `Engine.mu` makes the calls of an engine atomic; the context of
  a run, its deadline and time go on meanwhile. A durable script leaves the
  process as bytes, and may come back in another one, twice, or never.


## The plan

The order followed what is hardest to test.

1. *(done)* `Fibers` with its abstract specification `ChannelSpec`,
   `Exceptions`, `Frames`: the control part of the virtual machine for every
   program, checked and proved about.
2. *(done)* `Durable` with `WorkflowSpec`, `Engine`: the host's side, checked
   and proved about.
3. *(done)* `Lexer`, `Parser`, `Compiler`, `Machine`: the way from a text to
   what it does, checked against `Source`, which says what a tree means; the
   first proved about.
4. *(done)* `Snapshot`: the graph of cells that `snapEncoder` writes and
   `snapDecoder` rebuilds, for every state in which the programs of 3 may pause.
5. *(done)* `Debugger`: `ir/debugger.go` with the protocol of `dap/server.go`,
   proved about.
6. *(done)* `Files`: file variables, text and typed, and the console input
   (`codegen/files.go`), as part of what the programs of 3 do.
7. *(open)* The documents of the language server; the text buffer of the IDE;
   the Turbo Vision groups, event queue and memory manager; the Crt window. None of them shares state
   with another thread or survives a crash, which is why they come last.
8. *(done)* Proofs of every safety property of `Fibers`, `Exceptions`, `Frames`,
   `Durable`, `Engine` and `Debugger` that a run checks, of the refinements of
   `ChannelSpec` and `WorkflowSpec`, and of `NothingDropped` and `ReadsBack` of
   `Lexer`.
9. *(done)* What liveness rests on, as far as it is a matter of single steps:
   that every scan moves on (`LexerEnds`), that every step of a resumed debuggee
   uses one of the steps it is allowed or answers
   (`ResumesComeToTheirAnswer`), and that a fiber in the run queue comes
   nearer to its turn with every switch (`FibersTakeTurns`).

The modules are written for it: constants with named assumptions, one action
per instruction or call, invariants as conjunctions of named parts, and no
recursive operator in a module with theorems. The parser, the compiler and what
is written and rebuilt from cells are recursive in the code and in the
specification: those are for TLC only.


## The modules

### Fibers, ChannelSpec

`Fibers` is the scheduler and the opcodes of channels. A step is one opcode of
the running fiber or one decision of the scheduler, as in the code, where a
fiber keeps the machine until it sets `vm.yield`. The branches of `OPChanSend`
and `OPChanRecv` are one action each (`SendToReceiver`, `SendToBuffer`,
`SendPark`, `RecvFromBuffer`, ...), in the order of the code's conditions. What
else a fiber computes does not touch this state and is left out; that any
opcode can end the program is `Fail`. A fiber's stack is reduced to the value
it received last (`got`). A program is any sequence of these opcodes, at most
`MaxOps` a fiber.

`ChannelSpec` is what `docs/en/concurrency.md` lets a program rely on: each
channel is one line of values. `Fibers` implements it with
`line[c] = buf[c]` followed by the values of the parked senders.

### Exceptions

The machine's handler stack against the nesting of the program. A routine's
place is the sequence of the statements it is inside of; the machine sees only
`vm.handlers`. Each instruction sequence that `compileTry` emits on a path is an
action: entering, the end of the body (`OPPopTry`, then the *normal* copy of the
cleanup), the *unwinding* copy with its `OPReraise`. `exit` is a bare
`OPReturn`; `break`, `continue` and `goto` are a bare `OPJump`. A `defer` is not
a statement of the model: `compileBodyWithDefers` turns the body of the routine
into a `try/finally`, and that is what is modelled. `Programs` chooses whether
programs use `exit`, jumps and builtins in cleanups, so that a property can say
for which programs it holds.

### Frames

Frames, the pool, and references to locals. A reference is to the array of
cells of a frame (`array`), since Go slices keep pointing there when the frame
is given to another routine; `act` says which activation those cells serve now.
`getFrame` reuses the array when its capacity suffices. Because a fiber may park
at any channel operation, any fiber may take the next step.

### Durable, WorkflowSpec

One engine, the host that calls it, and the process they live in. A run is
step by step: each builtin ends in `BuiltinReturns`, the tail of
`OPCallBuiltin` with its order (an active exception before a wish to suspend).
`Snapshot` and `Restore` have what `internal/ir/snapshot.go` writes and reads; in
particular the count of heap allocations is not in it. The heap, the locals and
the program counter are one number, the steps executed (what they hold is the
subject of `Snapshot`). `Crash` may come at any
moment; the host keeps its States and may resume any of them again.

`WorkflowSpec` is the promise: a script starts from nothing, advances, and goes
on from where one paused. `Durable` implements it by forgetting the engine.

### Engine

The calls a host makes between runs, and what a run shows to the host. The
source of a script is the set of names it calls (`Uses`), and of those the ones
that the generator looks up (`Asked`); whether it compiles is whether the latter
are in the table (`Compiles`). Assign, Reset, Rewrite, Append, Close, Erase, Rename
and the reading and writing of an open file are lowered without being looked up
(`codegen.go:1064`), so that a source that uses them compiles on every engine. The bound variable is a counter, which both
the script and the bound functions increase, so that an update that is lost or
made twice shows in it. The context can end at any step, and its deadline is
seen by the machine (`vm.Deadline`, compared with `time.Now`) before or after the
context's own timer fires. `Cadence` stands for the 4096 steps between two looks
at deadline and `Cancel`.

### Lexer, Written

One action per scan that the loop of `run` chooses, guarded by the conditions
under which it does. A text is a sequence of characters. `MoveTo` is what the
calls of `advance` come to: position, line and column. Of the letters and
reserved words there are as many as make a difference (`do` and `to`, which the
code compares with regard to case, are among them). Of the errors of a number,
`ScanNumber` has the one of an exponent without digits; that of a real number too
large for 64 bits (`1e309`) is left out, and takes more characters than a text of
the run has. It changes no token.

`Written` says what the tokenizer is for, and models no code of its own: a
lexical grammar of places in the text, without scans or a next state (`TokenAt`:
a token of this kind stands between these two places; `Layout`: white space or a
comment does), and a text that is a row of tokens with gaps between them
(`LaidOut`). It says at every place what must *not* follow, as 1.5 is not the
integer 1, and of a string that its quotes are pairs, where the tokenizer counts
them as it goes (`Closes`). The places of the tokens, in the variable `written`,
are chosen at the start and never changed. Only which letters and digits there
are, which words are reserved, which pairs are symbols and which codes in a
string are errors are taken over from `Lexer`.

### Tokens, Parser

`Tokens` classifies tokens as the parser's tests do. In `Parser` each parse
function of `internal/parser` is an operator from parser states to parser
states, in the order of its branches; trees are left on a stack `out`, so that
the calls in a Go function become the composition of operators. A loop whose
turn ends where it began would repeat for ever, since the parser has no other
state than its position: `stuck` then names the loop and the token.

### Values, Types, Compiler

`Compiler` is `internal/codegen`: one operator per compile function, from
generators to generators, with the generator's fields (scopes, code, patch
lists, with- and loop-stacks, deferred statements). Its `Compile` covers
declarations, expressions, assignments, calls, objects and classes, `match`,
closures, operators, units, `goto`, exceptions, `defer`, test blocks, and the
reading and writing of the console and of files. `Types`
has the type descriptions and their resolution, `Values` the values and their
arithmetic, which the generator and the machine share.

### Machine

The instructions that the generator emits, one action each, on a memory of
cells: a variable, an element and a field is a cell, a reference the number of
one. What is copied, and where, is what `deepCopy` and its callers do. There is
one fiber, and frames are not recycled here: that is in `Fibers` and `Frames`.

### Files

What the builtins of `codegen/files.go` and `run.go` do with a file: a variable
holds the number of an entry of the table (`fileManager`), an entry a name and an
open file, the operating system a directory and the bytes of each file. Lines of
text and records of eight bytes move the same position; a file may be erased, or
opened by another variable, while it is open; a file that could not be opened
again keeps one that is closed (`dead`). `Machine` extends it: its `io` is the
state of `Files`, and `CallBuiltin` makes the calls. Bytes are numbers, and
numbers in files have three of them.

### Source

What a program means, from its tree alone, and the reference to hold `Compiler`
and `Machine` against: names are bound to places, a value is whole, an
assignment replaces a value, an exception goes to the nearest `try` of the tree.
There are no instructions, no operand stack, no cells inside values and no jumps.
A text file is a sequence of lines, another one a sequence of values; numbers
read from text go up to `MaxNumber` (99).
Where the code is known to mean something else (see below), the programs of the
run avoid it.

### Snapshot

`snapEncoder` in its three passes - mark the cells that have a place, discover
what references lead to, write - and `snapDecoder` with its fix-ups, as
functions between states of `Machine` and what is written. Which machines may
be written, the counters that are kept and what a crash leaves are in `Durable`.

### Debugger

The requests of a client of the debug adapter, one action each, and the loops of
`Continue` and `StepLine` over the steps of a machine. A program is the code of
its routines with the line at which each statement begins. The server reads no
request while the machine runs (`serving`). Two history variables, the line begun
last and that of the last stop, are only there for the property.

The steps of the program (`Nexts`) are those within a routine, into one and back
from one. An exception that unwinds to a handler in a routine further out, and a
run-time error of an instruction that is neither a return nor a jump, are left out:
`BreakpointsStop` is about entering a line, wherever control comes from, and what an
error does to the session is what any halt does (`MayHalt`).

## The runs

Deadlock is checked in `fibers`, `exceptions`, `frames`, `durable` and `engine`: a
state without a successor would be an error, and the actions `Ended` and `Done`
are the ends that are meant. The others really stop - a text has been read, a
program has ended, a client sends no more - and say `CHECK_DEADLOCK FALSE`.

### Runs that pass

| run | what it shows | bounds |
|---|---|---|
| `fibers` (MCFibers, 363 thousand states) | `OnePlace`, `NoLostWakeup`, `DeadlockIsReal`, `Rendezvous`; the refinement `KeepsChannelPromise`; `ProgramEnds` | 3 fibers, a channel of capacity 1 and one asked for with -1, 2 values, 3 opcodes a fiber |
| `exceptions` (MCExceptions, 695 thousand) | `HandlersNested` for all programs, `HandlersExact` and `CleanupOnce` without jumps, `ActiveOnlyInCleanup` and `CleanupStarts` for structured programs | 2 routines deep, 2 statements nested in each, 2 handlers, cleanups of up to 1 statement, 2 values |
| `frames` (MCFrames, 830 thousand) | `FrameOnce`, `HandlerFrameLive`, `RefsLive`, with closures that escape | 2 fibers, 4 frames, 5 activations, 2 handlers a fiber |
| `durable` (MCDurable, 1.5 million) | `KeepsWorkflowPromise`, `StatesArePaused`, and no State of a program with fibers (`TypeOK`) | 3 scripts (plain; raising and using files; concurrent), 3 calls, 3 steps a script, heap and output limits of 1, 2 values of the bound variable, which are interchangeable (symmetry) |
| `engine` (MCEngine, 2.2 million) | `TableCurrent`, `UnknownIsForbidden`, `AnalyzeSuffices`, `CompletedRanToEnd`, `CancelIsPrompt`, `HostErrorOfThisRun`, `BindingsKept` | a capability that needs a database, the file system, a bound function, a script that uses all three and is not asked for the files, 2 runs of up to 3 steps, a look at the clock every 2 |
| `lexer` (MCLexer, 400 thousand) | `ReadsBack`: tokens, however laid out, are read as written, at their places; `NothingDropped`; `EveryTextEnds` | up to 3 of 21 tokens with one of 5 gaps or none between them, as far as the grammar allows it; mode directives; any text of up to 4 of 9 characters |
| `parser` (MCParser, 61 thousand) | `AcceptedMeansWhole`: an accepted text keeps its names, literals and `end`s in its tree, in their order, but for the places in `Forgotten`; `GroupsByLevel`: expressions are grouped by the levels of Turbo Pascal, or by the parser's where it ranks two of their operators otherwise; `StuckAtKeywordOnly` | 21 texts, every text one edit away (17 tokens typed over or inserted, one removed, the text cut off); expressions of up to 3 of 11 operators, with signs and `not` |
| `compiler` (MCCompiler, 26 thousand) | `CompiledMeansSource`, `StackBalanced`, `ValuesOwned`, `RestoresExactly` | 322 programs, 6 calls deep |
| `debugger` (MCDebugger, 22 thousand) | `BreakpointsStop`, `ResumeEnds` | a program of two routines and two loops, breakpoints on any of 4 lines, 7 requests, 28 steps |

Why the bounds are enough to be of interest:

- *fibers*: with three fibers, two can wait on one channel while the third
  sends, receives or closes; the buffered channel can be full with a sender
  parked and then drained; all three can block, and a closed channel can hold
  parked senders. Three opcodes each suffice to fill, park and drain.
- *exceptions*: two routines of two statements give a try inside a try, a try in
  a cleanup, an exception that leaves the callee's try for the caller's, and a
  raise in a cleanup. Two values tell an exception from the one it replaces.
- *frames*: four frames and five activations let a frame be recycled while a
  second fiber holds references, with its cells kept or replaced.
- *durable*: three calls let a State be made, resumed, and resumed once more
  from the older State with another script's run in between; each limit can be
  hit in the first and in the second segment.
- *engine*: two runs show whatever one leaves behind for the next; every
  call of the host can come before, between and after.
- *lexer*: no scan looks at more than two characters beyond its token, so that
  three tokens show each one between each two others; four characters contain
  every way in which a string, a comment or a number can break off.
- *parser*: an edit of a text that uses a construct puts each construct next to
  tokens that do not belong there; three operators of the parser's seven levels
  are each chain of weaker, equal and stronger ones. All 21 texts are accepted as
  they stand. They hold each place whose tokens the parser forgets, so that
  `AcceptedMeansWhole` fails when one of them is taken out of `Forgotten`.
- *compiler*: the groups of programs are products. Every statement stands around
  every other one; every way to end a try (to its end, by an exception, by one
  from a call, by recover and raise) inside `except`, `finally` or `defer` around
  every other; parameters by value and by reference given variables, elements,
  fields and pointers; Boolean expressions of calls that write, so that what is
  evaluated and in which order shows; numbers under pairs of operators; text files
made in several ways and read, by a variable of the same name or of another, in
several others; pairs of moves in a file of values; reading from a console whose
lines run out. Larger
  programs use objects, classes, variants, sum types, closures, operators, units
  and money. What the programs write depends on every branch they take.
- *debugger*: the program enters a line by a call, by a return into the middle
  of a statement, by jumps forwards and back, and stays on a line for a loop;
  seven requests are a launch and two rounds of setting breakpoints and running,
  in any order.

`CompiledMeansSource` compares what is written and how the program ends when it
does; `ValuesOwned` and `RestoresExactly` are looked at in every state, the
latter in each in which a builtin has just returned, where a machine pauses. The
operands and handlers of every path of the generated code are counted by
`StackBalanced`, once for each program, also on paths its run does not take.

Fairness. `ProgramEnds` is checked under `WF_vars(Next)`: the loops of
`VM.schedule` and `VM.runCurrent` have no condition but `vm.Halted` and the state
of the running fiber, so that as long as the machine has a step it takes one. No
fairness among fibers is assumed: the run queue is first in, first out, and that
is what the code guarantees (`TakesTurns`, proved in FibersProofs). `EveryTextEnds` assumes the same of the lexer's loop. `ResumeEnds`
assumes it of the loop in `Continue` and `StepLine` (`RunStep`) and of the answer
behind it (`Terminate`), and nothing of the client. The other runs check safety.

### Runs that find a disagreement

Each of these checks one sentence of the documentation or of a comment, which
the code does not keep. They are listed in PROJECT.json under "findings".

| run | sentence | what happens |
|---|---|---|
| `frames_captured` | a frame's locals are no longer referenced once it returns | a fiber's captured variable becomes a local of the next routine that gets the frame |
| `parser_hangs` | the parser performs basic error recovery | a record, a case, or a section cut off by the end of the text or a keyword is read for ever |
| `local_aliases` | aggregate assignment has Pascal value semantics | a record assigned to a local variable or a result is shared, not copied |


## The proofs

All theorems about a specification are of the form `Spec => []P`, or
`Spec => [][A]_vars` for the action properties (`BindingsKept`, `Rendezvous`,
`CleanupStarts`, `CleanupOnce`, `TakesTurns`, `ResumeProgresses`,
`ScanMoves`; the last three are no run's, whose number of properties is kept
small), or `Spec => Abstract!Spec` for the two
refinements (`KeepsChannelPromise`, `KeepsWorkflowPromise`). They hold for every
value of the constants that the named assumptions allow; those only give the
constants their types (`FibersAssumption`, `ExceptionsAssumption`,
`FramesAssumption`, `EngineAssumption`, `DebuggerAssumption`,
`DurableAssumption`, and `OffAssumption`: to have no machine is not a place in a
script), and say that there is a main fiber, a frame, a routine, and that limits
are not 0. Two theorems have a hypothesis of their own, `Escapes = {}` and
`CodesPlain`; see there.

**FibersProofs.** `TypeCorrect`; `NoWakeupIsLost`; `DeadlockVerdictIsReal`;
`EveryFiberInOnePlace`; `SendWaitsForReceive`; `ChannelPromiseKept`;
`FibersTakeTurns`.
`NoLostWakeup` is inductive together with the types: each branch of Send,
Receive and Close either finds no waiting partner or takes it off its queue.
`DeadlockIsReal` is not: that nobody can run when the queue is exhausted needs
that every runnable fiber is the running one or queued (`RunnableQueued`), and
that the verdict stays true needs that nothing moves once the machine has
halted (`VerdictFinal`). That no two parked fibers could serve one another is
then `NoLostWakeup` at that moment.

`OnePlace` is inductive with the types: the lemmas behind it say what Tail and
Append do to a sequence without repetitions, and that a fiber enters a queue
only in a step in which it leaves the place it had. The refinement maps a
channel to its buffer followed by the values of its parked senders
(`Line`). A step of the scheduler is a stutter, and each branch of Send,
Receive and Close is one step of `ChannelSpec`. Three of them need `NoLostWakeup`
in the state before: a value is handed to a parked receiver, or a channel with
parked receivers closed, when the line is empty; and a value that goes into the
buffer joins the end of the line, no sender being parked before it.

`FibersTakeTurns` (`TakesTurns`): each time the machine goes to another fiber,
the one at the head of the run queue gets it and every other moves up by one; a
fiber that is woken or spawned joins the end, and nobody leaves the queue in
another way. `dequeueRunnable` would drop a fiber that cannot run and overtake
with the next; by `OnePlace` there is none in the queue. This is the fairness
among fibers that `ProgramEnds` does without assuming.

**ExceptionsProofs.** For programs of every kind, with jumps and exits:
`TypeCorrect`, and `HandlersStayNested`: no handler outlives its routine and the
handlers of callees lie above those of their callers. The invariant (`IInv`) is the two
together: unwinding takes the call stack to the depth of the innermost handler,
which must exist, and must not be below that of a handler that stays. Returning
drops the handlers of the routine; nestedness says they are all on top.

For programs that do not jump out of try statements:
`HandlersAreTheOpenTries` (`HandlersExact`). That
the *set* of handlers is that of the open tries is not inductive, because a
step is decided by where the routine is, and popping by what lies on top. The
invariant `JInv` adds what relates the two: every handler was made at a place
the routine is still inside of, and the statement there is the try of its kind,
with its cleanup (`AllHeld`); every open try has its handler (`Covered`); handlers lie in the
order of depth and nesting (`Ordered`). So the top handler is the innermost open try,
and leaving a try by its end pops its own handler.

`CleanupsStart` (`CleanupStarts`) follows from `JInv` and what a step does: a step that
would leave a `try_finally` body without its cleanup is a return, which no
routine makes inside one, or an unwinding to a handler further out, when the
body's own would have been the innermost. `CleanupsRunOnce` (`CleanupOnce`) looks
back from the state after a step: each cleanup the program is inside of was
there before, no further from its end, or has come out of its own try body.
Returns and exits must leave no handler of the routine, the end of a body must pop
its own, and unwinding must find the try of the innermost one still open, also when
a builtin unwinds within a cleanup: that is `JInv` again. `ActiveMeansCleanup`
(`ActiveOnlyInCleanup`) follows the place that is unwinding through each of the six
kinds of steps (`StepsSorted`).

**FramesProofs.** `TypeCorrect`; `FramesServeOne` (`FrameOnce`): two routines
never share a frame; `HandlersPointAtLiveFrames` (`HandlerFrameLive`): unwinding
always lands in the routine that opened the try. The inductive invariant adds
`UsedFrames` (a frame on a stack or in the pool has served, so that a new one is
neither), `FiniteRefs` (sizes of frames are numbers) and `HandlersSorted` (the
handlers of a fiber have ascending depths). The last is what makes the drop of
handlers in `OPReturn`, which compares *frames* and stops at the first that is
another's, drop all that belong to the returning routine.

`VarParametersNeverDangle` (`RefsLive`): a reference that no closure has captured
is to a variable of an active routine. It needs `RefInv`: such a reference
always points *down*, to a frame strictly below the one that holds it on the
same call stack (`RefersDown`), so that its target is still there as long as its
holder is; and what a stored closure holds counts as captured (`StoredEscaped`).
`LocalsKeptWithoutEscapes` is the other side of the finding of the run
`frames_captured`: under `Escapes = {}`, that is, if no closure is kept beyond the
routine it was made in, `CapturesKept` holds. It needs that no two frames
have the same array of locals (`ArraysApart`).

**DurableProofs.** `TypeCorrect`; `OnlyPausedScriptsAreKept` (`StatesArePaused`);
`WorkflowPromiseKept` (`KeepsWorkflowPromise`): for any scripts, limits and old
States, and with crashes at any moment. `StatesArePaused` is not inductive: a
State is taken of the machine at the end of a call, and resuming makes a machine
of it. The invariant adds what holds of the machine meanwhile: unless the script
calls Suspend while it unwinds, it runs with nothing raised, nothing asked for
and no error, and if it halted suspended, without an error (`Clean`); and a
halted machine has a reason (`EndedSomehow`). The refinement maps a State to what
the script has done (steps, output, random numbers); lemmas show that each
instruction is a step `Advance` or a stutter, that a call that pauses is `Pause`,
and that `Resume` is `GoOn` to a place in `paused`.

**EngineProofs.** Every property of the run `engine`. The steps are first sorted
into five kinds (`NextCases`: a call of the host between runs, the beginning of a
run, the world outside, a step of the machine, the end of a run), and one lemma
says of each kind what it does (`HostMoves`, `BeginMoves`, `WorldMoves`,
`StepMoves`, `FinishMoves`); the proofs of the properties use those. Each needs an
invariant of its own:

- `UnknownIsForbidden`: the table a run meets is the one that the engine permits,
  and what a compiled source was asked for is in it as long as it runs
  (`CompiledRun`), since every call that changes the table waits for `Engine.mu`.
- `AnalyzeSuffices`: the functions that an analyzed source calls stay bound
  (`ReportsKept`); nothing unbinds one, and what is asked for is used.
- `CompletedRanToEnd`: a machine that halted without an error returned,
  suspended, or was cut short by a context that is done (`CleanHalt`), which
  `execLockedCtx` then looks at.
- `CancelIsPrompt`: the steps executed since the context was done are at most the
  steps since the last look at it, `steps % Cadence` (`LateInv`). It rests on a
  lemma about remainders (`NextRemainder`).
- `BindingsKept`: during a run, the variable of the machine and that of the host
  differ by the increases the other has not yet seen (`Balance`).

**DebuggerProofs.** `BreakpointsAreNotRunOver` (`BreakpointsStop`), for every
program, set of breakpoints and client: a statement of a line with a breakpoint
begins only if the machine was on that line already or has stopped there. The
inductive invariant (`DebuggerInvariant`) is that `curLine` is the line of the
program counter wherever the source map knows one (`Located`), and that this line
was begun, was stopped on, or has no breakpoint (`Known`). The lemmas about the
source map need that a bounded set of indices has a greatest element.

`ResumesComeToTheirAnswer` (`ResumeProgresses`) is what `ResumeEnds` rests on: while a request has
the machine run, each step is an instruction more, of at most `MaxSteps + 1` for
a launch however often the client resumes, or the message that the program is
over; and the loops are left only with a stop or that message. It needs that
a machine which has not halted has not used up its steps (`StepsLeft`).

**LexerProofs.** `ScansMoveOn`: in every text, every scan moves on and not behind
the end, which with the finite length of the text is the end of the loop.
`LexerInvariant` says that the tokenizer stands in its text or at its end,
`LexerEnds` that the token that ends the text comes once. One lemma per scan shows
that its token ends behind its first character; they rest on what `SkipFrom`
and `FindFrom` return, the least member of a set of positions.

`NothingIsDropped` (`NothingDropped`): in every text each token stands where its
line and column say, after the one before it, with its text, and unless an error is
reported only white space and comments lie between. The inductive invariant
`TextInv` says that line and column are those of `pos` (`Placed`: the line has
as many line feeds before its start, and none between it and `pos`), and that what
lies between the last token and `pos` is blank (`GapBlank`). That a line number
leads back to one place (`LineStartIs`) needs that the starts of lines have
different numbers of line feeds before them (`LinesApart`). Every scan is then
one of two kinds, `Skips` what is blank or `Writes` the text it moves over. The hypothesis
`CodesPlain` is that no code `#n` outside or inside a string has a leading zero
or more than 18 digits: `scanHashRef` writes such a code's text anew
(`"#" + itoa(num)`), and the code then does not promise the property.

**WrittenProofs.** `TextsReadBack` (`ReadsBack`): a text that the grammar of
`Written` takes for a row of tokens, of any number and with any white space and
comments between them, is read as exactly these, with their kinds, texts and
places, without an error and with one token that ends it. It has no hypothesis
besides the type of the variables; a text that is not such a row is what
`NothingDropped` is about.

The argument has three parts. The guards of the scans exclude one another
(`OneScanApplies`), since the characters that begin them do (`Apart`). Where a
token or a piece of layout stands, the scan that applies ends where it ends: one
lemma for each kind (`NameRead`, `IntegerRead`, `RealRead`, `HexRead`,
`StringRead`, `CodeRead`, `SymbolRead`, `WhiteRead`, `BracesRead`, `ParensRead`).
They rest on what the least of a set is when it is known (`LeastExact`, `SkipExact`);
the one about strings on `PairsInRun`, which shows that within a run of quotes every
second is the first of a pair, so that the first unpaired one is the last
(`QuoteCloses`). The invariant `ReadSoFar` then says how far the reading has
come: the tokens read are the first that were written, line and column are those of `pos`
(`Placed`), and from `pos` to the next token there is a gap. A step shortens the
gap by a piece of layout (`GapGoesOn`) or, where it is empty, reads the token.
So the induction over the tokens, for which the provers have no rule, is the one
over the steps. TLC checked `ReadSoFar` on the texts of the run `lexer` before
it was proved.

**Only model-checked:**

- Liveness (`ProgramEnds`, `EveryTextEnds`, `ResumeEnds`), which is beyond the
  prover. What is proved of it are the steps: `LexerEnds`,
  `ResumesComeToTheirAnswer`, `FibersTakeTurns`.
- Everything about the parser (`AcceptedMeansWhole`, `GroupsByLevel`,
  `StuckAtKeywordOnly`), the compiler with the machine (`CompiledMeansSource`,
  `StackBalanced`, `ValuesOwned`) and the snapshot (`RestoresExactly`): their
  operators are recursive, as the code is, and the prover has no induction over
  trees.


## What the code does otherwise than it says

Besides the runs above, these were seen while reading and modelling. Where a
model reaches it, the name of the model is given; no run checks them.

Exceptions and defer (`Exceptions`, `Machine`):

- `exit` and `halt` are a bare `OPReturn` (`codegen.go:610`): no `finally` and no
  `defer` runs, where `docs/en/defer.md:12` says that a deferred statement runs however
  the routine is left. `halt` in a routine ends only that routine.
- The first builtin that a cleanup calls while an exception is active unwinds again
  (`vm.go:994`): a deferred WriteLn cuts its cleanup short; `defer.md:69` says each
  routine's defers are executed.
- `break`, `continue` or `goto` out of a try leaves its handler until the routine
  returns (`codegen.go:620`); the comment at `vm.go:944` says handlers do not catch
  later, unrelated exceptions.
- An exception that is handled inside a cleanup clears the flag of the one that
  is on its way, which is then lost (`vm.go:346`).
- `try ... finally end` without statements is compiled as an empty `except` and
  swallows the exception (`codegen.go:1534`).
- Deferred statements run in the reverse order of the text, not of execution; one
  that raises skips the others; `defer` in `for ... in` does not compile. A label
  inside a finally is compiled twice and the second copy wins.
- `Suspend` in a cleanup is only remembered; a State of a halted machine is then
  returned (`vm.go:1001`, `durable.go:32`; `Durable`).

Values and names (`Compiler`, `Machine`):

- Every `and`, `or` counts as Boolean (`exprType`), so that `(x and 6) and 1` of
  integers short-circuits; `not` of an integer is a Boolean; division by zero is 0.
- A local or global variable hides the field of a `with` and of Self
  (`codegen.go:1503`, where the comment at 1565 and `compatibility.md:31` say the
  opposite); the record of a `with` is evaluated again at each access.
- Var parameters of methods and closures are passed by value, and assigning to
  one is run-time error 204.
- `for x in a` counts from 0 whatever the bounds of the array are; the bound of a
  `for` is evaluated in every turn.
- `free`, `destroy` and assertions used as expressions push nothing; `Inc(a[i])` and
  ranges in `case` do not compile; nested routines are not compiled; a routine named
  `main` is replaced by the program.
- `type B = A` of an object type gives A the name B; the globals and routines
  private to a unit share one space with those of the program; a label in the
  initialization of a unit makes the generator write to a nil map.
- `break`, `continue` and `exit` are not among the reserved words of the lexer, so
  that the parser's branches for them (`parser.go:1405`) are never taken;
  `compatibility.md:32` lists them as implemented.

Files (`Files`, `Compiler`):

- No failure is ever reported: `IOResult` belongs to the file routines of
  `rtl/system`, which those of `codegen/files.go` replace. After a failed `Reset` of
  an open file, reading from it gives empty lines.
- `Reset` opens for reading only (`files.go:90`): what is written to a file of values
  after it is lost.
- `Rename` has no effect: it is still the one of `rtl/system`, with another table
  of files.
- `Eof` without a file is always true, and so is `Eof` of a file that is not open.
- `Read` takes a whole line, as `ReadLn` does, and drops what is left of it.
- Calls of routines that a program names `assign`, `append`, `close`, `reset`,
  `rewrite`, `erase` or `rename` go to the file operations (`codegen.go:1064`); without
  arguments they make the generator panic at `c.Args[1:]`.
- A literal of one character written to a `file of char`, a string or money written
  to any file of values, is written as 0 (`scalarInt`).

Parser (`Parser`, all lines of `internal/parser/parser.go`). Accepted, read and
in no part of the tree, so that the program means what it would mean without it
(`Forgotten` in `MCParser`):

- the files of the program header (165-171); all `uses` of a block (418-423); the
  text between `asm` and `end` (1203-1209, 1422-1427); the statements after
  `finalization` (207-215); what follows the final period;
- the type of a property (902-904), the arguments of a generic type (483-492, 648),
  what the parameters of a generic type must be (470-471), the names and types of
  the parameters of a procedural type (979-1002), the selector
  of a variant part when a type follows without a colon (732-736), the lower names of `(a, b..c)` but the first (618-622);
- the name of an operator's result (1247-1249), and the result of an operator or an
  anonymous function that is not a type name of its own, `Integer` and `^T`
  included (1031-1035, 1250-1254); in a helper all but signatures (870-896);
- each `else` of a `case` but its last (1567-1570).

Also: `let` and `test` after a section are taken as names; `a[i, j]` is not parsed; a
unit's `begin ... end.` and a variant part without a selector (`case Byte of`) are
rejected; `inherited f(a,)` is accepted (1730-1740); code
words of `inline` and the symbol of an operator may be any token.

Operators are ranked otherwise than in Turbo Pascal, which
`docs/en/compatibility.md:3` names as the language: the parser has
`or` < `xor` < `and` < relations < `+ -` < `* / div mod` < `shl shr` (1751-1770), where
Turbo Pascal has relations < `+ - or xor` < `* / div mod and shl shr`. So `a = b or c` is
`(a = b) or c` here and `a = (b or c)` there, and `x and 1 = 0` is `x and (1 = 0)` here. A
sign belongs to the operand it stands before (1812-1818), there to the whole first
term. `GroupsByLevel` states the levels of Turbo Pascal and excepts the pairs in
`Departs`.

Durable execution, engine (`Durable`, `Engine`, `Snapshot`):

- A record among the operands while a builtin pauses is still shared with its
  variable and is written at both places; after reading it back, a pointer into the
  variable leads to the operand. Of the programs of the run none has both;
  `q := @g.a; p(g, Length('s'))`, with a suspending function for Length, has.
- After a resume, the audit log starts with what the engine's last call left in
  it, also of another script (`durable.go:80`); `audit.go:22` promises the calls of
  the most recent run.
- The count of heap allocations is not in a snapshot: `MaxHeap` bounds each
  segment, `MaxSteps` and the output the whole workflow.
- A file variable that was closed is still a file value, and the encoder refuses
  it (`snapshot.go:378`); `docs/en/durable.md:142` speaks of open files.
- When the machine's own look at the clock comes before the context's timer, a
  run ends with run-time error 200 and not with `ctx.Err()` (`vmpas.go:377`). A Go error
  that the script caught is reported for a later failure of the run (`vmpas.go:381`).
- A source that uses files compiles without `FileSystem` and fails at run time
  with error 3, where `docs/en/vmpas.md:239` says a compilation error: the generator
  emits the calls of Assign, Reset, Rewrite, Append, Close, Erase, Rename, `__fwrite`,
  `__fread` and their like without asking (`codegen.go:1064-1141`); the test
  `TestSandboxBlocksFileSystemByDefault` (`vmpas_test.go:111`) takes either error. The
  names that begin with `__f` are registered by `registerFileIO` (`codegen/files.go`)
  only, which `vmpas` does not call: writing to an open file fails with error 3 also
  when `FileSystem` is granted.
- So does a Script that was compiled before a capability was withdrawn.
- A bound Go function that calls its own engine waits for `Engine.mu` for ever.
- A context that is done before the run begins still lets a script of fewer than
  4096 steps run to its end; the result is then the context's error.
- The SQL cursor of a run is forgotten, not closed, when the script ends before
  `DbClose` (`vmpas.go:368`).

Debugger (`Debugger`): breakpoints set before `launch` are reported as verified and
dropped; the initializations of units do not run; a program with fibers ends the
adapter (`vm.cur` is nil); coming back into the middle of a statement stops there a
second time; `continue` after the end is answered with "terminated" again; a failed
launch keeps the old program under the new file name.

Elsewhere: `Reserve` of the Turbo Vision memory manager calls `OnLowMem` with its
mutex held (`tv/memory/memory.go:46`); `GetKeyEvent` discards mouse events,
`GetMouseEvent` keys; in the IDE, an edit after the text was replaced by an empty
one finds the cursor outside of it.


## What is left out

- Of the language: real numbers, and directives other than the mode. Channels and fibers are in `Fibers`, but not compiled.
- Of the machine: instructions that no generator emits (OPNew, OPIndex, OPAndSC and
  others).
- `sem`: only the conformance tool and its own tests run it.
- The language server, the IDE, the units and Turbo Vision: one goroutine each on
  its own state; see [the plan](#the-plan) and "components" in PROJECT.json.
- The 8086 back end and the file formats (`codegen8086`, `mz`, `omf`, `tpu`): no
  behaviour over time, and not used to run programs.
- Calls of the operating system, of HTTP servers, databases and JSON: the Go
  library's.
- Wall-clock time: a deadline is an event that may come at any step.
