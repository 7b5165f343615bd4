# A TLA+ model of REIR

REIR is a small language for database programs. `reirc` reads a program,
tokenizes and parses it, analyses it, generates LLVM code for it, and runs that
code on the FOEDUS storage engine; the schemas of tables are kept in LevelDB.
This directory holds TLA+ modules for the parts of REIR that have logic of
their own, TLC configurations that check them on small instances, and TLAPS
proofs of the properties that matter most for instances of every size.

Paths below are relative to `src/src/reir/` unless they begin with `src/`.
`PROJECT.json` gives, for every definition, the lines that it models.

## Inventory

| Part | State | Operations | Module |
|---|---|---|---|
| Session: a running program over FOEDUS (`engine/foedus_interface.cpp`, `engine/foedus_runner.cpp`, `exec/db_interface.cpp`) | FOEDUS's transaction and write set, stored and durable records, cursors, `outputs_` | `begin_xct`, `foedus_insert`, `precommit_xct` with `wait_for_commit`, the cursor functions, `emit`, start, exit, crash | `Session` |
| Tables as keys and values (`exec/ast_statement_codegen.cpp`, `db/schema.hpp`, `db/attribute.hpp`) | one Masstree for all tables | the code of define, insert and scan | `TableStore` |
| Tokenizer (`exec/tokenize.hpp`, `exec/token.hpp`) | position, lexer state, pending token, tokens | one per class of character, end of text | `Tokenizer` |
| Parser (`exec/parser.cpp`, `exec/ast_*_parser.cpp`) | token index, call stack, trees | one per constructor or test | `Parser`, `ParserTrees` |
| Compiler passes, catalogue and JIT (`exec/compiler.cpp`, `exec/compiler_context.*`, `exec/ast_statement*`, `exec/ast_node.cpp`, `db/metadata.cpp`) | maps by name in `CompilerContext`; `tables_`; LevelDB; the modules of the JIT; the rows programs leave behind | `analyze`, `alloca_stack`, `codegen` of each statement; `create_table`; `add_module`, `find_symbol`, `removeModule`; restart | `Compiler`, `Rows` |
| Types of expressions (`exec/ast_expression.hpp`, `exec/ast_expression_codegen.cpp`, `exec/ast_node.*`) | types of variables and of expressions | `analyze`, `get_type`, `get_value` of each expression | `Expressions` |
| Control flow of generated code (`exec/ast_statement_codegen.cpp`, `exec/ast_expression_codegen.cpp`) | basic blocks, insertion point, `loop_` | `codegen` of if, for, scan, jumps; `get_value` of `&&`, `\|\|` and rows | `Codegen`, `CodegenRuns` |
| Tuple codec (`db/attr_type.cpp`, `db/attribute.cpp`, `db/schema.hpp`, `db/maybe_value.hpp`, `db/value.cpp`) | a buffer, values that may be shared | `encode`, `encode_key`, `encode_value`, `decode`, `serialize`, `deserialize` | `Codec` |
| Text form of schemas (`db/schema.cpp`, `db/attribute.cpp`, `db/attr_type.cpp`, `db/metadata.cpp`) | a text, the position of its stream, what was read | `serialize`, and `deserialize` step by step | `SchemaText`, `Texts` |
| Interpreting executor, `LevelDBCompiler`, `FoedusCompiler`, `db_handle` | - | mostly stubs, not reached from `reirc` | none |
| Optimiser, command line, slices | LLVM's | calls of LLVM, reading a file, pointers and lengths | none |

How they interact:

- text -> `tokenize` -> `TokenStream` -> `parse` -> trees -> `Compiler::compile`,
  which runs `analyze`, then `alloca_stack`, then `codegen` over all statements;
- the passes talk to each other through maps of a `CompilerContext` that are
  keyed by name and have no scopes;
- `Define::alloca_stack` writes the catalogue while the program is *compiled*;
- the generated code calls the C functions of `db_interface.cpp`, which call
  FOEDUS. It discards everything they return;
- nothing in the repository catches an exception: an error in any pass ends the
  process.

What is hard here, and what makes each part correct:

- **Session.** A single worker thread, but FOEDUS's logger makes commits durable
  on its own, a process may die at any point, and every error code is dropped. A
  transaction must be all or nothing; what a program builds on must survive a
  crash; keys must stay unique; cursors must be freed; the wait at the end of a
  transaction must end.
- **TableStore.** All tables share one ordered tree; which rows are whose is a
  matter of key prefixes and of a range whose end is made by incrementing one
  byte. Insert and scan compute column offsets separately.
- **Tokenizer, Parser.** Hand-kept positions and lengths; a parser that must
  neither lose a token nor stop making progress.
- **Compiler.** A name is looked up in three passes at three times. What each
  pass finds must be the same declaration, and a column's position must mean the
  same in the declared type, the stored schema and the row of a scan. All
  programs' functions have one name in the JIT. The catalogue and the rows live
  longer than a program and longer than a process.
- **Expressions.** Three functions compute the type of an expression and nothing
  makes them agree.
- **Codegen.** Blocks, branches, phis and the stack of loops are kept by hand.
- **Codec, SchemaText.** Lengths and offsets are counted twice; buffers are used
  again; delimiters may be part of what they delimit.

`PROJECT.json` lists the single hazards under `hazards`, each with its line and
the properties that would show it going wrong.

## Modules

Each `MC*` module gives the constants of one of these their values for TLC.

**`Session`** is the program at run time. `frames` is the stack of statements
that are being executed, so that each behaviour is the run of some program: the
next statement is any that the grammar allows there. `xct` and `writes` are
FOEDUS's transaction, `store` what is committed in memory and `durable` what the
log holds. Its actions are the statements (`Transaction`, `TransactionEnd`,
`Insert`, `Scan`, `ScanNext`, `ScanFinish`, `For`, `Jump`, `Emit`), FOEDUS's
`LoggerFlush`, the return of `wait_for_commit`, and `Start`, `Exit`, `Crash`.
`TransactionEnd` is `precommit_xct` up to the wait; the wait is a state of its
own, because the process can die in it. A failing `begin_xct`, `insert` or
`precommit` goes on with the next statement, as the generated code does. The
constants `NestTxn`, `JumpTxn` and `JumpScan` say which programs are considered:
with transactions in transactions, with `break` or `continue` out of a
transaction, out of a scan. FOEDUS is external and modelled by the outcomes that
the interface tells apart. When `precommit_xct` fails, the code still calls
`wait_for_commit`, with the default epoch; that call is taken to return at once.
Five variables are histories, which the code does not have: the rows whose insert
was not refused (`acked`), the transactions that printed success (`success`), those
for which `precommit_xct` was called (`closed`) and has returned (`finished`), and
`mixed`, those that shared a FOEDUS transaction with another: the statements around
a nested one, and one whose `begin_xct` failed because a transaction was still open.

**`AtomicStore`** is the abstract specification: a set of committed records, the
part of it that is hardened, and transactions that commit whole, once, or abort.
A crash takes the committed records back to the hardened ones. `Session` refines
it with `committed <- store`, `hardened <- durable`.

**`TableStore`** has the bytes: keys and values as `Insert::codegen` copies them,
ranges as `Scan::codegen` opens them, rows as it loads them. What is read
beyond the bytes that were written is a `Garbage` byte. Transactions are left to
`Session`. `Overlaps(n, u)` says exactly for which names a scan of `n` may meet
rows of `u`; `Aligned` says for which layouts insert and scan agree on offsets:
`default_size` of a nullable column is 9, and the strides of scan are 8.

**`Tokenizer`** has one action per class of character and lexer state, with
`add_token`, both exceptions and the `abort` of `operator_token`.

**`Parser`** keeps the C++ call stack in `todo` and the trees in `ast`; one step
is one test of the current token with all that follows from it. The source is
revealed token by token as the parser asks for it, which makes all programs over
a vocabulary cheap to cover. **`ParserTrees`** walks accepted trees (recursively,
so it is for TLC only).

**`Compiler`** compiles, links and runs one program after another, with
`tables_`, LevelDB, the JIT and the stored rows living on and restarts at any
point. A program is the sequence of its statements in the order of
`each_statement`; the maps of the `CompilerContext` are variables, the members
that the passes leave in the trees (`types_`, `offset_`, `key_stack_`, ...) are
functions of the statement. A schema is the sequence of its columns with type,
key and nullable. Each statement has one action per pass, with its exceptions
(`Throw`) and the places where it follows a null schema, indexes beyond the
columns or calls with the wrong arguments (`Undefined`). `AddModule`, `Run*` and
`Finish` are `compile_and_exec`; `running` is what `find_symbol` finds. A failed
program ends the process (`Restart`). **`Rows`**, which it extends, has the pure
part: the schema that `Define` makes of columns, the sizes and offsets that insert
and scan compute from it, and the bytes that they move. A byte of a stored row is
the number of the byte of the literal that it comes from (`InsertBytes`,
`ScanBytes`), so that two rows need no values to be told apart. **`Sums`** has the
loops over columns that add up numbers and append sequences.

**`Expressions`** builds programs bottom-up, each expression with four things:
the type `analyze` gives it, the LLVM type `get_type` gives its slot, the LLVM
type of what `get_value` emits, and `want`, the type the language gives it (`Ill`
when it has none). Malformed code and undefined behaviour are `Bad`, an
exception is `Throws`. Some expressions have a meaning and are not compiled. They
are marked as `gap`, each by a disjunct at the construct that the passes do not
follow through:

- `&` applied to a member: `PointerOf::analyze` is empty, and the member has
  neither type nor offset; a member in an array literal, but for its first element;
- a postfix on what is not a variable, `f(x).a` or `x[1][2]`: the index loses what
  it is applied to, and a member of it is a null pointer;
- `+` and `<` of strings, which `operate` types and for which there is no code;
- a truth value in a variable, a row or an array: its slot is an `i64`, its value
  an `i1`;
- an integer as the condition of a `for`, which only `if`, `&&` and `||` convert;
- in the third clause of a `for`, an argument that needs a stack slot, and a row
  literal whose struct type no statement has made;
- the rows of two scans, in one array or assigned to each other: each scan makes a
  struct type of its own.

**`Codegen`** emits basic blocks for a program, and **`CodegenRuns`** runs the
finished blocks on every sequence of answers to the program's tests and compares
the trace with that of an interpreter of the source. A clause of a `for` that is
left out is whatever the memory held: the compiler either follows it
(`ForUnset`) or happens to find null. A row emits each element twice, as
`RowLiteral::get_value` does. A block with code after a
`break` or `continue` has a branch in its middle; it is read as leaving the
block there.

**`Texts`** has the text that `Schema::serialize` makes of a schema, a sequence of
characters, and what is found at a position of a text: `Fields` has one search for
each loop of `Attribute::deserialize` and `AttrType::deserialize`, which move one
stream. **`SchemaText`** extends it with the steps: `create_table` stores the text,
`get_schema` reads it back, attribute by attribute. **`Codec`** extends that: with the schema that was read back
it encodes a tuple byte by byte into a buffer that may have been used before,
then decodes it into cells that may share a `Value` implementation (copies of a
`Value` share one). The operation `serialize` is the one of `MaybeValue`.

## Runs

| Run | What it checks | Result |
|---|---|---|
| `session` | `TypeOK`, `ContinueDurable`, `KeysUnique`, `UnmixedAtomic`, `WaitEnds` | all programs: holds, 749,973 states |
| `session_flat` | `FinishedTransactionsAtomic`, `FlatInv`, `OutputsJustified`, `CursorsReleased`, `ImplementsAtomicStore` | no nesting, no jumps out of a transaction or scan: holds, 96,703 states |
| `session_success` | `SuccessImpliesDurable` | violated |
| `store` | `ScanCovers`, `ScanIsolated`, `ScanExact`, `RefusedOnlyDuplicates` | holds, 114,416 states |
| `store_scan` | `ScanOwnRowsOnly` | violated |
| `tokenizer` | `Covered`, `Ordered`, `Munch`, `RowsRight` | holds, 225,440 states |
| `parser` | `AcceptedTreesFit`, `AcceptedBracketsNest`, `AcceptedTreesKeepTokens`, `ParseEnds` | holds, 158,952 states |
| `parser_minus` | `SubtractsFromLeft` | violated |
| `compiler` | `BuffersFit`, `EmitReadsNearest`, `MembersAgree`, `UsesOwnTables`, `LocalIsStored`, `RunsOwnCode`, `RowsFit`, `RowsReadBack` | holds, 111,858 states |
| `codec` | `SchemaReadsBack`, `WithinLength`, `RoundTrip` | holds, 212,639 states |
| `expressions` | `PassesAgree`, `MeaningfulCompiles` | holds, 451,494 states |
| `codegen` | `StopsOnlyAtFaults`, `EmittedForRows`, `PhisMatch`, `BlocksEnd`, `RunsAsWritten` | holds, 19,271 states |

What they show, with the conditions that the code needs:

- A program that is not waiting runs over durable records only, because
  `precommit_xct` waits for the log: the `FIXME: eliminate it` behind that wait
  (`foedus_interface.cpp:124`) would give up `ContinueDurable`.
- Keys stay unique in *every* program, including ones that nest transactions or
  jump out of them. Atomicity of all transactions and the refinement of
  `AtomicStore` need programs that do neither: an inner transaction's `precommit`
  commits the outer one's rows, and a jump leaves a transaction open. But the harm
  stays with the transactions that came to share one of FOEDUS's
  (`UnmixedAtomic`): any other in the same program, before, after or innermost of
  nested ones, has all its rows durable once `precommit_xct` has returned success,
  or none, and no exit or crash changes that. It holds because `precommit_xct`
  ends FOEDUS's transaction and empties the write set also when it fails.
  `CursorsReleased` needs programs that do not jump out of a scan.
- What a program has emitted is durable, or of a transaction that was not
  reported a success, in programs that neither nest transactions nor jump out of
  them (`OutputsJustified`). With both it fails, and it takes three transactions:
  the first inserts a row and emits it from a scan, the second, inside it, fails
  in `precommit` and takes the write set with it, the third is left by a `break`
  with FOEDUS's transaction open, and the first then commits that one and prints
  "success." without its row.
- A scan always covers its table. It meets other tables' rows only when their
  names overlap, and returns the inserted rows where the columns are aligned.
- Tokens are the maximal-munch lexemes of the text, told by a definition that
  does not look at the algorithm. Rows are right except for identifiers, which
  are given their column, and after string literals that span lines.
- The parser ends on every input but one with a stray `}` at the top, on which
  it loops. The members it can leave null or unset are those that
  `AcceptedTreesFit` names.
- Buffers and slots fit unless the program defines the table again, or declares
  the variable again, further down: then the last declaration wins for all uses.
- `r.c` reads the column that the schema calls `c`, unless the table has a column
  of a type that is not stored (`MemberReference::analyze` counts it,
  `Define::alloca_stack` leaves it out) or a tuple or a variable took the table's
  name in the table of types (`MembersAgree`).
- The one symbol that all programs share is that of the program just compiled,
  because each module is removed after its run and a process does not survive an
  exception; no program that calls `drop_table` gets to run (`RunsOwnCode`).
- Stored rows fit the buffers of a scan as long as their table was never defined
  with other columns, by this program, an earlier one or an earlier process:
  nothing compares a row with the schema that it is read by (`RowsFit`). Under
  the same condition a scan reads back every column down to the first one that is
  of the key while a nullable one above it is not, or the other way round, and
  not that one: an insert counts nine bytes for a nullable column and a scan eight
  (`RowsReadBack`).
- The text of a schema is read back exactly when the table's name has no `:` and
  no column's name a space (`SchemaReadsBack`); parentheses do no harm. The
  tokenizer makes no such identifiers, but `MetaData` takes any string.
- The compiler follows a bad pointer only for a jump outside every `for` or for a
  first or second clause that was left out, and always for the former
  (`StopsOnlyAtFaults`). If a missing condition happens to be null, the block
  `for_begin` is left without a terminator (`BlocksEnd`).
- What is in a row is emitted twice, and 2^d times at a depth of d rows: a call or
  an assignment there runs as often (`EmittedForRows`).
- A tuple survives encoding and decoding if no column follows a string, nulls
  are written to a cleared buffer, and the target's cells do not share a value; a
  serialized cell always does, read as what it is. Lengths are enough but for
  the `size_t` in front of a string, in `encoded_length` and `serialized_length`.
- Of the programs of up to six nodes whose every part has a meaning, those
  without a gap compile to well-typed code, and those with one never do: the
  compiler throws, fails or hands LLVM a malformed instruction
  (`MeaningfulCompiles`). `PassesAgree` says the same of each expression, so that
  no gap is compiled into something other than what it means.

Many of these properties hold under a condition because the code has a defect
where the condition fails. They say that the defect goes no further: each would be
violated by the same fault in one more place. The `note`s of the hazards in
`PROJECT.json` say for which hazards this is so.

The violated properties are what the repository's documents say:

- `session_success`: "success." is printed before `wait_for_commit`, so that a
  crash loses a transaction that was announced; `src/design.md:47` has the user
  notified when the epoch of the acknowledged logs is incremented.
- `store_scan`: the range of a scan of `t` is `["t:", "u:")`, which also has the
  rows of tables such as `ta`; the document's full scan is
  `SELECT b,c FROM foo` (`src/doc/IntermediateRepresentation.md:179,193`).
- `parser_minus`: `8 - 1 - 2` is `8 - (1 - 2)`; the document says 5 (`:127`).

Disagreements that were met and that the models contain, without a run of their
own: `drop_table(hoge)` (document, line 52) compiles in no program, its argument
being analysed as a variable, and the call having one argument too few; below a
table called `integer`, `int` columns are left out of schemas; an index of
anything but a variable loses what is indexed (line 87); an array literal of
mixed types passes `analyze` (line 92). Much of the document stands below its
line "Not implemented border" (63) although the code implements it.

## Bounds

- **Session:** two keys and a write set of two (which can be full). For all
  programs three transaction statements, so that one can follow, or be inside,
  two that were mixed, nested two deep, with one cursor; `outputs_`, which no
  guard depends on and of that run's properties only `TypeOK` reads, is left out of
  the states that are told apart (`VIEW WithoutOutputs`). A depth of three, that is a loop
  with a transaction or scan in it and a statement inside that, was checked once
  with 10,044,519 states. For programs without nesting and jumps two transaction
  statements, three deep, with two cursors: enough for one to disturb the next
  with a crash before, between and after. The theorems below have no such bounds.
  Symmetry over the keys is used where no liveness is checked.
- **TableStore:** the names `a`, `ab`, `a9`, `b`, `b1` (a pair for each way in
  which ranges may meet, and a neighbour that they may not reach), five layouts of
  two columns for the table `a` and one for the others, two tables at a time,
  two rows, the values 1 and one whose bytes are all `:`, two garbage bytes.
- **Tokenizer:** all texts of up to five characters over `"`, newline, `(`, `=`,
  `!`, `1`, `i`, `F`: a character of each class, a pair of operators that join
  and one that aborts, the reserved word `IF` in any case. Every pair of lexer
  states that can follow each other does so with context on both sides.
- **Parser:** for each part of the grammar all programs of five to eight free
  tokens over a vocabulary of that part.
- **Compiler:** three workloads. *use*: a define followed by any one or two of
  thirteen statements, or by up to three about one variable, and programs that
  only define a table or only use one; any number of them in sequence, with restarts: two programs
  are what it takes for one to disturb the next, and a define, a use and a
  define or declaration below it for a pass to find another one's entry. *type*:
  six lists of columns (stored, left out, unknown, not to be scanned) with the
  name of the table or of a built-in type taken before, after, or not, and a
  member, a scan or an emit below. *row*: every table of three columns, key or
  not and nullable or not, with rows of two or three elements that this program
  or an earlier one inserted.
- **Codec, SchemaText:** all schemas of one or two columns with every type and
  the properties that the codec tells apart, three-column schemas of integers,
  names that hold each delimiter in a place where it is looked for, two integers
  that differ in their first and last byte, an empty and a two-byte string, clean
  and used buffers of `Room` = 40 bytes (more than any of these needs; strings
  stay below 256 bytes).
- **Expressions:** programs of up to six nodes, two variables, at most three
  operands on the stack. Each variable is declared once.
- **Codegen:** 978 programs: conditions two operators deep, statements three
  deep, rows in rows, a `for` without its first or second clause, jumps without
  a `for` around them, run on all sequences of seven answers.

Deadlock is checked for `Session`, `TableStore` and `Compiler`. The others model
an operation that ends, after which nothing follows.

## Fairness

`Session` assumes weak fairness of `LoggerFlush` and of `wait_for_commit`:
FOEDUS's loggers are threads of their own that run while the engine does, and
`wait_for_commit` is a blocking call that returns once the epoch is durable. The
program itself is not assumed to go on. `WaitEnds` then says that a wait ends, or
the process dies in it. `Parser` assumes weak fairness of its step: it is a
sequential function.

## Proofs

TLAPS proves the following for every value of the constants that meets the
modules' `ASSUME`s: any set of keys, any names, layouts and texts.

| Module | Theorems | Inductive invariant |
|---|---|---|
| `SessionProofs` | `TypeCorrect` | `TypeOK /\ CursorBound`: `cursors` stays a natural number because a scan being executed has its cursor |
| | `CursorsAreReleased`, if not `JumpScan` | itself, with `TypeOK` |
| | `LogAhead`, `ContinuesOverDurable` | `LogInv`: only a commit gets ahead of the log, and the worker then waits |
| | `KeysHold`, `KeysAreUnique` | `KeysInv`: the write set has no key twice and none that is stored, so that adding it to the store keeps keys unique |
| | `MixedHolds`, `UnmixedAreAtomic` | `MixedInv`: of the open blocks only the innermost may be unmixed, and then FOEDUS's transaction is its own, with exactly the rows whose inserts were not refused; one that failed has left nothing in the store or the write set; the one that waits has its rows committed |
| | `FlatPrograms`, `XctFollows`, `WritesAreOwn`, `FinishedAreAtomic`, `FlatImplementsAtomicStore`; all if neither `NestTxn` nor `JumpTxn` | `FlatInv`: at most one transaction block is open, FOEDUS's transaction is open with it, the write set is what its inserts returned true for, and the stored rows are those of successful transactions |
| | `OutputsAreJustified`, under the same condition | `ShownInv`: what a cursor shows, `tuple_stack_` holds or `outputs_` has is durable, in the write set, or of a transaction that was not a success |
| `TableStoreProofs` | `TableTypeCorrect`, `KeysArePrefixed`, `ScanCoversTable`, `ScanIsIsolated` | `KeyInv`: a stored key is its table's prefix and bytes; two lemmas on the order of byte strings (`OwnKeys`, `ForeignKeys`) then give the range properties |
| | `RecordsHoldRows`, `OnlyDuplicatesRefused` | `RecordInv`: each record's bytes are those copied from the row it was inserted for; columns take disjoint consecutive segments of a key or value, so that equal keys come from equal key columns |
| | `ScansAreExact` | `ScannedInv`: the rows of the last scan are the records in its range as decoded; with aligned columns the offsets of insert and scan agree |
| `TokenizerProofs` | `TokensGood`, `TokenizerTypeCorrect`, `TokensCover`, `TokensOrdered` | `TypeOK /\ GoodInv`: the pending token ends where reading stands, and the tokens made cover and do not pass the text before it |
| | `TokensAreLexemes`, `TokenizeMunches` | `MunchInv`: the tokens made are the lexemes that end before the pending token, in their order and with their types, none of them malformed; the pending token starts a lexeme and its characters are all of the class of the lexer state |
| | `RowsAreLines`, `TokensOnTheirLines` | `LineInv`: `row` is one more than the ends of lines before the position that stand outside literals, and so is the row of each token but an identifier |
| `CompilerProofs` | `PassesInOrder`, `CodeIsOwn`, `CompiledSchemasAreStored` | `PassInv`: a map is empty before the pass that fills it, and the JIT has a module exactly while a program runs |
| | `ReservedRight`, `TablesAreOwn` | `ReserveInv`: of the statements `alloca_stack` has passed, the maps hold the last declaration of each name, and each buffer is of the nearest one above; a `for`'s initialiser is passed before its turn |
| | `CodeRight`, `BuffersAlwaysFit`, `EmitsReadNearest` | `CodeInv`: the code of each statement uses what the maps held when `alloca_stack` was through; what the use finds and what was reserved differ only if something below declared the name again |
| | `ResolvedRight` | `ResolveInv`: of the statements `analyze` has passed, each table and tuple has its columns, the table of types has those of the last `define` of a name that nothing else took, and a member has the place of its column among those declared |
| | `PlacedRight`, `MembersAlwaysAgree` | `PlaceInv`, on top of those above: a scan has the stored columns of the last `define` above it, a member's variable the slot of the nearest declaration, and each schema in use was stored |
| | `RowsMadeRight`, `RowsAlwaysFit`, `RowsAlwaysReadBack` | `RowInv`: every row in the store is what `InsertBytes` makes with a schema that was stored for its table. What remains is about data: offsets and room are sums over the columns above, and two of them are equal, or nine and eight bytes apart, by induction over the columns |
| `ExpressionsProofs` | `SoundTyping`, `PassesAlwaysAgree`, `MeaningfulAlwaysCompiles` | `SoundInv /\ MeaningfulCompiles`: as long as nothing has stopped the compilation, an expression or variable that has a meaning and no gap is typed alike by `analyze`, `get_type` and `get_value`, down to the elements of arrays and the members of rows, with the stack slots of its calls reserved; and `get_value` fails for one with a gap |
| `CodegenProofs` | `PhisAlwaysMatch` | `CodegenInv`: of each phi that is or will be emitted, the blocks that branch to its place are those it names; the places that the tasks in `todo` still have to fill are disjoint, none of them is branched to by anyone else, and `loop_stack_` has one entry for each `for` in `todo`, in the same order |
| `CodecProofs` | `EncodesWithinLength`, `DecodesWhatWasEncoded` | `CodecInv`: the columns encoded so far stand in the buffer at the offsets that both loops compute, the bytes after them are still those it was filled with, and the columns decoded so far are the tuple's |
| | `SchemasReadBack` | `Reading`: the stream stands after as many columns of the text as were read, if no name has the character that ends it, and otherwise a name that was read is cut short of it |

The properties are not inductive on their own. That what runs is durable says
nothing of a store that is ahead of the log while the worker waits
(`ContinueDurable`), and that stored keys differ says nothing of the write set
that is about to join them (`KeysUnique`). That finished transactions are whole
says nothing of the one that is open, nor of rows that a failed one might have
left in a write set for the next to commit (`UnmixedAtomic`). That the tokens of a finished text are
its lexemes says nothing of a token that is being read (`Munch`), that finished
phis match nothing of the branches that are still to come (`PhisMatch`), and that
a row fits a scan nothing of the schemas that the insert and the scan, perhaps of
different processes, took their offsets from (`RowsFit`).

`FlatImplementsAtomicStore` shows that the initial states of `Session` are ones
of `AtomicStore` and that each step is one of its steps or a stutter: a commit
is `Commit` with the write set as its records, a failed one `Abort`,
`LoggerFlush` and the flush at exit are `Harden`, and a crash is `Crash`.

Rows and the text of a schema need induction over the columns of a schema of any
length, besides the one over steps. It is in `DataProofs`, which extends `Rows` and
`Texts` and has no variables. Its lemmas `Least` and `Induction` get induction from
the well-foundedness of `<` on the natural numbers, taken for a set of numbers, and
each recursive function is shown to have the values of its defining equation before
it is used. What the other modules take from it is that the columns of a schema are
those declared if all of them are stored, that the rooms and offsets of a row agree
or are a byte apart where `RowsFit` and `RowsReadBack` say so, and `TextRead`: the
parts of a schema stand in its text where the searches find them, numbers being read
as they were written, digit by digit.

`CompilerProofs` and `CodecProofs` first prove their steps from these facts as
hypotheses (`SchemasKept`, `RowsLaidOut`, `TextsRead`). At their end they have
`DataProofs` as an instance `R`, show that its operators are theirs, and so discharge
the hypotheses; the theorems that follow have none.

The assumptions that the theorems rest on are those of the modules: the name
of a table is not empty, has no `:` and does not end in the byte 255, of which the
scan would make the next name by adding one (`TableAssumption`); a
program is made of the statements that the parser makes (`ProgramsAssumption`,
`NodesAssumption`, which lets statements nest in any way); strings that are encoded
are shorter than 256 bytes, so that their length is one byte followed by zeros
(`CodecAssumption`); and in the text of a schema names are sequences and the lengths
of columns have at most two digits (`SchemaAssumption`).

Only model-checked are:

- liveness (`WaitEnds`, `ParseEnds`), which is out of the prover's reach;
- `AcceptedTreesFit`, `AcceptedBracketsNest` and `AcceptedTreesKeepTokens` of
  `Parser`, and `StopsOnlyAtFaults`, `EmittedForRows`, `BlocksEnd` and `RunsAsWritten`
  of `Codegen`: they are stated in `ParserTrees` and `CodegenRuns` with `RECURSIVE`
  operators over trees, which the prover does not handle.

Every other property of a passing run is proved.

## What is not modelled

- FOEDUS, LevelDB and LLVM themselves: only the outcomes that the code tells
  apart. `foedus_scan` and `update`, which no generated code calls.
- In `Compiler`: blocks are written flat, in the order of `each_statement` (their
  control flow is in `Codegen`); a block as the initialiser of a `for`, whose
  statements `alloca_stack` does not visit; a scan's row variable called as a
  built-in type; strings in the layout of rows (`TableStore` has columns of any
  length).
- In `Expressions`: doubles and dates (there are no literals of them).
- In `Codec`: values of type FLOAT, eight bytes that are copied as an integer's
  are, and the types DATE and UNKNOWN, for which `AttrType::encode` throws as it
  does for DOUBLE.
- In `Session`: a jump outside every `for`, which does not compile (`Codegen`).
- The interpreting executor (`executor.cpp`, `storage.cpp`, `tuple.hpp`), the other
  front ends (`leveldb_compiler`, `foedus_compiler`), `db_handle` and the second
  copy of the slices (`util/slide.hpp`): not reached from `reirc`, mostly stubs.
- The command line, LLVM's helpers and its optimiser pipeline, the slices, node
  dumps and printing: without state that a property could be about.

## Plan

The order was: `Session` with `AtomicStore` and its proofs, being what a user
relies on; `TableStore`, which says what those records are; then the path of a
program towards them, `Tokenizer`, `Parser`, `Compiler`, `Expressions`, `Codegen`;
and `Codec` with `SchemaText`. These are done; what is left of the source is
listed above. Every safety property that the prover can be asked about is proved;
what could still be gained is the same for the trees of `Parser`, with walks over
trees that are not recursive operators.
