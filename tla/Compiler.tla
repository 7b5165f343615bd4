------------------------------ MODULE Compiler ------------------------------
(***************************************************************************)
(* One program after another is compiled against one catalogue, linked     *)
(* into one JIT and run on one store.  Compiler::compile runs three passes *)
(* over the statements, each in the order of the program text, and the     *)
(* passes communicate through the maps of a CompilerContext, which are     *)
(* keyed by name and know no scopes:                                       *)
(*   analyze       resolves types, and throws for unknown names;           *)
(*   alloca_stack  reserves the buffers and stack slots of a statement,    *)
(*                 and for a Define creates the table in the catalogue;    *)
(*   codegen       emits code that uses whatever the maps hold by then.    *)
(* compile_and_exec then adds the module to the JIT, looks its function up *)
(* by the one name all programs have, runs it and removes the module.      *)
(*                                                                         *)
(* A program is the sequence of its statements in the order of             *)
(* each_statement, a block's statements after the statement that holds it. *)
(* The initialiser of a For is the statement that follows it.              *)
(* Transaction, If and Block add nothing of their own to the passes; which *)
(* statements their code executes is left open.                            *)
(***************************************************************************)
EXTENDS Rows

CONSTANTS Programs  \* for every workload, the programs that are compiled

Ops == {"define", "tuple", "insert", "scan", "let", "emit", "member", "drop",
        "for"}

Column == [name : STRING, type : STRING, key : BOOLEAN, nullable : BOOLEAN]

\* name is the table of a define, an insert, a scan or a drop, the type of a
\* tuple, and the variable of a let, an emit or a member; arg is the variable
\* of a scan, the column of a member, and "row", "array" or "int" for a let; cols are
\* the columns of a define, of a tuple, or of the type of a let that has one;
\* n is the number of elements of the literal of an insert or a let.
StatementType == [op : Ops, name : STRING, arg : STRING, cols : Seq(Column),
                  n : Nat]

ASSUME ProgramsAssumption ==
  \A p \in UNION {Programs[w] : w \in DOMAIN Programs} :
    /\ p \in Seq(StatementType)
    /\ \A k \in DOMAIN p :
         /\ p[k].op = "let" =>
              /\ p[k].arg \in {"row", "array", "int"}
              /\ p[k].cols # << >> => p[k].arg = "row"
         /\ p[k].op = "for" =>
              /\ k < Len(p)
              /\ p[k + 1].op \in {"define", "insert", "let", "emit"}

VARIABLES
  workload,   \* which programs are compiled, in any order
  \* MetaData
  tables,     \* tables_: the schemas of this process, by name
  leveldb,    \* what LevelDB holds under table:global_schema:
  history,    \* every name with a schema that LevelDB has held under it
  \* FOEDUS and the JIT
  store,      \* the rows stored: their table and how many columns they have
  jit,        \* the modules in CODLayer, the first added first
  \* Compiler::compile
  prog,       \* the program
  pass,       \* the pass, or how the compilation ended
  pc,         \* the statement the pass is at
  \* CompilerContext
  types,      \* analyze_type_table_
  var_types,  \* variable_type_table_
  schemas,    \* local_schema_table_
  slots,      \* variable_table_: name -> the statement that reserved the slot
  row_types,  \* type_table_: name -> the scan that made the row's type
  \* the statements
  attrs,      \* Define, DefineTuple: names_ and types_ of the TupleType
  members,    \* MemberReference: offset_ and type_
  bufs,       \* key_stack_ and value_stack_ of Insert and Scan: the schema
              \* they have room for; Emit: the slot its copy is typed after
  code        \* what the code generated for a statement works with

catalogue == <<workload, tables, leveldb, history>>
tableaus == <<types, var_types, schemas, slots, row_types>>
context == <<tableaus, attrs, members, bufs, code>>
vars == <<catalogue, store, jit, prog, pass, pc, context>>

Passes == {"analyze", "alloca", "codegen"}
Ends == {"failed", "undefined"}

\* map[key] = v
Put(f, key, v) == [x \in DOMAIN f \cup {key} |-> IF x = key THEN v ELSE f[x]]

stmt == prog[pc]

At(p, op) == pass = p /\ pc <= Len(prog) /\ stmt.op = op

Advance == pc' = pc + 1 /\ UNCHANGED <<store, jit, prog, pass>>

\* An exception, or behaviour that C++ or LLVM leaves undefined.
End(e) == pass' = e /\ UNCHANGED <<catalogue, store, jit, prog, pc, context>>
Throw == End("failed")
Undefined == End("undefined")

-----------------------------------------------------------------------------
(* Types and schemas *)

\* A Type: its type_id and, for a TupleType, its columns.
Type(id, cols) == [id |-> id, cols |-> cols]
NullType == Type("nullptr", << >>)

Builtin == [integer |-> Type("INTEGER", << >>), string |-> Type("STRING", << >>),
            date |-> Type("DATE", << >>), double |-> Type("DOUBLE", << >>),
            bool |-> Type("BOOL", << >>)]

\* TupleType::analyze: the key that a column's type is looked up by.
TypeKey(c) == IF c.type \in {"int", "date"} THEN "integer" ELSE c.type

Resolvable(cols) == \A i \in DOMAIN cols : TypeKey(cols[i]) \in DOMAIN types

TypesOf(cols) ==
  [i \in DOMAIN cols |->
     [name |-> cols[i].name, key |-> cols[i].key, nullable |-> cols[i].nullable,
      id |-> types[TypeKey(cols[i])].id]]

\* fixed_key_length and fixed_value_length: a string without a parameter is
\* not of a fixed length.
FixedLength(schema) == \A i \in DOMAIN schema : schema[i].id # "STRING"

-----------------------------------------------------------------------------
Init ==
  /\ workload \in DOMAIN Programs
  /\ tables = << >> /\ leveldb = << >> /\ history = {}
  /\ store = {} /\ jit = << >>
  /\ prog = << >> /\ pass = "idle" /\ pc = 1
  /\ types = Builtin /\ var_types = << >> /\ schemas = << >>
  /\ slots = << >> /\ row_types = << >>
  /\ attrs = << >> /\ members = << >> /\ bufs = << >> /\ code = << >>

\* No program is being compiled: the CompilerContext is destroyed.
ClearContext ==
  /\ prog' = << >> /\ pass' = "idle" /\ pc' = 1
  /\ types' = Builtin /\ var_types' = << >> /\ schemas' = << >>
  /\ slots' = << >> /\ row_types' = << >>
  /\ attrs' = << >> /\ members' = << >> /\ bufs' = << >> /\ code' = << >>

\* compile_and_exec with a new CompilerContext.
Start(p) ==
  /\ pass = "idle"
  /\ prog' = p /\ pass' = "analyze"
  /\ UNCHANGED <<catalogue, store, jit, pc, context>>

\* The process ends, at any time, and a new one opens the same LevelDB and the
\* same FOEDUS; tables_ is not filled from LevelDB.  Nothing catches the
\* exception of a program that failed.
Restart ==
  /\ ClearContext
  /\ tables' = << >> /\ jit' = << >>
  /\ UNCHANGED <<workload, leveldb, history, store>>

\* A pass has seen the last statement.
NextPass ==
  /\ pass \in {"analyze", "alloca"} /\ pc > Len(prog)
  /\ pass' = IF pass = "analyze" THEN "alloca" ELSE "codegen"
  /\ pc' = 1
  /\ UNCHANGED <<catalogue, store, jit, prog, context>>

-----------------------------------------------------------------------------
(* analyze *)

\* Define::analyze and DefineTuple::analyze: tables and tuples, and the
\* built-in types, share one table of types.
AnalyzeDefine ==
  /\ At("analyze", "define") \/ At("analyze", "tuple")
  /\ \/ ~Resolvable(stmt.cols) /\ Throw
     \/ /\ Resolvable(stmt.cols)
        /\ attrs' = Put(attrs, pc, TypesOf(stmt.cols))
        /\ types' = Put(types, stmt.name, Type("TUPLE", TypesOf(stmt.cols)))
        /\ Advance
        /\ UNCHANGED <<catalogue, var_types, schemas, slots, row_types, members,
                       bufs, code>>

\* Scan::analyze: the row's type is what the table of types has under the
\* table's name, which operator[] sets to nullptr when that is nothing.
AnalyzeScan ==
  /\ At("analyze", "scan")
  /\ LET known == IF stmt.name \in DOMAIN types THEN types
                  ELSE Put(types, stmt.name, NullType)
     IN  /\ types' = known
         /\ var_types' = Put(var_types, stmt.arg, known[stmt.name])
  /\ Advance
  /\ UNCHANGED <<catalogue, schemas, slots, row_types, attrs, members, bufs,
                 code>>

\* Let::analyze: the type of the variable, the declared one if there is one;
\* an array has the type_id of its elements.
LetType ==
  CASE stmt.cols # << >> -> Type("TUPLE", TypesOf(stmt.cols))
    [] stmt.arg = "row" /\ stmt.cols = << >> -> Type("NONE", << >>)
    [] stmt.arg = "array" -> Type(types["integer"].id, << >>)
    [] stmt.arg = "int" -> types["integer"]

\* A declared type and that of an array are also put under the name of the
\* variable in the table of types.
AnalyzeLet ==
  /\ At("analyze", "let")
  /\ \/ ~Resolvable(stmt.cols) /\ Throw
     \/ /\ Resolvable(stmt.cols)
        /\ var_types' = Put(var_types, stmt.name, LetType)
        /\ types' = IF stmt.cols # << >> \/ stmt.arg = "array"
                    THEN Put(types, stmt.name, LetType) ELSE types
        /\ Advance
        /\ UNCHANGED <<catalogue, schemas, slots, row_types, attrs, members,
                       bufs, code>>

\* VariableReference::analyze.  The argument of drop_table is an expression
\* like that of any other call.
AnalyzeReference ==
  /\ At("analyze", "emit") \/ At("analyze", "drop")
  /\ \/ stmt.name \notin DOMAIN var_types /\ Throw
     \/ /\ stmt.name \in DOMAIN var_types
        /\ Advance /\ UNCHANGED <<catalogue, context>>

\* MemberReference::analyze: offset_ is the position of the name in the type of
\* the variable.  Without one it throws, with a message that prints the type.
AnalyzeMember ==
  /\ At("analyze", "member")
  /\ \/ stmt.name \notin DOMAIN var_types /\ Throw
     \/ /\ stmt.name \in DOMAIN var_types
        /\ LET cols == var_types[stmt.name].cols
               found == {i \in DOMAIN cols : cols[i].name = stmt.arg}
           IN  \/ found = {} /\ (\E i \in DOMAIN cols : cols[i].id = "nullptr")
                  /\ Undefined
               \/ found = {} /\ (\A i \in DOMAIN cols : cols[i].id # "nullptr")
                  /\ Throw
               \/ \E i \in found :
                    /\ \A j \in found : i <= j
                    /\ members' = Put(members, pc, [offset |-> i - 1,
                                                    id |-> cols[i].id])
                    /\ Advance
                    /\ UNCHANGED <<catalogue, tableaus, attrs, bufs, code>>

\* The literals of an insert and a For have nothing to resolve.
AnalyzeOther ==
  /\ At("analyze", "insert") \/ At("analyze", "for")
  /\ Advance
  /\ UNCHANGED <<catalogue, context>>

-----------------------------------------------------------------------------
(* alloca_stack *)

\* The statement whose alloca_stack runs: For::alloca_stack calls its
\* initialiser's, which each_statement then visits itself.
target == IF stmt.op = "for" THEN pc + 1 ELSE pc

Allocates(op) ==
  pass = "alloca" /\ pc <= Len(prog) /\ prog[target].op = op

\* Mutant: the table is stored only when LevelDB did not have it.
create_tableKeep(name, schema) ==
  /\ tables' = IF name \in DOMAIN tables THEN tables ELSE Put(tables, name, schema)
  /\ leveldb' = IF name \in DOMAIN leveldb THEN leveldb
                ELSE Put(leveldb, name, schema)
  /\ history' = history \cup {<<name, schema>>}
  /\ UNCHANGED workload

\* MetaData::create_table: insert keeps the first schema of the process,
\* Put replaces the stored one.
create_table(name, schema) ==
  /\ tables' = IF name \in DOMAIN tables THEN tables ELSE Put(tables, name, schema)
  /\ leveldb' = Put(leveldb, name, schema)
  /\ history' = history \cup {<<name, schema>>}
  /\ UNCHANGED workload

\* No type is nullptr here: the scan that left it came first, and is undefined.
AllocaDefine ==
  /\ Allocates("define")
  /\ LET name == prog[target].name
         schema == SchemaOf(attrs[target])
     IN  /\ schemas' = Put(schemas, name, schema)
         /\ create_table(name, schema)
  /\ Advance
  /\ UNCHANGED <<types, var_types, slots, row_types, attrs, members, bufs, code>>

\* DefineTuple::alloca_stack puts the type under its name again.
AllocaTuple ==
  /\ Allocates("tuple")
  /\ types' = Put(types, stmt.name, Type("TUPLE", attrs[pc]))
  /\ Advance
  /\ UNCHANGED <<catalogue, var_types, schemas, slots, row_types, attrs, members,
                 bufs, code>>

\* Mutant: a table that the program does not define is taken from tables_.
AllocaInsertCatalogue ==
  /\ Allocates("insert")
  /\ LET name == prog[target].name
         all == [n \in DOMAIN tables \cup DOMAIN schemas |->
                   IF n \in DOMAIN schemas THEN schemas[n] ELSE tables[n]]
     IN  \/ name \notin DOMAIN all /\ Throw
         \/ /\ name \in DOMAIN all
            /\ \/ (~FixedLength(all[name]) \/ target \in DOMAIN bufs) /\ Throw
               \/ /\ FixedLength(all[name]) /\ target \notin DOMAIN bufs
                  /\ bufs' = Put(bufs, target, all[name])
                  /\ Advance
                  /\ UNCHANGED <<catalogue, tableaus, attrs, members, code>>

AllocaInsert ==
  /\ Allocates("insert")
  /\ LET name == prog[target].name
     IN  \/ name \notin DOMAIN schemas /\ Throw
         \/ /\ name \in DOMAIN schemas
            /\ \/ (~FixedLength(schemas[name]) \/ target \in DOMAIN bufs) /\ Throw
               \/ /\ FixedLength(schemas[name]) /\ target \notin DOMAIN bufs
                  /\ bufs' = Put(bufs, target, schemas[name])
                  /\ Advance
                  /\ UNCHANGED <<catalogue, tableaus, attrs, members, code>>

\* Mutant: a row type that is known under the name is used again.
AllocaScanReuse ==
  /\ Allocates("scan")
  /\ \/ stmt.name \notin DOMAIN schemas /\ Undefined
     \/ /\ stmt.name \in DOMAIN schemas
        /\ bufs' = Put(bufs, pc, schemas[stmt.name])
        /\ row_types' = IF stmt.arg \in DOMAIN row_types THEN row_types
                        ELSE Put(row_types, stmt.arg, pc)
        /\ slots' = Put(slots, stmt.arg, pc)
        /\ Advance
        /\ UNCHANGED <<catalogue, types, var_types, schemas, attrs, members,
                       code>>

\* Unlike an insert, a scan does not ask whether its schema is nullptr; and
\* its columns must be integers, which have a fixed length.
AllocaScan ==
  /\ Allocates("scan")
  /\ \/ stmt.name \notin DOMAIN schemas /\ Undefined
     \/ /\ stmt.name \in DOMAIN schemas
        /\ LET schema == schemas[stmt.name]
           IN  \/ (\E i \in DOMAIN schema : schema[i].id # "INTEGER") /\ Throw
               \/ /\ \A i \in DOMAIN schema : schema[i].id = "INTEGER"
                  /\ bufs' = Put(bufs, pc, schema)
                  /\ row_types' = Put(row_types, stmt.arg, pc)
                  /\ slots' = Put(slots, stmt.arg, pc)
                  /\ Advance
                  /\ UNCHANGED <<catalogue, types, var_types, schemas, attrs,
                                 members, code>>

\* Mutant: a variable that has a slot keeps it.
AllocaLetKeep ==
  /\ Allocates("let")
  /\ slots' = IF prog[target].name \in DOMAIN slots THEN slots
              ELSE Put(slots, prog[target].name, target)
  /\ Advance
  /\ UNCHANGED <<catalogue, types, var_types, schemas, row_types, attrs, members,
                 bufs, code>>

AllocaLet ==
  /\ Allocates("let")
  /\ slots' = Put(slots, prog[target].name, target)
  /\ Advance
  /\ UNCHANGED <<catalogue, types, var_types, schemas, row_types, attrs, members,
                 bufs, code>>

\* The copy that is emitted has the type of the variable's slot.
AllocaEmit ==
  /\ Allocates("emit")
  /\ LET v == prog[target].name
     IN  \/ v \notin DOMAIN slots /\ Throw
         \/ /\ v \in DOMAIN slots
            /\ bufs' = Put(bufs, target, slots[v])
            /\ Advance
            /\ UNCHANGED <<catalogue, tableaus, attrs, members, code>>

\* ExprStatement::alloca_stack asks for the type of a member, which
\* convert_type may not have, and of the variable that the member belongs to
\* or that is the argument of drop_table.
AllocaReference ==
  /\ Allocates("drop") \/ Allocates("member")
  /\ LET typed == /\ stmt.name \in DOMAIN slots
                  /\ stmt.op = "member" =>
                       members[pc].id \in {"INTEGER", "STRING", "DOUBLE"}
     IN  \/ ~typed /\ Throw
         \/ typed /\ Advance /\ UNCHANGED <<catalogue, context>>

-----------------------------------------------------------------------------
(* codegen *)

\* schema: the columns of local_schema_table_[table_]; slot: the variable's
\* slot; row_type: the scan whose row type the row is built with; offset: the
\* element of the slot's type that a member reads.
Code(schema, slot, row_type, offset) ==
  [schema |-> schema, slot |-> slot, row_type |-> row_type, offset |-> offset]

Generate(c) ==
  /\ code' = Put(code, pc, c)
  /\ Advance
  /\ UNCHANGED <<catalogue, tableaus, attrs, members, bufs>>

\* A literal with more elements than the schema indexes attrs_ beyond its end.
CodegenInsert ==
  /\ At("codegen", "insert")
  /\ LET schema == schemas[stmt.name]
     IN  \/ stmt.n > Len(schema) /\ Undefined
         \/ stmt.n <= Len(schema) /\ Generate(Code(schema, 0, 0, 0))

\* The row is stored to the scan's own tuple_stack_.
CodegenScan ==
  /\ At("codegen", "scan")
  /\ Generate(Code(schemas[stmt.name], pc, row_types[stmt.arg], 0))

CodegenLet ==
  /\ At("codegen", "let")
  /\ Generate(Code(<< >>, slots[stmt.name], 0, 0))

\* Whether the type of a slot is a struct: that of a scan's row, and of a row
\* literal, with one element for every column or element of theirs.
IsStruct(d) == prog[d].op = "scan" \/ prog[d].arg = "row"
Elements(d) == IF prog[d].op = "scan" THEN Len(bufs[d]) ELSE prog[d].n

CodegenEmit ==
  /\ At("codegen", "emit")
  /\ LET d == slots[stmt.name]
     IN  \/ ~IsStruct(d) /\ Throw
         \/ IsStruct(d) /\ Generate(Code(<< >>, d, 0, 0))

\* MemberReference::get_ref: an address computed with offset_ from the slot,
\* which a struct with fewer elements and an integer do not have.
CodegenMember ==
  /\ At("codegen", "member")
  /\ LET d == slots[stmt.name]
         offset == members[pc].offset
     IN  \/ (IF IsStruct(d) THEN offset >= Elements(d) ELSE prog[d].arg = "int")
            /\ Undefined
         \/ (IF IsStruct(d) THEN offset < Elements(d) ELSE prog[d].arg = "array")
            /\ Generate(Code(<< >>, d, 0, offset))

\* drop_table is declared with two pointers to integers as its parameters, and
\* no expression is of that type.
CodegenDrop == At("codegen", "drop") /\ Undefined

CodegenOther ==
  /\ At("codegen", "define") \/ At("codegen", "tuple") \/ At("codegen", "for")
  /\ Advance
  /\ UNCHANGED <<catalogue, context>>

-----------------------------------------------------------------------------
(* compile_and_exec *)

\* add_module.
AddModule ==
  /\ pass = "codegen" /\ pc > Len(prog)
  /\ jit' = Append(jit, [prog |-> prog, code |-> code])
  /\ pass' = "run" /\ pc' = 1
  /\ UNCHANGED <<catalogue, store, prog, context>>

\* find_symbol: the first module that has a __top_function.
running == Head(jit)

Runs == pass = "run" /\ pc <= Len(running.prog)

\* What an insert stores.
RowOf(s, c) ==
  [table |-> s.name, n |-> s.n, key |-> InsertBytes(c.schema, s.n, TRUE),
   value |-> InsertBytes(c.schema, s.n, FALSE)]

\* The insert is executed, and its transaction commits.
RunInsert ==
  /\ Runs /\ running.prog[pc].op = "insert"
  /\ store' = store \cup {RowOf(running.prog[pc], running.code[pc])}
  /\ pc' = pc + 1
  /\ UNCHANGED <<catalogue, jit, prog, pass, context>>

\* Any other statement, and an insert that is not executed or is aborted.
RunOther ==
  /\ Runs
  /\ Advance
  /\ UNCHANGED <<catalogue, context>>

\* Mutant: the module stays in the JIT.
FinishKeep ==
  /\ pass = "run" /\ pc > Len(running.prog)
  /\ ClearContext
  /\ UNCHANGED <<catalogue, store, jit>>

\* removeModule, and the CompilerContext is destroyed.
Finish ==
  /\ pass = "run" /\ pc > Len(running.prog)
  /\ jit' = SubSeq(jit, 1, Len(jit) - 1)
  /\ ClearContext
  /\ UNCHANGED <<catalogue, store>>

-----------------------------------------------------------------------------
Analyze ==
  \/ AnalyzeDefine \/ AnalyzeScan \/ AnalyzeLet \/ AnalyzeReference
  \/ AnalyzeMember \/ AnalyzeOther

Alloca ==
  \/ AllocaDefine \/ AllocaTuple \/ AllocaInsert \/ AllocaScan \/ AllocaLet
  \/ AllocaEmit \/ AllocaReference

Codegen ==
  \/ CodegenInsert \/ CodegenScan \/ CodegenLet \/ CodegenEmit
  \/ CodegenMember \/ CodegenDrop \/ CodegenOther

Run == AddModule \/ RunInsert \/ RunOther \/ Finish

Next ==
  \/ \E p \in Programs[workload] : Start(p)
  \/ Restart \/ NextPass \/ Analyze \/ Alloca \/ Codegen \/ Run

Spec == Init /\ [][Next]_vars

-----------------------------------------------------------------------------
(* Properties *)

Statements == DOMAIN prog

\* The variable that a let or a scan declares.
Declares(s, v) ==
  \/ s.op = "let" /\ s.name = v
  \/ s.op = "scan" /\ s.arg = v

DefinedAgain(p, k) ==
  \E j \in DOMAIN p : j > k /\ p[j].op = "define" /\ p[j].name = p[k].name

DeclaredAgain(p, k, v) == \E j \in DOMAIN p : j > k /\ Declares(p[j], v)

\* The buffers that alloca_stack reserved for an insert or a scan have room
\* for exactly the columns that codegen moves through them, and the row a
\* scan builds has the type of the slot it is stored to, unless the program
\* defines the table again, or declares the row's name again, further down:
\* both passes look the schema up by name (Insert::codegen, Scan::codegen).
BuffersFit ==
  \A k \in DOMAIN code :
    /\ prog[k].op \in {"insert", "scan"} =>
         code[k].schema = bufs[k] \/ DefinedAgain(prog, k)
    /\ prog[k].op = "scan" =>
         code[k].row_type = k \/ DeclaredAgain(prog, k, prog[k].arg)

\* The code of an emit reads the slot that the nearest declaration above it
\* fills, and copies it to a buffer of the same type, unless the variable is
\* declared again further down: variable_table_ has one entry per name, and
\* the last alloca_stack of the whole program wins (Let::alloca_stack,
\* Scan::alloca_stack).
EmitReadsNearest ==
  \A k \in DOMAIN code : prog[k].op = "emit" =>
    \/ DeclaredAgain(prog, k, prog[k].name)
    \/ LET d == code[k].slot
       IN  /\ d < k /\ Declares(prog[d], prog[k].name)
           /\ \A j \in d + 1 .. k - 1 : ~Declares(prog[j], prog[k].name)
           /\ bufs[k] = d
           /\ code[d].slot = d

\* The table's name in the table of types was taken, after the table was
\* defined, by a tuple or by a variable with a declared type or an array.
NameTaken(d) ==
  \E j \in 1 .. d - 1 :
    /\ \/ prog[j].op = "tuple"
       \/ prog[j].op = "let" /\ (prog[j].cols # << >> \/ prog[j].arg = "array")
    /\ prog[j].name = prog[d].name
    /\ \A i \in j + 1 .. d - 1 :
         ~(prog[i].op = "define" /\ prog[i].name = prog[d].name)

\* The table has columns that are not stored.
ColumnLeftOut(d) ==
  \E j \in 1 .. d - 1 :
    /\ prog[j].op = "define" /\ prog[j].name = prog[d].name
    /\ \E i \in DOMAIN attrs[j] : attrs[j][i].id \notin Storable

\* The code of r.c, for the row r of a scan, reads the column that is called c
\* in the schema the row was built with.  MemberReference::analyze counts c in
\* the declared columns, Define::alloca_stack drops those whose type it does
\* not know, and tables share their names with tuples and variables: where a
\* column is left out or the name was taken the two may differ.
MembersAgree ==
  \A k \in DOMAIN code : prog[k].op = "member" =>
    LET d == code[k].slot
    IN  \/ DeclaredAgain(prog, k, prog[k].name)
        \/ prog[d].op = "let"
        \/ NameTaken(d) \/ ColumnLeftOut(d)
        \/ bufs[d][code[k].offset + 1].name = prog[k].arg

\* A program that compiles defines every table it uses itself, above the use:
\* neither the catalogue of the process nor LevelDB is asked for a table
\* (Insert::alloca_stack and Scan::alloca_stack read local_schema_table_).
UsesOwnTables ==
  pass \in {"codegen", "run"} =>
    \A k \in Statements : prog[k].op \in {"insert", "scan"} =>
      \E j \in 1 .. k - 1 :
        prog[j].op = "define" /\ prog[j].name = prog[k].name

\* What a program compiles against is what LevelDB holds, also when a table
\* is defined again in the same program, in a later one or after a restart
\* (Define::alloca_stack, MetaData::create_table).
LocalIsStored ==
  \A n \in DOMAIN schemas : n \in DOMAIN leveldb /\ leveldb[n] = schemas[n]

\* The code that runs is that of the program just compiled, although every
\* program's function has the same name, and it calls no drop_table, for which
\* the process has no code (compile_and_exec, find_symbol).
RunsOwnCode ==
  pass = "run" =>
    /\ running.prog = prog /\ running.code = code
    /\ \A k \in Statements : prog[k].op # "drop"

\* The rows that a scan of the running program may meet: those of its table,
\* from this program, an earlier one or an earlier process.
Meets(k, row) ==
  /\ pass = "run"
  /\ running.prog[k].op = "scan" /\ row.table = running.prog[k].name

\* Nothing was ever stored under the name but this schema.
OnlySchema(name, schema) ==
  \A h \in history : h[1] = name => h[2] = schema

\* The key and the value of a stored row fit the buffers of a scan that they
\* are copied to in their own length, as long as the table was never defined
\* with other columns: nobody compares a row with the schema it is read by
\* (foedus_cursor_copy_key, foedus_cursor_copy_value).
RowsFit ==
  \A k \in Statements, row \in store :
    Meets(k, row) /\ OnlySchema(row.table, bufs[k]) =>
      /\ Len(row.key) <= Room(bufs[k], TRUE)
      /\ Len(row.value) <= Room(bufs[k], FALSE)

\* As long as the table was never defined with other columns, a scan reads
\* from the row exactly the bytes of the element that was inserted for the
\* column, down to the first column that is of the key when a nullable one
\* above is not, or the other way round.  It does not of that column: an insert
\* moves nine bytes for a nullable column and a scan eight (Insert::codegen,
\* Scan::codegen).
RowsReadBack ==
  \A k \in Statements, row \in store :
    Meets(k, row) /\ OnlySchema(row.table, bufs[k]) =>
      \A i \in 1 .. row.n : InStep(bufs[k], i - 1) =>
        (ScanBytes(bufs[k], row, i) = Bytes(W * (i - 1), W)
           <=> InStep(bufs[k], i))
=============================================================================
