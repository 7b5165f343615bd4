--------------------------- MODULE CompilerProofs ---------------------------
(***************************************************************************)
(* The order of the passes, the catalogue and the JIT, for every set of    *)
(* programs: of any length, with any tables and variables.                 *)
(***************************************************************************)
EXTENDS Compiler, TLAPS

-----------------------------------------------------------------------------
(* Steps, by what they do to the variables that the passes share. *)

GoodProgram(p) ==
  /\ p \in Seq(StatementType)
  /\ \A k \in DOMAIN p :
       p[k].op = "for" =>
         k < Len(p) /\ p[k + 1].op \in {"define", "insert", "let", "emit"}

shared == <<schemas, slots, row_types, bufs>>

\* A pass ends with an exception or with undefined behaviour.
EndStep == pass \in Passes /\ \E e \in Ends : End(e)

\* analyze of statement k, by its kind.
Resolves(k) ==
  \/ /\ prog[k].op \in {"define", "tuple"}
     /\ \E a : /\ a = TypesOf(prog[k].cols)
               /\ attrs' = Put(attrs, k, a)
               /\ types' = Put(types, prog[k].name, Type("TUPLE", a))
     /\ UNCHANGED <<var_types, members>>
  \/ /\ prog[k].op = "scan"
     /\ \E t : /\ types' = t /\ (prog[k].name \in DOMAIN types => t = types)
               /\ var_types' = Put(var_types, prog[k].arg, t[prog[k].name])
               /\ t = types \/ t = Put(types, prog[k].name, NullType)
     /\ UNCHANGED <<attrs, members>>
  \/ /\ prog[k].op = "let"
     /\ \E t : /\ var_types' = Put(var_types, prog[k].name, t)
               /\ \/ types' = types
                  \/ /\ prog[k].cols # << >> \/ prog[k].arg = "array"
                     /\ types' = Put(types, prog[k].name, t)
     /\ UNCHANGED <<attrs, members>>
  \/ /\ prog[k].op = "member" /\ prog[k].name \in DOMAIN var_types
     /\ \E i, id :
          /\ i \in DOMAIN var_types[prog[k].name].cols
          /\ var_types[prog[k].name].cols[i].name = prog[k].arg
          /\ members' = Put(members, k, [offset |-> i - 1, id |-> id])
     /\ UNCHANGED <<types, var_types, attrs>>
  \/ /\ prog[k].op \in {"emit", "drop", "insert", "for"}
     /\ UNCHANGED <<types, var_types, attrs, members>>

AnalyzeStep ==
  /\ pass = "analyze" /\ pc <= Len(prog) /\ Advance
  /\ Resolves(pc)
  /\ UNCHANGED <<catalogue, shared, code>>

\* alloca_stack of statement k, by its kind.
Reserves(k) ==
  \/ /\ prog[k].op = "define"
     /\ \E s : /\ s = SchemaOf(attrs[k])
               /\ schemas' = Put(schemas, prog[k].name, s)
               /\ leveldb' = Put(leveldb, prog[k].name, s)
               /\ history' = history \cup {<<prog[k].name, s>>}
     /\ UNCHANGED <<slots, row_types, bufs>>
  \/ /\ prog[k].op = "insert"
     /\ prog[k].name \in DOMAIN schemas
     /\ bufs' = Put(bufs, k, schemas[prog[k].name])
     /\ UNCHANGED <<leveldb, history, schemas, slots, row_types>>
  \/ /\ prog[k].op = "scan" /\ k = pc
     /\ prog[k].name \in DOMAIN schemas
     /\ \A i \in DOMAIN schemas[prog[k].name] :
          schemas[prog[k].name][i].id = "INTEGER"
     /\ bufs' = Put(bufs, k, schemas[prog[k].name])
     /\ slots' = Put(slots, prog[k].arg, k)
     /\ row_types' = Put(row_types, prog[k].arg, k)
     /\ UNCHANGED <<leveldb, history, schemas>>
  \/ /\ prog[k].op = "let"
     /\ slots' = Put(slots, prog[k].name, k)
     /\ UNCHANGED <<leveldb, history, schemas, row_types, bufs>>
  \/ /\ prog[k].op = "emit"
     /\ prog[k].name \in DOMAIN slots
     /\ bufs' = Put(bufs, k, slots[prog[k].name])
     /\ UNCHANGED <<leveldb, history, schemas, slots, row_types>>
  \/ /\ prog[k].op \in {"drop", "member"}
     /\ prog[k].name \in DOMAIN slots
     /\ UNCHANGED <<leveldb, history, shared>>
  \/ /\ prog[k].op = "tuple"
     /\ UNCHANGED <<leveldb, history, shared>>

AllocaStep ==
  /\ pass = "alloca" /\ pc <= Len(prog) /\ Advance
  /\ Reserves(target)
  /\ UNCHANGED <<workload, attrs, members, code>>

\* The code c that codegen makes of statement k.
Fits(k, c) ==
  /\ prog[k].op \in {"insert", "scan"} => c.schema = schemas[prog[k].name]
  /\ prog[k].op = "scan" => c.slot = k /\ c.row_type = row_types[prog[k].arg]
  /\ prog[k].op \in {"let", "emit", "member"} => c.slot = slots[prog[k].name]
  /\ prog[k].op = "insert" => prog[k].n <= Len(c.schema)
  /\ prog[k].op = "member" => c.offset = members[k].offset

CodegenStep ==
  /\ pass = "codegen" /\ pc <= Len(prog) /\ Advance
  /\ prog[pc].op # "drop"
  /\ \/ /\ prog[pc].op \in {"define", "tuple", "for"}
        /\ UNCHANGED code
     \/ \E c : Fits(pc, c) /\ code' = Put(code, pc, c)
  /\ UNCHANGED <<catalogue, shared, attrs, members>>

RunStep ==
  /\ pass = "run" /\ pc' = pc + 1
  /\ \/ UNCHANGED store
     \/ /\ pc <= Len(running.prog) /\ running.prog[pc].op = "insert"
        /\ store' = store \cup {RowOf(running.prog[pc], running.code[pc])}
  /\ UNCHANGED <<catalogue, jit, prog, pass, context>>

\* An analyze either ends the pass or leaves what alloca_stack reserves alone.
LEMMA AnalyzeSteps == Analyze => EndStep \/ AnalyzeStep
<1> SUFFICES ASSUME Analyze PROVE EndStep \/ AnalyzeStep
  BY Zenon
<1> USE DEF At, stmt
<1>0. pass = "analyze" /\ pc <= Len(prog)
  BY Zenon DEF Analyze, AnalyzeDefine, AnalyzeScan, AnalyzeLet, AnalyzeReference,
         AnalyzeMember, AnalyzeOther
<1>1. CASE Throw \/ Undefined
  BY <1>0, <1>1, Zenon DEF EndStep, Throw, Undefined, Ends, Passes
<1>2. ASSUME Advance, Resolves(pc), UNCHANGED <<catalogue, shared, code>>
      PROVE  AnalyzeStep
  BY <1>0, <1>2, Zenon DEF AnalyzeStep
<1>3. CASE AnalyzeDefine
  <2>1. CASE Throw
    BY <1>1, <2>1, Zenon
  <2>2. CASE ~Throw
    <3>1. Advance /\ UNCHANGED <<catalogue, shared, code>>
      BY <1>3, <2>2, Zenon DEF AnalyzeDefine, shared
    <3>2. Resolves(pc)
      BY <1>3, <2>2, Zenon DEF AnalyzeDefine, Resolves
    <3> QED BY <1>2, <3>1, <3>2, Zenon
  <2> QED BY <2>1, <2>2, Zenon
<1>4. CASE AnalyzeScan
  <2>1. Advance /\ UNCHANGED <<catalogue, shared, code>>
    BY <1>4, Zenon DEF AnalyzeScan, shared
  <2>2. Resolves(pc)
    <3>1. PICK t : t = IF prog[pc].name \in DOMAIN types THEN types
                       ELSE Put(types, prog[pc].name, NullType)
      BY Zenon
    <3>2. /\ types' = t /\ var_types' = Put(var_types, prog[pc].arg, t[prog[pc].name])
          /\ prog[pc].op = "scan" /\ UNCHANGED <<attrs, members>>
      BY <1>4, <3>1, Zenon DEF AnalyzeScan
    <3>3. /\ prog[pc].name \in DOMAIN types => t = types
          /\ t = types \/ t = Put(types, prog[pc].name, NullType)
      BY ONLY <3>1, Zenon
    <3> QED BY <3>2, <3>3, Zenon DEF Resolves
  <2> QED BY <1>2, <2>1, <2>2, Zenon
<1>5. CASE AnalyzeLet
  <2>1. CASE Throw
    BY <1>1, <2>1, Zenon
  <2>2. CASE ~Throw
    <3>1. Advance /\ UNCHANGED <<catalogue, shared, code>>
      BY <1>5, <2>2, Zenon DEF AnalyzeLet, shared
    <3>2. Resolves(pc)
      <4>1. PICK t : t = LetType
        BY Zenon
      <4>2. /\ prog[pc].op = "let" /\ UNCHANGED <<attrs, members>>
            /\ var_types' = Put(var_types, prog[pc].name, t)
            /\ types' = IF prog[pc].cols # << >> \/ prog[pc].arg = "array"
                        THEN Put(types, prog[pc].name, t) ELSE types
        BY <1>5, <2>2, <4>1, Zenon DEF AnalyzeLet
      <4> QED BY <4>2, Zenon DEF Resolves
    <3> QED BY <1>2, <3>1, <3>2, Zenon
  <2> QED BY <2>1, <2>2, Zenon
<1>6. CASE AnalyzeReference \/ AnalyzeOther
  <2>1. CASE Throw
    BY <1>1, <2>1, Zenon
  <2>2. CASE ~Throw
    <3>1. Advance /\ UNCHANGED <<catalogue, context>>
      BY <1>6, <2>2, Zenon DEF AnalyzeReference, AnalyzeOther
    <3>2. prog[pc].op \in {"emit", "drop", "insert", "for"}
      BY <1>6, Zenon DEF AnalyzeReference, AnalyzeOther
    <3>3. UNCHANGED <<shared, code, types, var_types, attrs, members>>
      BY <3>1, Zenon DEF context, tableaus, shared
    <3> QED BY <1>2, <3>1, <3>2, <3>3, Zenon DEF Resolves
  <2> QED BY <2>1, <2>2, Zenon
<1>7. CASE AnalyzeMember
  <2>1. CASE Throw \/ Undefined
    BY <1>1, <2>1, Zenon
  <2>2. CASE ~Throw /\ ~Undefined
    <3>1. PICK cols : cols = var_types[prog[pc].name].cols
      BY Zenon
    <3>2. PICK i \in {j \in DOMAIN cols : cols[j].name = prog[pc].arg} :
            /\ members' = Put(members, pc, [offset |-> i - 1, id |-> cols[i].id])
            /\ Advance /\ UNCHANGED <<catalogue, tableaus, attrs, bufs, code>>
      BY <1>7, <2>2, <3>1, Zenon DEF AnalyzeMember
    <3>3. prog[pc].op = "member" /\ prog[pc].name \in DOMAIN var_types
      BY <1>7, <2>2, Zenon DEF AnalyzeMember
    <3>4. UNCHANGED <<catalogue, shared, code, types, var_types, attrs>>
      BY <3>2, Zenon DEF tableaus, shared
    <3>5. i \in DOMAIN cols /\ cols[i].name = prog[pc].arg
      BY <3>2, Zenon
    <3>6. Resolves(pc)
      BY <3>1, <3>2, <3>3, <3>4, <3>5, Zenon DEF Resolves
    <3> QED BY <1>2, <3>2, <3>4, <3>6, Zenon
  <2> QED BY <2>1, <2>2, Zenon
<1> QED
  BY <1>3, <1>4, <1>5, <1>6, <1>7, Zenon DEF Analyze

\* An alloca_stack either ends the pass or reserves what its kind needs.
LEMMA AllocaSteps ==
  ASSUME GoodProgram(prog), pc \in Nat \ {0}
  PROVE  Alloca => EndStep \/ AllocaStep
<1> SUFFICES ASSUME Alloca PROVE EndStep \/ AllocaStep
  BY Zenon
<1> USE DEF Allocates, catalogue, context, tableaus
<1>0. pass = "alloca" /\ pc <= Len(prog)
  BY Zenon DEF Alloca, AllocaDefine, AllocaTuple, AllocaInsert, AllocaScan, AllocaLet,
         AllocaEmit, AllocaReference
<1>1. prog[target].op \in {"tuple", "scan", "drop", "member"} => target = pc
  <2>1. pc \in DOMAIN prog
    BY <1>0 DEF GoodProgram
  <2>2. prog[pc].op = "for" => prog[pc + 1].op \in {"define", "insert", "let", "emit"}
    BY <2>1, Zenon DEF GoodProgram
  <2>3. target = (IF prog[pc].op = "for" THEN pc + 1 ELSE pc)
    BY Zenon DEF target, stmt
  <2> QED BY ONLY <2>2, <2>3, Zenon
<1>2. CASE Throw \/ Undefined
  BY <1>0, <1>2, Zenon DEF EndStep, Throw, Undefined, Ends, Passes
<1>3. CASE AllocaDefine
  BY <1>0, <1>3, Zenon DEF AllocaDefine, create_table, AllocaStep, Reserves
<1>4. CASE AllocaTuple
  BY <1>0, <1>4, Zenon DEF AllocaTuple, AllocaStep, Reserves, shared
<1>5. CASE AllocaInsert
  BY <1>0, <1>2, <1>5, Zenon DEF AllocaInsert, AllocaStep, Reserves
<1>6. CASE AllocaScan
  BY <1>0, <1>1, <1>2, <1>6, Zenon DEF AllocaScan, AllocaStep, Reserves, stmt
<1>7. CASE AllocaLet
  BY <1>0, <1>7, Zenon DEF AllocaLet, AllocaStep, Reserves
<1>8. CASE AllocaEmit
  BY <1>0, <1>2, <1>8, Zenon DEF AllocaEmit, AllocaStep, Reserves
<1>9. CASE AllocaReference
  <2>1. CASE Throw
    BY <1>2, <2>1, Zenon
  <2>2. CASE ~Throw
    <3>1. /\ stmt.name \in DOMAIN slots /\ Advance /\ UNCHANGED <<catalogue, context>>
          /\ prog[target].op \in {"drop", "member"}
      BY <1>9, <2>2, Zenon DEF AllocaReference
    <3>2. prog[target].name \in DOMAIN slots
      BY <1>1, <3>1, Zenon DEF stmt
    <3> QED BY <1>0, <3>1, <3>2, Zenon DEF AllocaStep, Reserves, shared
  <2> QED BY <2>1, <2>2, Zenon
<1> QED
  BY <1>3, <1>4, <1>5, <1>6, <1>7, <1>8, <1>9, Zenon DEF Alloca

\* A codegen either ends the pass or makes code of what the maps hold; it does
\* not get past a drop_table.
LEMMA CodegenSteps == Codegen => EndStep \/ CodegenStep
<1> SUFFICES ASSUME Codegen PROVE EndStep \/ CodegenStep
  BY Zenon
<1> USE DEF At, stmt, catalogue, context, tableaus, shared
<1>1. pass = "codegen" /\ pc <= Len(prog)
  BY Zenon DEF Codegen, CodegenInsert, CodegenScan, CodegenLet, CodegenEmit,
         CodegenMember, CodegenDrop, CodegenOther
<1>2. CASE Throw \/ Undefined
  BY <1>1, <1>2, Zenon DEF EndStep, Throw, Undefined, Ends, Passes
<1>3. ASSUME NEW c, Generate(c), Fits(pc, c), prog[pc].op # "drop"
      PROVE  CodegenStep
  BY <1>1, <1>3, Zenon DEF Generate, CodegenStep
<1>4. CASE CodegenInsert
  BY <1>2, <1>3, <1>4, Zenon DEF CodegenInsert, Code, Fits
<1>5. CASE CodegenScan
  BY <1>3, <1>5, Zenon DEF CodegenScan, Code, Fits
<1>6. CASE CodegenLet
  BY <1>3, <1>6, Zenon DEF CodegenLet, Code, Fits
<1>7. CASE CodegenEmit
  BY <1>2, <1>3, <1>7, Zenon DEF CodegenEmit, Code, Fits
<1>8. CASE CodegenMember
  BY <1>2, <1>3, <1>8, Zenon DEF CodegenMember, Code, Fits
<1>9. CASE CodegenDrop
  BY <1>2, <1>9, Zenon DEF CodegenDrop
<1>10. CASE CodegenOther
  BY <1>1, <1>10, Zenon DEF CodegenOther, CodegenStep
<1> QED
  BY <1>4, <1>5, <1>6, <1>7, <1>8, <1>9, <1>10, Zenon DEF Codegen

\* The steps there are.
LEMMA Steps ==
  ASSUME GoodProgram(prog), pc \in Nat \ {0}, Next
  PROVE  \/ \E p \in Programs[workload] : Start(p)
         \/ Restart \/ NextPass \/ EndStep \/ AnalyzeStep \/ AllocaStep
         \/ CodegenStep \/ AddModule \/ RunStep \/ Finish
<1>1. RunInsert => RunStep
  BY Zenon DEF RunInsert, RunStep, Runs
<1>2. RunOther => RunStep
  BY Zenon DEF RunOther, RunStep, Runs, Advance
<1> QED
  BY <1>1, <1>2, AnalyzeSteps, AllocaSteps, CodegenSteps, Zenon DEF Next, Run

-----------------------------------------------------------------------------
(* The order of the passes, and the modules in the JIT *)

\* What the passes have left undone is empty, the JIT has a module while a
\* program runs, which is that program's, and codegen has met no drop_table.
PassInv ==
  /\ workload \in DOMAIN Programs
  /\ GoodProgram(prog)
  /\ pc \in Nat \ {0}
  /\ pass = "idle" => pc = 1
  /\ pass \in {"idle", "analyze"} =>
       schemas = << >> /\ slots = << >> /\ row_types = << >> /\ bufs = << >>
  /\ pass \in {"idle", "analyze", "alloca"} => code = << >>
  /\ jit = IF pass = "run" THEN <<[prog |-> prog, code |-> code]>> ELSE << >>
  /\ \A k \in DOMAIN prog :
       (pass = "codegen" /\ k < pc) \/ pass = "run" => prog[k].op # "drop"

\* The invariant holds before the first program.
LEMMA PassInit == Init => PassInv
  BY DEF Init, PassInv, GoodProgram

\* Every step of the passes, of a restart and of the run keeps the invariant.
LEMMA PassStep == PassInv /\ [Next]_vars => PassInv'
<1> SUFFICES ASSUME PassInv, [Next]_vars PROVE PassInv'
  BY Zenon
<1> USE DEF catalogue, context, tableaus
<1>0. CASE UNCHANGED vars
  BY <1>0, Zenon DEF PassInv, GoodProgram, vars
<1>1. ASSUME NEW p \in Programs[workload], Start(p) PROVE PassInv'
  <2>1. GoodProgram(p)
    BY ProgramsAssumption, Zenon DEF GoodProgram, PassInv
  <2> QED
    BY <1>1, <2>1, Zenon DEF PassInv, Start, GoodProgram
<1>2. CASE Restart
  BY <1>2 DEF PassInv, Restart, ClearContext, GoodProgram
<1>3. CASE NextPass
  BY <1>3 DEF PassInv, NextPass, GoodProgram
<1>4. CASE EndStep
  BY <1>4, Zenon DEF PassInv, EndStep, End, Passes, Ends, GoodProgram
<1>5. CASE AnalyzeStep
  BY <1>5 DEF PassInv, AnalyzeStep, Advance, shared, GoodProgram
<1>6. CASE AllocaStep
  BY <1>6 DEF PassInv, AllocaStep, Advance, GoodProgram
<1>7. CASE CodegenStep
  <2>1. \A k \in DOMAIN prog : k < pc + 1 => prog[k].op # "drop"
    BY <1>7 DEF PassInv, CodegenStep, GoodProgram
  <2> QED
    BY <1>7, <2>1 DEF PassInv, CodegenStep, Advance, GoodProgram
<1>8. CASE AddModule
  <2>1. \A k \in DOMAIN prog : prog[k].op # "drop"
    BY <1>8 DEF PassInv, AddModule, GoodProgram
  <2>2. jit' = <<[prog |-> prog, code |-> code]>>
    BY <1>8 DEF PassInv, AddModule
  <2> QED
    BY <1>8, <2>1, <2>2 DEF PassInv, AddModule, GoodProgram
<1>9. CASE RunStep
  BY <1>9 DEF PassInv, RunStep, GoodProgram
<1>10. CASE Finish
  <2>1. jit' = << >>
    BY <1>10 DEF PassInv, Finish
  <2> QED
    BY <1>10, <2>1 DEF PassInv, Finish, ClearContext, GoodProgram
<1>11. CASE Next
  BY <1>1, <1>2, <1>3, <1>4, <1>5, <1>6, <1>7, <1>8, <1>9, <1>10, <1>11, Steps, Zenon
  DEF PassInv
<1> QED
  BY <1>0, <1>11, Zenon

\* The order of the passes holds in every state of every sequence of programs.
THEOREM PassesInOrder == Spec => []PassInv
  BY PassInit, PassStep, PTL DEF Spec

\* Whatever was compiled, failed or crashed before, the function that
\* find_symbol finds is the one of the program just compiled.
THEOREM CodeIsOwn == Spec => []RunsOwnCode
<1>1. PassInv => RunsOwnCode
  BY DEF PassInv, RunsOwnCode, running, Statements
<1> QED
  BY <1>1, PassesInOrder, PTL

-----------------------------------------------------------------------------
(* The catalogue *)

\* Only Define::alloca_stack changes a schema, and create_table stores the same
\* one; a restart forgets the schemas and keeps LevelDB.
LEMMA LocalStep ==
  ASSUME PassInv, LocalIsStored, [Next]_vars
  PROVE  LocalIsStored'
<1> USE DEF catalogue, context, tableaus, LocalIsStored
<1>0. CASE UNCHANGED <<leveldb, schemas>>
  BY <1>0, Zenon
<1>1. CASE schemas' = << >>
  BY <1>1
<1>2. CASE AllocaStep
  <2>1. CASE prog[target].op = "define"
    <3>1. PICK s : /\ schemas' = Put(schemas, prog[target].name, s)
                   /\ leveldb' = Put(leveldb, prog[target].name, s)
      BY <1>2, <2>1, Zenon DEF AllocaStep, Reserves
    <3> QED
      BY <3>1, Zenon DEF Put
  <2>2. CASE prog[target].op # "define"
    BY <1>0, <1>2, <2>2, Zenon DEF AllocaStep, Reserves, shared
  <2> QED
    BY <2>1, <2>2, Zenon
<1>3. CASE Next
  <2>1. CASE \E p \in Programs[workload] : Start(p)
    BY <1>0, <2>1, Zenon DEF Start
  <2>2. CASE Restart \/ Finish
    BY <1>1, <2>2, Zenon DEF Restart, Finish, ClearContext
  <2>3. CASE NextPass \/ AddModule \/ RunStep \/ EndStep
    BY <1>0, <2>3, Zenon DEF NextPass, AddModule, RunStep, EndStep, End
  <2>4. CASE AnalyzeStep \/ CodegenStep
    BY <1>0, <2>4, Zenon DEF AnalyzeStep, CodegenStep, shared
  <2> QED
    BY <1>2, <1>3, <2>1, <2>2, <2>3, <2>4, Steps, Zenon DEF PassInv
<1> QED
  BY <1>0, <1>3, Zenon DEF vars

\* A program compiles against what LevelDB holds, however often its tables were
\* defined before, in this process or an earlier one.
THEOREM CompiledSchemasAreStored == Spec => []LocalIsStored
<1>1. Init => LocalIsStored
  BY Zenon DEF Init, LocalIsStored
<1> QED
  BY <1>1, LocalStep, PassesInOrder, PTL DEF Spec

-----------------------------------------------------------------------------
(***************************************************************************)
(* What alloca_stack has reserved when codegen begins: the buffers, row    *)
(* types and slots of every program, against its text.                     *)
(***************************************************************************)

(* What alloca_stack has reserved for the statements it has seen *)

Allocated(k) == pass \in {"codegen", "run"} \/ (pass = "alloca" /\ k < pc)

DefinedAbove(p, k) ==
  \E j \in 1 .. k - 1 : p[j].op = "define" /\ p[j].name = p[k].name

\* local_schema_table_ has tables that were defined up to the statement at
\* hand: the initialiser of a For is allocated before its turn.
SchemasInv ==
  pass = "alloca" => \A n \in DOMAIN schemas :
    \E j \in DOMAIN prog :
      j <= pc /\ prog[j].op = "define" /\ prog[j].name = n

\* The buffers of an insert and a scan have the schema of their table, unless
\* it is defined again below.
BuffersInv ==
  \A k \in DOMAIN prog :
    Allocated(k) /\ prog[k].op \in {"insert", "scan"} =>
      /\ DefinedAbove(prog, k)
      /\ prog[k].name \in DOMAIN schemas /\ k \in DOMAIN bufs
      /\ bufs[k] = schemas[prog[k].name] \/ DefinedAgain(prog, k)

\* The row of a scan has the scan's own type, unless its name is declared
\* again below.
RowTypesInv ==
  \A k \in DOMAIN prog :
    Allocated(k) /\ prog[k].op = "scan" =>
      /\ prog[k].arg \in DOMAIN row_types
      /\ row_types[prog[k].arg] = k \/ DeclaredAgain(prog, k, prog[k].arg)

\* d declares v, and nothing from there to the statement k does.
Nearest(p, d, k, v) ==
  /\ d \in DOMAIN p /\ Declares(p[d], v)
  /\ \A j \in DOMAIN p : d < j /\ j < k => ~Declares(p[j], v)

\* variable_table_ has the last declaration so far.
SlotsInv ==
  pass = "alloca" => \A v \in DOMAIN slots :
    slots[v] <= pc /\ Nearest(prog, slots[v], pc, v)

\* The copy of an emit has the type of the nearest declaration above, which
\* is in variable_table_ unless the variable is declared again below.
EmitsInv ==
  \A k \in DOMAIN prog :
    Allocated(k) /\ prog[k].op = "emit" =>
      /\ prog[k].name \in DOMAIN slots /\ k \in DOMAIN bufs
      /\ bufs[k] < k /\ Nearest(prog, bufs[k], k, prog[k].name)
      /\ slots[prog[k].name] = bufs[k] \/ DeclaredAgain(prog, k, prog[k].name)

ReserveInv == SchemasInv /\ BuffersInv /\ RowTypesInv /\ SlotsInv /\ EmitsInv

\* The statement whose alloca_stack runs is the one at hand or, below a For, the
\* next.
LEMMA Target ==
  ASSUME PassInv, AllocaStep
  PROVE  /\ DOMAIN prog = 1 .. Len(prog) /\ Len(prog) \in Nat
         /\ pc \in DOMAIN prog /\ target \in DOMAIN prog
         /\ \/ target = pc
            \/ target = pc + 1 /\ prog[pc].op = "for"
         /\ pc' = pc + 1 /\ prog' = prog /\ pass' = "alloca" /\ pass = "alloca"
<1>1. /\ pc <= Len(prog) /\ pass = "alloca"
      /\ pc' = pc + 1 /\ prog' = prog /\ pass' = "alloca"
  BY Zenon DEF AllocaStep, Advance
<1>2. /\ DOMAIN prog = 1 .. Len(prog) /\ Len(prog) \in Nat /\ pc \in DOMAIN prog
      /\ prog[pc].op = "for" => pc < Len(prog)
  BY <1>1 DEF PassInv, GoodProgram
<1>3. CASE prog[pc].op = "for"
  BY <1>1, <1>2, <1>3 DEF target, stmt
<1>4. CASE prog[pc].op # "for"
  BY <1>1, <1>2, <1>4, Zenon DEF target, stmt
<1> QED
  BY <1>3, <1>4, Zenon

\* A table is in local_schema_table_ because of a Define that was allocated.
LEMMA AllocaSchemas ==
  ASSUME PassInv, SchemasInv, AllocaStep
  PROVE  SchemasInv'
<1> SUFFICES ASSUME NEW n \in DOMAIN schemas'
             PROVE  \E j \in DOMAIN prog :
                      j <= pc + 1 /\ prog[j].op = "define" /\ prog[j].name = n
  BY Target DEF SchemasInv
<1>1. CASE n \in DOMAIN schemas
  <2>1. PICK j \in DOMAIN prog :
               j <= pc /\ prog[j].op = "define" /\ prog[j].name = n
    BY <1>1, Target, Zenon DEF SchemasInv
  <2> QED
    BY <2>1, Target
<1>2. CASE n \notin DOMAIN schemas
  <2>1. prog[target].op = "define"
    BY <1>2, Zenon DEF AllocaStep, Reserves, shared
  <2>2. PICK s : schemas' = Put(schemas, prog[target].name, s)
    BY <2>1, Zenon DEF AllocaStep, Reserves
  <2>3. n = prog[target].name
    BY <1>2, <2>2, Zenon DEF Put
  <2> QED
    BY <2>1, <2>3, Target
<1> QED
  BY <1>1, <1>2, Zenon

\* The buffers of the statements above stay what they are.
LEMMA BufsAbove ==
  ASSUME PassInv, AllocaStep, NEW k \in DOMAIN prog, k < pc, k \in DOMAIN bufs
  PROVE  k \in DOMAIN bufs' /\ bufs'[k] = bufs[k]
<1>1. k # target
  BY Target
<1>2. bufs' = bufs \/ \E v : bufs' = Put(bufs, target, v)
  BY Zenon DEF AllocaStep, Reserves, shared
<1> QED
  BY <1>1, <1>2, Zenon DEF Put

\* Insert and Scan reserve for the schema there is; a later Define of the table
\* is below them in the program.
LEMMA AllocaBuffers ==
  ASSUME PassInv, SchemasInv, BuffersInv, AllocaStep
  PROVE  BuffersInv'
<1> SUFFICES ASSUME NEW k \in DOMAIN prog, k < pc + 1,
                    prog[k].op \in {"insert", "scan"}
             PROVE  /\ DefinedAbove(prog, k)
                    /\ prog[k].name \in DOMAIN schemas' /\ k \in DOMAIN bufs'
                    /\ bufs'[k] = schemas'[prog[k].name] \/ DefinedAgain(prog, k)
  BY Target, Zenon DEF BuffersInv, Allocated
<1> DEFINE n == prog[k].name
<1>1. CASE k < pc
  <2>1. /\ DefinedAbove(prog, k) /\ n \in DOMAIN schemas /\ k \in DOMAIN bufs
        /\ bufs[k] = schemas[n] \/ DefinedAgain(prog, k)
    BY <1>1, Target, Zenon DEF BuffersInv, Allocated
  <2>2. k \in DOMAIN bufs' /\ bufs'[k] = bufs[k]
    BY <1>1, <2>1, BufsAbove, Zenon
  <2>3. CASE prog[target].op = "define"
    <3>1. PICK s : schemas' = Put(schemas, prog[target].name, s)
      BY <2>3, Zenon DEF AllocaStep, Reserves
    <3>2. n \in DOMAIN schemas'
      BY <2>1, <3>1, Zenon DEF Put
    <3>3. schemas'[n] = schemas[n] \/ prog[target].name = n
      BY <2>1, <3>1, Zenon DEF Put
    <3>4. target > k
      BY <1>1, Target, Zenon
    <3>5. prog[target].name = n => DefinedAgain(prog, k)
      BY <2>3, <3>4, Target, Zenon DEF DefinedAgain
    <3> QED
      BY <2>1, <2>2, <3>2, <3>3, <3>5, Zenon
  <2>4. CASE prog[target].op # "define"
    <3>1. schemas' = schemas
      BY <2>4, Zenon DEF AllocaStep, Reserves, shared
    <3> QED
      BY <2>1, <2>2, <3>1, Zenon
  <2> QED
    BY <2>3, <2>4, Zenon
<1>2. CASE k = pc
  <2>1. target = pc
    BY <1>2, Target, Zenon
  <2>2. n \in DOMAIN schemas /\ schemas' = schemas /\ bufs' = Put(bufs, k, schemas[n])
    BY <1>2, <2>1, Zenon DEF AllocaStep, Reserves
  <2>3. PICK j \in DOMAIN prog :
               j <= pc /\ prog[j].op = "define" /\ prog[j].name = n
    BY <2>2, Target, Zenon DEF SchemasInv
  <2>4. j \in 1 .. k - 1
    BY <1>2, <2>3, Target
  <2> QED
    BY <2>2, <2>3, <2>4, Zenon DEF DefinedAbove, Put
<1> QED
  BY <1>1, <1>2, Target

\* A scan registers its own row type; who replaces it is below it in the program.
LEMMA AllocaRowTypes ==
  ASSUME PassInv, RowTypesInv, AllocaStep
  PROVE  RowTypesInv'
<1> SUFFICES ASSUME NEW k \in DOMAIN prog, k < pc + 1, prog[k].op = "scan"
             PROVE  /\ prog[k].arg \in DOMAIN row_types'
                    /\ \/ row_types'[prog[k].arg] = k
                       \/ DeclaredAgain(prog, k, prog[k].arg)
  BY Target, Zenon DEF RowTypesInv, Allocated
<1> DEFINE v == prog[k].arg
<1>1. CASE k < pc
  <2>1. v \in DOMAIN row_types /\ (row_types[v] = k \/ DeclaredAgain(prog, k, v))
    BY <1>1, Target, Zenon DEF RowTypesInv, Allocated
  <2>2. CASE prog[target].op = "scan"
    <3>1. row_types' = Put(row_types, prog[target].arg, target)
      BY <2>2, Zenon DEF AllocaStep, Reserves
    <3>2. target > k
      BY <1>1, Target, Zenon
    <3>3. prog[target].arg = v => DeclaredAgain(prog, k, v)
      BY <2>2, <3>2, Target, Zenon DEF DeclaredAgain, Declares
    <3>4. v \in DOMAIN row_types'
      BY <2>1, <3>1, Zenon DEF Put
    <3>5. prog[target].arg # v => row_types'[v] = row_types[v]
      BY <2>1, <3>1, Zenon DEF Put
    <3> QED
      BY <2>1, <3>3, <3>4, <3>5, Zenon
  <2>3. CASE prog[target].op # "scan"
    <3>1. row_types' = row_types
      BY <2>3, Zenon DEF AllocaStep, Reserves, shared
    <3> QED
      BY <2>1, <3>1, Zenon
  <2> QED
    BY <2>2, <2>3, Zenon
<1>2. CASE k = pc
  <2>1. target = pc
    BY <1>2, Target, Zenon
  <2>2. row_types' = Put(row_types, v, k)
    BY <1>2, <2>1, Zenon DEF AllocaStep, Reserves
  <2> QED
    BY <2>2, Zenon DEF Put
<1> QED
  BY <1>1, <1>2, Target

\* A step changes the slot of the variable that its statement declares.
LEMMA SlotsStep ==
  ASSUME PassInv, AllocaStep, NEW v \in DOMAIN slots'
  PROVE  \/ slots'[v] = target /\ Declares(prog[target], v)
         \/ /\ v \in DOMAIN slots /\ slots'[v] = slots[v]
            /\ ~Declares(prog[target], v)
<1>1. CASE prog[target].op = "scan"
  <2>1. slots' = Put(slots, prog[target].arg, target)
    BY <1>1, Zenon DEF AllocaStep, Reserves
  <2> QED
    BY <1>1, <2>1, Zenon DEF Put, Declares
<1>2. CASE prog[target].op = "let"
  <2>1. slots' = Put(slots, prog[target].name, target)
    BY <1>2, Zenon DEF AllocaStep, Reserves
  <2> QED
    BY <1>2, <2>1, Zenon DEF Put, Declares
<1>3. CASE prog[target].op \notin {"scan", "let"}
  <2>1. slots' = slots
    BY <1>3, Zenon DEF AllocaStep, Reserves, shared
  <2> QED
    BY <1>3, <2>1, Zenon DEF Declares
<1> QED
  BY <1>1, <1>2, <1>3, Zenon

\* A slot is never given back.
LEMMA SlotsStay ==
  ASSUME AllocaStep, NEW v \in DOMAIN slots
  PROVE  v \in DOMAIN slots'
<1>1. slots' = slots \/ \E x, d : slots' = Put(slots, x, d)
  BY Zenon DEF AllocaStep, Reserves, shared
<1> QED
  BY <1>1, Zenon DEF Put

\* The statement at hand takes the slot of the variable it declares, and a For
\* that of its initialiser.
LEMMA AllocaSlots ==
  ASSUME PassInv, SlotsInv, AllocaStep
  PROVE  SlotsInv'
<1> SUFFICES ASSUME NEW v \in DOMAIN slots'
             PROVE  slots'[v] <= pc + 1 /\ Nearest(prog, slots'[v], pc + 1, v)
  BY Target, Zenon DEF SlotsInv
<1>1. CASE slots'[v] = target /\ Declares(prog[target], v)
  BY <1>1, Target DEF Nearest
<1>2. CASE /\ v \in DOMAIN slots /\ slots'[v] = slots[v]
           /\ ~Declares(prog[target], v)
  <2>1. slots[v] <= pc /\ Nearest(prog, slots[v], pc, v)
    BY <1>2, Target, Zenon DEF SlotsInv
  <2>2. ~Declares(prog[pc], v)
    BY <1>2, Target, Zenon DEF Declares
  <2>3. \A j \in DOMAIN prog : slots[v] < j /\ j < pc + 1 => ~Declares(prog[j], v)
    BY <2>1, <2>2, Target DEF Nearest
  <2>4. slots[v] \in DOMAIN prog /\ Declares(prog[slots[v]], v)
    BY <2>1, Zenon DEF Nearest
  <2>5. slots[v] <= pc + 1
    BY <2>1, <2>4, Target
  <2> QED
    BY <1>2, <2>3, <2>4, <2>5, Zenon DEF Nearest
<1> QED
  BY <1>1, <1>2, SlotsStep, Zenon

\* Emit copies the slot of the nearest declaration above it.
LEMMA AllocaEmits ==
  ASSUME PassInv, SlotsInv, EmitsInv, AllocaStep
  PROVE  EmitsInv'
<1> SUFFICES ASSUME NEW k \in DOMAIN prog, k < pc + 1, prog[k].op = "emit"
             PROVE  /\ prog[k].name \in DOMAIN slots' /\ k \in DOMAIN bufs'
                    /\ bufs'[k] < k /\ Nearest(prog, bufs'[k], k, prog[k].name)
                    /\ \/ slots'[prog[k].name] = bufs'[k]
                       \/ DeclaredAgain(prog, k, prog[k].name)
  BY Target, Zenon DEF EmitsInv, Allocated
<1> DEFINE v == prog[k].name
<1>1. CASE k < pc
  <2>1. /\ v \in DOMAIN slots /\ k \in DOMAIN bufs
        /\ bufs[k] < k /\ Nearest(prog, bufs[k], k, v)
        /\ slots[v] = bufs[k] \/ DeclaredAgain(prog, k, v)
    BY <1>1, Target, Zenon DEF EmitsInv, Allocated
  <2>2. k \in DOMAIN bufs' /\ bufs'[k] = bufs[k]
    BY <1>1, <2>1, BufsAbove, Zenon
  <2>3. v \in DOMAIN slots'
    BY <2>1, SlotsStay, Zenon
  <2>4. target > k
    BY <1>1, Target, Zenon
  <2>5. Declares(prog[target], v) => DeclaredAgain(prog, k, v)
    BY <2>4, Target, Zenon DEF DeclaredAgain
  <2>6. slots'[v] = slots[v] \/ DeclaredAgain(prog, k, v)
    BY <2>3, <2>5, SlotsStep, Zenon
  <2> QED
    BY <2>1, <2>2, <2>3, <2>6, Zenon
<1>2. CASE k = pc
  <2>1. target = pc
    BY <1>2, Target, Zenon
  <2>2. v \in DOMAIN slots /\ slots' = slots /\ bufs' = Put(bufs, k, slots[v])
    BY <1>2, <2>1, Zenon DEF AllocaStep, Reserves
  <2>3. slots[v] <= pc /\ Nearest(prog, slots[v], pc, v)
    BY <2>2, Target, Zenon DEF SlotsInv
  <2>4. slots[v] # pc
    BY <1>2, <2>3, Zenon DEF Nearest, Declares
  <2>5. slots[v] < k
    BY <1>2, <2>3, <2>4, Target DEF Nearest
  <2>6. k \in DOMAIN bufs' /\ bufs'[k] = slots[v]
    BY <2>2, Zenon DEF Put
  <2> QED
    BY <1>2, <2>2, <2>3, <2>5, <2>6, Zenon
<1> QED
  BY <1>1, <1>2, Target

\* Only alloca_stack changes what is reserved: before it nothing is, and the
\* passes after it leave it alone.
LEMMA ReserveStep ==
  ASSUME PassInv, ReserveInv, [Next]_vars
  PROVE  ReserveInv'
<1> USE DEF catalogue, context, tableaus
<1>1. CASE pass' \notin {"alloca", "codegen", "run"}
  BY <1>1, Zenon DEF ReserveInv, SchemasInv, BuffersInv, RowTypesInv, SlotsInv, EmitsInv,
              Allocated
<1>2. CASE UNCHANGED <<shared, prog, pass, pc>>
  BY <1>2, Zenon DEF ReserveInv, SchemasInv, BuffersInv, RowTypesInv, SlotsInv, EmitsInv,
              Allocated, shared
<1>3. ASSUME UNCHANGED <<shared, prog>>, pass' \in {"codegen", "run"},
             \A k \in DOMAIN prog : Allocated(k)
      PROVE  ReserveInv'
  BY <1>3, Zenon DEF ReserveInv, SchemasInv, BuffersInv, RowTypesInv, SlotsInv, EmitsInv,
              Allocated, shared
<1>4. CASE NextPass
  <2>1. CASE pass = "analyze"
    <3>1. /\ pass' = "alloca" /\ pc' = 1 /\ prog' = prog
          /\ schemas' = << >> /\ slots' = << >>
      BY <1>4, <2>1, Zenon DEF NextPass, PassInv
    <3>2. \A k \in DOMAIN prog : ~(k < 1)
      BY DEF PassInv, GoodProgram
    <3>3. \A k \in DOMAIN prog' : ~Allocated(k)'
      BY <3>1, <3>2, Zenon DEF Allocated
    <3>4. BuffersInv' /\ RowTypesInv' /\ EmitsInv'
      BY <3>3, Zenon DEF BuffersInv, RowTypesInv, EmitsInv
    <3>5. SchemasInv' /\ SlotsInv'
      BY <3>1 DEF SchemasInv, SlotsInv
    <3> QED
      BY <3>4, <3>5, Zenon DEF ReserveInv
  <2>2. CASE pass = "alloca"
    <3>1. \A k \in DOMAIN prog : Allocated(k)
      BY <1>4, <2>2 DEF NextPass, PassInv, GoodProgram, Allocated
    <3> QED
      BY <1>3, <1>4, <2>2, <3>1, Zenon DEF NextPass, shared
  <2> QED
    BY <1>4, <2>1, <2>2, Zenon DEF NextPass
<1>5. CASE AllocaStep
  BY <1>5, AllocaSchemas, AllocaBuffers, AllocaRowTypes, AllocaSlots, AllocaEmits, Zenon
  DEF ReserveInv
<1>6. CASE CodegenStep \/ AddModule \/ RunStep
  <2>1. \A k \in DOMAIN prog : Allocated(k)
    BY <1>6, Zenon DEF CodegenStep, AddModule, RunStep, Allocated
  <2>2. UNCHANGED <<shared, prog>> /\ pass' \in {"codegen", "run"}
    BY <1>6, Zenon DEF CodegenStep, AddModule, RunStep, Advance, shared
  <2> QED
    BY <1>3, <2>1, <2>2, Zenon
<1>7. CASE (\E p \in Programs[workload] : Start(p)) \/ Restart \/ Finish
  BY <1>1, <1>7, Zenon DEF Start, Restart, Finish, ClearContext
<1>8. CASE EndStep \/ AnalyzeStep
  BY <1>1, <1>8, Zenon DEF EndStep, End, Ends, AnalyzeStep, Advance
<1>9. CASE Next
  BY <1>4, <1>5, <1>6, <1>7, <1>8, <1>9, Steps, Zenon DEF PassInv
<1> QED
  BY <1>2, <1>9, Zenon DEF vars, shared

\* What is reserved is right in every state.
THEOREM ReservedRight == Spec => []ReserveInv
<1>1. Init => ReserveInv
  BY Zenon DEF Init, ReserveInv, SchemasInv, BuffersInv, RowTypesInv, SlotsInv, EmitsInv,
         Allocated
<1> QED
  BY <1>1, ReserveStep, PassesInOrder, PTL DEF Spec

\* A program that gets to codegen defines its tables above their uses, whatever
\* is in the catalogue.
THEOREM TablesAreOwn == Spec => []UsesOwnTables
<1>1. BuffersInv => UsesOwnTables
  BY Zenon DEF BuffersInv, Allocated, DefinedAbove, UsesOwnTables, Statements
<1> QED
  BY <1>1, ReservedRight, PTL DEF ReserveInv

-----------------------------------------------------------------------------
(***************************************************************************)
(* What the code of a statement works with is what was reserved for it:    *)
(* of every program, the last pass uses the maps as the pass before has    *)
(* left them.                                                              *)
(***************************************************************************)

(* What codegen has made of the statements it has seen *)

\* Codegen is past every statement that has code.
CodeBehind ==
  /\ DOMAIN code \subseteq DOMAIN prog
  /\ pass = "codegen" => \A k \in DOMAIN code : k < pc

\* A let fills the slot of its name, and a scan its own.
FillsInv ==
  pass = "codegen" => \A k \in DOMAIN prog :
    k < pc /\ prog[k].op \in {"let", "scan"} =>
      /\ k \in DOMAIN code
      /\ code[k].slot = IF prog[k].op = "let" THEN slots[prog[k].name] ELSE k

\* An emit reads the slot that the nearest declaration above fills.
ReadsNearest(k) ==
  LET d == code[k].slot
  IN  /\ d \in DOMAIN code /\ d < k /\ Nearest(prog, d, k, prog[k].name)
      /\ bufs[k] = d
      /\ code[d].slot = d

EmitCodeInv ==
  \A k \in DOMAIN code : prog[k].op = "emit" =>
    DeclaredAgain(prog, k, prog[k].name) \/ ReadsNearest(k)

CodeInv == CodeBehind /\ FillsInv /\ BuffersFit /\ EmitCodeInv

\* The code of a statement is made once, after that of those above it.
LEMMA CodePut ==
  ASSUME PassInv, CodeBehind, CodegenStep
  PROVE  /\ DOMAIN prog = 1 .. Len(prog) /\ Len(prog) \in Nat
         /\ pc \in DOMAIN prog /\ pc \notin DOMAIN code
         /\ pc' = pc + 1 /\ prog' = prog /\ pass = "codegen" /\ pass' = "codegen"
         /\ UNCHANGED <<schemas, slots, row_types, bufs>>
         /\ \A k \in DOMAIN code : k \in DOMAIN code' /\ code'[k] = code[k]
         /\ \A k \in DOMAIN code' : k \in DOMAIN code \/ k = pc
         /\ prog[pc].op \notin {"define", "tuple", "for"} => pc \in DOMAIN code'
         /\ pc \in DOMAIN code' => Fits(pc, code'[pc])
<1>1. /\ DOMAIN prog = 1 .. Len(prog) /\ Len(prog) \in Nat /\ pc \in DOMAIN prog
  BY DEF PassInv, GoodProgram, CodegenStep
<1>2. /\ pc' = pc + 1 /\ prog' = prog /\ pass = "codegen" /\ pass' = "codegen"
      /\ UNCHANGED <<schemas, slots, row_types, bufs>>
  BY Zenon DEF CodegenStep, Advance, shared
<1>3. pc \notin DOMAIN code
  BY <1>1, <1>2 DEF CodeBehind
<1>4. CASE code' = code /\ prog[pc].op \in {"define", "tuple", "for"}
  BY <1>1, <1>2, <1>3, <1>4, Zenon
<1>5. ASSUME NEW c, Fits(pc, c), code' = Put(code, pc, c)
      PROVE  /\ \A k \in DOMAIN code : k \in DOMAIN code' /\ code'[k] = code[k]
             /\ \A k \in DOMAIN code' : k \in DOMAIN code \/ k = pc
             /\ pc \in DOMAIN code' /\ Fits(pc, code'[pc])
  <2>1. DOMAIN code' = DOMAIN code \cup {pc} /\ code'[pc] = c
    BY <1>5, Zenon DEF Put
  <2>2. \A k \in DOMAIN code : code'[k] = code[k]
    BY <1>3, <1>5, Zenon DEF Put
  <2> QED
    BY <1>5, <2>1, <2>2, Zenon
<1> QED
  BY <1>1, <1>2, <1>3, <1>4, <1>5, Zenon DEF CodegenStep

\* Let stores to the slot of its name and Scan to its own.
LEMMA CodegenFills ==
  ASSUME PassInv, CodeBehind, FillsInv, CodegenStep
  PROVE  CodeBehind' /\ FillsInv'
<1>1. CodeBehind'
  BY CodePut DEF CodeBehind
<1>2. ASSUME NEW k \in DOMAIN prog, k < pc + 1, prog[k].op \in {"let", "scan"}
      PROVE  /\ k \in DOMAIN code'
             /\ code'[k].slot = IF prog[k].op = "let" THEN slots[prog[k].name] ELSE k
  <2>1. CASE k < pc
    BY <1>2, <2>1, CodePut, Zenon DEF FillsInv
  <2>2. CASE k = pc
    BY <1>2, <2>2, CodePut, Zenon DEF Fits
  <2> QED
    BY <1>2, <2>1, <2>2, CodePut
<1>3. FillsInv'
  BY <1>2, CodePut, Zenon DEF FillsInv
<1> QED
  BY <1>1, <1>3, Zenon

\* Insert::codegen and Scan::codegen find what was reserved for them, or what a
\* statement below has put in its place.
LEMMA CodegenBuffers ==
  ASSUME PassInv, ReserveInv, CodeBehind, BuffersFit, CodegenStep
  PROVE  BuffersFit'
<1> SUFFICES ASSUME NEW k \in DOMAIN code'
             PROVE  /\ prog[k].op \in {"insert", "scan"} =>
                         code'[k].schema = bufs[k] \/ DefinedAgain(prog, k)
                    /\ prog[k].op = "scan" =>
                         code'[k].row_type = k \/ DeclaredAgain(prog, k, prog[k].arg)
  BY CodePut, Zenon DEF BuffersFit
<1>1. CASE k \in DOMAIN code
  BY <1>1, CodePut, Zenon DEF BuffersFit
<1>2. CASE k = pc
  <2>1. Fits(pc, code'[pc])
    BY <1>2, CodePut, Zenon
  <2>2. Allocated(pc)
    BY CodePut, Zenon DEF Allocated
  <2>3. prog[pc].op \in {"insert", "scan"} =>
          code'[pc].schema = bufs[pc] \/ DefinedAgain(prog, pc)
    BY <2>1, <2>2, CodePut, Zenon DEF Fits, ReserveInv, BuffersInv
  <2>4. prog[pc].op = "scan" =>
          code'[pc].row_type = pc \/ DeclaredAgain(prog, pc, prog[pc].arg)
    BY <2>1, <2>2, CodePut, Zenon DEF Fits, ReserveInv, RowTypesInv
  <2> QED
    BY <1>2, <2>3, <2>4, Zenon
<1> QED
  BY <1>1, <1>2, CodePut, Zenon

\* Emit::codegen reads the slot that the nearest declaration above fills.
LEMMA CodegenEmits ==
  ASSUME PassInv, ReserveInv, CodeBehind, FillsInv, EmitCodeInv, CodegenStep
  PROVE  EmitCodeInv'
<1> DEFINE Reads(k) ==
      LET d == code'[k].slot
      IN  /\ d \in DOMAIN code' /\ d < k /\ Nearest(prog, d, k, prog[k].name)
          /\ bufs[k] = d
          /\ code'[d].slot = d
<1> SUFFICES ASSUME NEW k \in DOMAIN code', prog[k].op = "emit",
                    ~DeclaredAgain(prog, k, prog[k].name)
             PROVE  Reads(k)
  BY CodePut, ZenonT(30) DEF EmitCodeInv, ReadsNearest
<1> DEFINE v == prog[k].name
<1>1. CASE k \in DOMAIN code
  <2>1. ReadsNearest(k)
    BY <1>1, Zenon DEF EmitCodeInv
  <2> QED
    BY <1>1, <2>1, CodePut, Zenon DEF ReadsNearest
<1>2. CASE k = pc
  <2>1. code'[k].slot = slots[v]
    BY <1>2, CodePut, Zenon DEF Fits
  <2>2. Allocated(k) /\ k \in DOMAIN prog
    BY <1>2, CodePut, Zenon DEF Allocated
  <2>3. bufs[k] < k /\ Nearest(prog, bufs[k], k, v) /\ slots[v] = bufs[k]
    BY <2>2, Zenon DEF ReserveInv, EmitsInv
  <2> DEFINE d == slots[v]
  <2>4. d \in DOMAIN prog /\ d < pc /\ Declares(prog[d], v)
    BY <1>2, <2>3, Zenon DEF Nearest
  <2>5. d \in DOMAIN code /\ code[d].slot = d
    BY <2>4, CodePut, Zenon DEF FillsInv, Declares
  <2>6. d \in DOMAIN code' /\ code'[d].slot = d
    BY <2>5, CodePut, Zenon
  <2> QED
    BY <2>1, <2>3, <2>6, Zenon
<1> QED
  BY <1>1, <1>2, CodePut, Zenon

\* Only codegen makes code: before it there is none, and after it nothing that
\* the code was made for changes.
LEMMA CodeStep ==
  ASSUME PassInv, ReserveInv, CodeInv, [Next]_vars
  PROVE  CodeInv'
<1> USE DEF catalogue, context, tableaus
<1>1. ASSUME code' = << >>, pass' = "codegen" => pc' = 1,
             prog' \in Seq(StatementType)
      PROVE  CodeInv'
  <2>1. DOMAIN code' = {}
    BY <1>1
  <2>2. \A k \in DOMAIN prog' : ~(k < 1)
    BY <1>1
  <2>3. CodeBehind' /\ BuffersFit' /\ EmitCodeInv'
    BY <2>1, Zenon DEF CodeBehind, BuffersFit, EmitCodeInv
  <2>4. FillsInv'
    BY <1>1, <2>2, Zenon DEF FillsInv
  <2> QED
    BY <2>3, <2>4, Zenon DEF CodeInv
<1>2. ASSUME UNCHANGED <<code, prog, bufs>>
      PROVE  BuffersFit' /\ EmitCodeInv'
  <2>1. BuffersFit'
    BY <1>2, Zenon DEF CodeInv, BuffersFit
  <2>2. EmitCodeInv'
    BY <1>2, Zenon DEF CodeInv, EmitCodeInv, ReadsNearest
  <2> QED
    BY <2>1, <2>2, Zenon
<1>3. CASE UNCHANGED <<code, prog, bufs, slots, pass, pc>>
  BY <1>2, <1>3, Zenon DEF CodeInv, CodeBehind, FillsInv
<1>4. CASE CodegenStep
  BY <1>4, CodegenFills, CodegenBuffers, CodegenEmits, Zenon DEF CodeInv
<1>5. prog' \in Seq(StatementType)
  BY PassStep, Zenon DEF PassInv, GoodProgram
<1>6. CASE (\E p \in Programs[workload] : Start(p)) \/ Restart \/ Finish
  BY <1>1, <1>5, <1>6, Zenon DEF Start, Restart, Finish, ClearContext, PassInv
<1>7. CASE NextPass
  BY <1>1, <1>5, <1>7, Zenon DEF NextPass, PassInv
<1>8. CASE AnalyzeStep \/ AllocaStep
  BY <1>1, <1>5, <1>8, Zenon DEF AnalyzeStep, AllocaStep, Advance, PassInv
<1>9. CASE EndStep \/ AddModule \/ RunStep
  <2>1. UNCHANGED <<code, prog, bufs>> /\ pass' # "codegen"
    BY <1>9, Zenon DEF EndStep, End, Ends, AddModule, RunStep
  <2> QED
    BY <1>2, <2>1, Zenon DEF CodeInv, CodeBehind, FillsInv
<1>10. CASE Next
  BY <1>4, <1>6, <1>7, <1>8, <1>9, <1>10, Steps, Zenon DEF PassInv
<1> QED
  BY <1>3, <1>10, Zenon DEF vars

\* The code is right in every state.
THEOREM CodeRight == Spec => []CodeInv
<1>1. Init => CodeInv
  BY DEF Init, CodeInv, CodeBehind, FillsInv, BuffersFit, EmitCodeInv
<1> QED
  BY <1>1, CodeStep, PassesInOrder, ReservedRight, PTL DEF Spec

\* In every program an insert and a scan work with the schema their buffers were
\* made for, and a scan with its own row type, unless the program defines the
\* table or declares the variable again below.
THEOREM BuffersAlwaysFit == Spec => []BuffersFit
  BY CodeRight, PTL DEF CodeInv

\* In every program an emit reads what the nearest declaration above it wrote,
\* unless the program declares the variable again below.
THEOREM EmitsReadNearest == Spec => []EmitReadsNearest
<1>1. PassInv /\ CodeInv => EmitReadsNearest
  <2> SUFFICES ASSUME PassInv, CodeInv, NEW k \in DOMAIN code, prog[k].op = "emit",
                      ~DeclaredAgain(prog, k, prog[k].name)
               PROVE  LET d == code[k].slot
                      IN  /\ d < k /\ Declares(prog[d], prog[k].name)
                          /\ \A j \in d + 1 .. k - 1 : ~Declares(prog[j], prog[k].name)
                          /\ bufs[k] = d
                          /\ code[d].slot = d
    BY Zenon DEF EmitReadsNearest
  <2> DEFINE d == code[k].slot
  <2>1. ReadsNearest(k)
    BY Zenon DEF CodeInv, EmitCodeInv
  <2>2. DOMAIN prog = 1 .. Len(prog) /\ Len(prog) \in Nat /\ k \in DOMAIN prog
    BY DEF PassInv, GoodProgram, CodeInv, CodeBehind
  <2>3. d \in DOMAIN prog /\ Declares(prog[d], prog[k].name)
    BY <2>1, Zenon DEF ReadsNearest, Nearest
  <2>4. \A j \in d + 1 .. k - 1 : j \in DOMAIN prog /\ d < j /\ j < k
    BY <2>2, <2>3
  <2>5. \A j \in d + 1 .. k - 1 : ~Declares(prog[j], prog[k].name)
    BY <2>1, <2>4, Zenon DEF ReadsNearest, Nearest
  <2> QED
    BY <2>1, <2>3, <2>5, Zenon DEF ReadsNearest
<1> QED
  BY <1>1, PassesInOrder, CodeRight, PTL

-----------------------------------------------------------------------------
(***************************************************************************)
(* What analyze has resolved: the types of tables, rows and members, for   *)
(* every program.                                                          *)
(***************************************************************************)

Analysed(k) ==
  pass \in {"alloca", "codegen", "run"} \/ (pass = "analyze" /\ k < pc)

\* The columns of a table.
Columns(s) ==
  \E S : s \in Seq(S) /\ \A x \in S : x.key \in BOOLEAN /\ x.nullable \in BOOLEAN

\* The statement s puts a type under n.
Takes(s, n) ==
  /\ s.name = n
  /\ \/ s.op \in {"define", "tuple"}
     \/ s.op = "let" /\ (s.cols # << >> \/ s.arg = "array")

\* e defines n, and no statement from there to k puts another type there.
GivesType(p, e, k, n) ==
  /\ e \in DOMAIN p /\ e < k /\ p[e].op = "define" /\ p[e].name = n
  /\ \A j \in DOMAIN p : e < j /\ j < k => ~Takes(p[j], n)

\* Every table and tuple that was analyzed has its columns.
AttrsInv ==
  /\ \A k \in DOMAIN attrs : Columns(attrs[k])
  /\ \A k \in DOMAIN prog :
       Analysed(k) /\ prog[k].op \in {"define", "tuple"} => k \in DOMAIN attrs

\* analyze_type_table_ has the columns of the table that was defined last under
\* a name, if nothing else has taken it.
TypesInv ==
  pass = "analyze" => \A e \in DOMAIN prog :
    GivesType(prog, e, pc, prog[e].name) =>
      /\ prog[e].name \in DOMAIN types
      /\ types[prog[e].name] = Type("TUPLE", attrs[e])

\* The variable of a scan has the columns of that table.
VarInv ==
  pass = "analyze" => \A d, e \in DOMAIN prog :
    /\ d < pc /\ prog[d].op = "scan" /\ Nearest(prog, d, pc, prog[d].arg)
    /\ GivesType(prog, e, d, prog[d].name)
    => /\ prog[d].arg \in DOMAIN var_types
       /\ var_types[prog[d].arg] = Type("TUPLE", attrs[e])

\* The member of the variable d of a scan is the column of the table e that has
\* its name.
Finds(k, d, e) ==
  prog[d].op = "scan" /\ d < k /\ Nearest(prog, d, k, prog[k].name)
    /\ GivesType(prog, e, d, prog[d].name) =>
      /\ members[k].offset + 1 \in DOMAIN attrs[e]
      /\ attrs[e][members[k].offset + 1].name = prog[k].arg

MemberInv ==
  \A k \in DOMAIN prog : Analysed(k) /\ prog[k].op = "member" =>
    k \in DOMAIN members /\ \A d, e \in DOMAIN prog : Finds(k, d, e)

ResolveInv == AttrsInv /\ TypesInv /\ VarInv /\ MemberInv

LEMMA AnalyzeAt ==
  ASSUME PassInv, AnalyzeStep
  PROVE  /\ DOMAIN prog = 1 .. Len(prog) /\ Len(prog) \in Nat
         /\ pc \in DOMAIN prog /\ Resolves(pc)
         /\ pc' = pc + 1 /\ prog' = prog /\ pass' = "analyze" /\ pass = "analyze"
  BY DEF PassInv, GoodProgram, AnalyzeStep, Advance

\* analyze gives a table and a tuple its columns, once.
LEMMA AttrsStep ==
  ASSUME PassInv, AnalyzeStep
  PROVE  /\ \A k \in DOMAIN attrs :
              k \in DOMAIN attrs' /\ (k # pc => attrs'[k] = attrs[k])
         /\ \A k \in DOMAIN attrs' : k \in DOMAIN attrs \/ k = pc
         /\ prog[pc].op \in {"define", "tuple"} =>
              pc \in DOMAIN attrs' /\ Columns(attrs'[pc])
         /\ prog[pc].op \notin {"define", "tuple"} => attrs' = attrs
<1>1. CASE prog[pc].op \in {"define", "tuple"}
  <2>1. PICK a : a = TypesOf(prog[pc].cols) /\ attrs' = Put(attrs, pc, a)
    BY <1>1, AnalyzeAt, Zenon DEF Resolves
  <2>2. PICK cols : cols = prog[pc].cols
    BY Zenon
  <2>3. cols \in Seq(Column)
    <3>1. prog[pc] \in StatementType
      BY AnalyzeAt DEF PassInv, GoodProgram
    <3> QED BY <2>2, <3>1, Zenon DEF StatementType
  <2>4. Columns(a)
    <3> DEFINE S == {a[i] : i \in DOMAIN cols}
    <3>1. a = [i \in DOMAIN cols |->
                 [name |-> cols[i].name, key |-> cols[i].key,
                  nullable |-> cols[i].nullable, id |-> types[TypeKey(cols[i])].id]]
      BY <2>1, <2>2, Zenon DEF TypesOf
    <3>2. DOMAIN cols = 1 .. Len(cols) /\ Len(cols) \in Nat
      BY <2>3
    <3>3. a \in Seq(S)
      BY <3>1, <3>2
    <3>4. ASSUME NEW i \in DOMAIN cols
          PROVE  a[i].key \in BOOLEAN /\ a[i].nullable \in BOOLEAN
      <4>1. cols[i] \in Column
        BY <2>3
      <4>2. cols[i].key \in BOOLEAN /\ cols[i].nullable \in BOOLEAN
        BY <4>1, Zenon DEF Column
      <4>3. a[i].key = cols[i].key /\ a[i].nullable = cols[i].nullable
        BY <3>1, Zenon
      <4> QED BY <4>2, <4>3, Zenon
    <3> QED BY <3>3, <3>4 DEF Columns
  <2>5. DOMAIN attrs' = DOMAIN attrs \cup {pc} /\ attrs'[pc] = a
    BY <2>1, Zenon DEF Put
  <2>6. \A k \in DOMAIN attrs : k # pc => attrs'[k] = attrs[k]
    BY <2>1, Zenon DEF Put
  <2> QED BY <1>1, <2>4, <2>5, <2>6, Zenon
<1>2. CASE prog[pc].op \notin {"define", "tuple"}
  <2>1. attrs' = attrs
    BY <1>2, AnalyzeAt, Zenon DEF Resolves
  <2> QED BY <1>2, <2>1, Zenon
<1> QED BY <1>1, <1>2, Zenon

LEMMA AnalyzeAttrs ==
  ASSUME PassInv, AttrsInv, AnalyzeStep
  PROVE  AttrsInv'
<1>1. \A k \in DOMAIN attrs' : Columns(attrs'[k])
  BY AttrsStep, Zenon DEF AttrsInv
<1>2. ASSUME NEW k \in DOMAIN prog, k < pc + 1, prog[k].op \in {"define", "tuple"}
      PROVE  k \in DOMAIN attrs'
  <2>1. CASE k = pc
    BY <1>2, <2>1, AttrsStep, Zenon
  <2>2. CASE k # pc
    <3>1. k < pc
      BY <1>2, <2>2, AnalyzeAt
    <3>2. k \in DOMAIN attrs
      BY <1>2, <3>1, AnalyzeAt, Zenon DEF AttrsInv, Analysed
    <3> QED BY <3>2, AttrsStep, Zenon
  <2> QED BY <2>1, <2>2, Zenon
<1> QED BY <1>1, <1>2, AnalyzeAt, Zenon DEF AttrsInv, Analysed, Columns

\* A type stays that no statement replaces.
LEMMA TypesStay ==
  ASSUME PassInv, AnalyzeStep, NEW n \in DOMAIN types, ~Takes(prog[pc], n)
  PROVE  n \in DOMAIN types' /\ types'[n] = types[n]
<1>1. Resolves(pc)
  BY AnalyzeAt, Zenon
<1>2. CASE types' = types
  BY <1>2, Zenon
<1>3. ASSUME NEW m, m # n, NEW t, types' = Put(types, m, t)
      PROVE  n \in DOMAIN types' /\ types'[n] = types[n]
  BY <1>3, Zenon DEF Put
<1>4. CASE prog[pc].op \in {"define", "tuple"}
  <2>1. prog[pc].name # n
    BY <1>4, Zenon DEF Takes
  <2> QED BY <1>1, <1>3, <1>4, <2>1, Zenon DEF Resolves
<1>5. CASE prog[pc].op = "scan"
  <2>1. PICK t : /\ types' = t /\ (prog[pc].name \in DOMAIN types => t = types)
                 /\ t = types \/ t = Put(types, prog[pc].name, NullType)
    BY <1>1, <1>5, Zenon DEF Resolves
  <2>2. CASE prog[pc].name = n
    BY <1>2, <2>1, <2>2, Zenon
  <2>3. CASE prog[pc].name # n
    BY <1>2, <1>3, <2>1, <2>3, Zenon
  <2> QED BY <2>2, <2>3, Zenon
<1>6. CASE prog[pc].op = "let"
  <2>1. PICK t : \/ types' = types
                 \/ /\ prog[pc].cols # << >> \/ prog[pc].arg = "array"
                    /\ types' = Put(types, prog[pc].name, t)
    BY <1>1, <1>6, Zenon DEF Resolves
  <2>2. (prog[pc].cols # << >> \/ prog[pc].arg = "array") => prog[pc].name # n
    BY <1>6, Zenon DEF Takes
  <2> QED BY <1>2, <1>3, <2>1, <2>2, Zenon
<1>7. CASE prog[pc].op \notin {"define", "tuple", "scan", "let"}
  BY <1>1, <1>2, <1>7, Zenon DEF Resolves
<1> QED BY <1>4, <1>5, <1>6, <1>7, Zenon

\* A Define puts its columns under its name; they stay until another statement
\* takes the name.
LEMMA AnalyzeTypes ==
  ASSUME PassInv, AttrsInv, TypesInv, AnalyzeStep
  PROVE  TypesInv'
<1> SUFFICES ASSUME NEW e \in DOMAIN prog, GivesType(prog, e, pc + 1, prog[e].name)
             PROVE  /\ prog[e].name \in DOMAIN types'
                    /\ types'[prog[e].name] = Type("TUPLE", attrs'[e])
  BY AnalyzeAt, Zenon DEF TypesInv
<1>1. PICK n : n = prog[e].name
  BY Zenon
<1>2. /\ prog[e].op = "define" /\ e < pc + 1
      /\ \A j \in DOMAIN prog : e < j /\ j < pc + 1 => ~Takes(prog[j], n)
  BY <1>1, Zenon DEF GivesType
<1>3. CASE e = pc
  <2>1. PICK a : /\ attrs' = Put(attrs, pc, a)
                 /\ types' = Put(types, n, Type("TUPLE", a))
    BY <1>1, <1>2, <1>3, AnalyzeAt, Zenon DEF Resolves
  <2>2. attrs'[pc] = a /\ n \in DOMAIN types' /\ types'[n] = Type("TUPLE", a)
    BY <2>1, Zenon DEF Put
  <2> QED BY <1>1, <1>3, <2>2, Zenon
<1>4. CASE e # pc
  <2>1. e < pc /\ Analysed(e)
    BY <1>2, <1>4, AnalyzeAt DEF Analysed
  <2>2. ~Takes(prog[pc], n)
    BY <1>2, <2>1, AnalyzeAt
  <2>3. GivesType(prog, e, pc, n)
    BY <1>1, <1>2, <2>1, AnalyzeAt DEF GivesType
  <2>4. n \in DOMAIN types /\ types[n] = Type("TUPLE", attrs[e])
    BY <1>1, <2>3, AnalyzeAt, Zenon DEF TypesInv
  <2>5. n \in DOMAIN types' /\ types'[n] = types[n]
    BY <2>2, <2>4, TypesStay, Zenon
  <2>6. attrs'[e] = attrs[e]
    BY <1>2, <1>4, <2>1, AttrsStep, Zenon DEF AttrsInv
  <2> QED BY <1>1, <2>4, <2>5, <2>6, Zenon
<1> QED BY <1>3, <1>4, Zenon

\* The type of a variable stays until it is declared again.
LEMMA VarStay ==
  ASSUME PassInv, AnalyzeStep, NEW v \in DOMAIN var_types, ~Declares(prog[pc], v)
  PROVE  v \in DOMAIN var_types' /\ var_types'[v] = var_types[v]
<1>1. Resolves(pc)
  BY AnalyzeAt, Zenon
<1>2. CASE var_types' = var_types
  BY <1>2, Zenon
<1>3. ASSUME NEW m, m # v, NEW t, var_types' = Put(var_types, m, t)
      PROVE  v \in DOMAIN var_types' /\ var_types'[v] = var_types[v]
  BY <1>3, Zenon DEF Put
<1>4. CASE prog[pc].op = "scan"
  <2>1. prog[pc].arg # v
    BY <1>4, Zenon DEF Declares
  <2>2. \E t : var_types' = Put(var_types, prog[pc].arg, t)
    BY <1>1, <1>4, Zenon DEF Resolves
  <2> QED BY <1>3, <2>1, <2>2, Zenon
<1>5. CASE prog[pc].op = "let"
  <2>1. prog[pc].name # v
    BY <1>5, Zenon DEF Declares
  <2>2. \E t : var_types' = Put(var_types, prog[pc].name, t)
    BY <1>1, <1>5, Zenon DEF Resolves
  <2> QED BY <1>3, <2>1, <2>2, Zenon
<1>6. CASE prog[pc].op \notin {"scan", "let"}
  BY <1>1, <1>2, <1>6, Zenon DEF Resolves
<1> QED BY <1>4, <1>5, <1>6, Zenon

\* Scan::analyze takes the type that its table has at that point.
LEMMA AnalyzeVars ==
  ASSUME PassInv, AttrsInv, TypesInv, VarInv, AnalyzeStep
  PROVE  VarInv'
<1> SUFFICES ASSUME NEW d \in DOMAIN prog, NEW e \in DOMAIN prog, d < pc + 1,
                    prog[d].op = "scan", Nearest(prog, d, pc + 1, prog[d].arg),
                    GivesType(prog, e, d, prog[d].name)
             PROVE  /\ prog[d].arg \in DOMAIN var_types'
                    /\ var_types'[prog[d].arg] = Type("TUPLE", attrs'[e])
  BY AnalyzeAt, Zenon DEF VarInv
<1>1. PICK v, n : v = prog[d].arg /\ n = prog[d].name
  BY Zenon
<1>2. e < d /\ prog[e].op = "define" /\ prog[e].name = n
  BY <1>1, Zenon DEF GivesType
<1>3. e < pc /\ e \in DOMAIN attrs /\ attrs'[e] = attrs[e]
  <2>1. e < pc
    BY <1>2, AnalyzeAt
  <2>2. e \in DOMAIN attrs
    BY <1>2, <2>1, AnalyzeAt, Zenon DEF AttrsInv, Analysed
  <2> QED BY <2>1, <2>2, AnalyzeAt, AttrsStep
<1>4. CASE d = pc
  <2>1. n \in DOMAIN types /\ types[n] = Type("TUPLE", attrs[e])
    BY <1>1, <1>2, <1>4, AnalyzeAt, Zenon DEF TypesInv
  <2>2. var_types' = Put(var_types, v, types[n])
    <3>1. PICK t : /\ prog[pc].name \in DOMAIN types => t = types
                   /\ var_types' = Put(var_types, prog[pc].arg, t[prog[pc].name])
      BY <1>4, AnalyzeAt, Zenon DEF Resolves
    <3> QED BY <1>1, <1>4, <2>1, <3>1, Zenon
  <2>3. v \in DOMAIN var_types' /\ var_types'[v] = types[n]
    BY <2>2, Zenon DEF Put
  <2> QED BY <1>1, <1>3, <2>1, <2>3, Zenon
<1>5. CASE d # pc
  <2>1. d < pc
    BY <1>5, AnalyzeAt
  <2>2. ~Declares(prog[pc], v) /\ Nearest(prog, d, pc, v)
    BY <1>1, <2>1, AnalyzeAt DEF Nearest
  <2>3. v \in DOMAIN var_types /\ var_types[v] = Type("TUPLE", attrs[e])
    BY <1>1, <2>1, <2>2, AnalyzeAt, Zenon DEF VarInv
  <2>4. v \in DOMAIN var_types' /\ var_types'[v] = var_types[v]
    BY <2>2, <2>3, VarStay, Zenon
  <2> QED BY <1>1, <1>3, <2>3, <2>4, Zenon
<1> QED BY <1>4, <1>5, Zenon

\* MemberReference::analyze finds the name among the columns of its variable.
LEMMA AnalyzeMembers ==
  ASSUME PassInv, AttrsInv, VarInv, MemberInv, AnalyzeStep
  PROVE  MemberInv'
<1> DEFINE At1(k, d, e) ==
      /\ members'[k].offset + 1 \in DOMAIN attrs'[e]
      /\ attrs'[e][members'[k].offset + 1].name = prog[k].arg
    Hyp(k, d, e) == /\ prog[d].op = "scan" /\ d < k
                    /\ Nearest(prog, d, k, prog[k].name)
                    /\ GivesType(prog, e, d, prog[d].name)
<1> SUFFICES ASSUME NEW k \in DOMAIN prog, k < pc + 1, prog[k].op = "member"
             PROVE  /\ k \in DOMAIN members'
                    /\ \A d, e \in DOMAIN prog : Hyp(k, d, e) => At1(k, d, e)
  <2>1. prog' = prog /\ pc' = pc + 1 /\ pass' = "analyze"
    BY AnalyzeAt, Zenon
  <2>2. \A k, d, e : (Hyp(k, d, e) => At1(k, d, e)) => Finds(k, d, e)'
    BY <2>1, Zenon DEF Finds
  <2>3. \A k \in DOMAIN prog : Analysed(k)' => k < pc + 1
    BY <2>1, Zenon DEF Analysed
  <2> HIDE DEF At1, Hyp
  <2> QED BY <2>1, <2>2, <2>3, Zenon DEF MemberInv
<1>1. ASSUME NEW d \in DOMAIN prog, NEW e \in DOMAIN prog, Hyp(k, d, e)
      PROVE  e \in DOMAIN attrs /\ attrs'[e] = attrs[e] /\ Columns(attrs[e])
  <2>1. e < d /\ d < k /\ prog[e].op = "define"
    BY <1>1, Zenon DEF GivesType
  <2>2. e < pc
    BY <2>1, AnalyzeAt
  <2>3. e \in DOMAIN attrs
    BY <2>1, <2>2, AnalyzeAt, Zenon DEF AttrsInv, Analysed
  <2> QED BY <2>2, <2>3, AnalyzeAt, AttrsStep DEF AttrsInv
<1>2. CASE k = pc
  <2>1. PICK n, cols : n = prog[k].name /\ cols = var_types[n].cols
    BY Zenon
  <2>2. PICK i, id :
          /\ i \in DOMAIN cols
          /\ cols[i].name = prog[k].arg
          /\ members' = Put(members, k, [offset |-> i - 1, id |-> id])
    BY <1>2, <2>1, AnalyzeAt, Zenon DEF Resolves
  <2>3. k \in DOMAIN members' /\ members'[k].offset = i - 1
    BY <2>2, Zenon DEF Put
  <2>4. ASSUME NEW d \in DOMAIN prog, NEW e \in DOMAIN prog, Hyp(k, d, e)
        PROVE  At1(k, d, e)
    <3>1. Nearest(prog, d, k, n) /\ d < pc
      BY <1>2, <2>1, <2>4, Zenon
    <3>2. Declares(prog[d], n) /\ prog[d].arg = n
      BY <2>4, <3>1, Zenon DEF Nearest, Declares
    <3>3. var_types[n] = Type("TUPLE", attrs[e])
      <4>1. pass = "analyze" /\ d < pc /\ Nearest(prog, d, pc, prog[d].arg)
        BY <1>2, <3>1, <3>2, AnalyzeAt, Zenon
      <4> QED BY <2>4, <3>2, <4>1, Zenon DEF VarInv
    <3>4. cols = attrs[e]
      BY <2>1, <3>3 DEF Type
    <3>5. \E S : cols \in Seq(S)
      BY <1>1, <2>4, <3>4, Zenon DEF Columns
    <3>6. i - 1 + 1 = i
      BY <2>2, <3>5
    <3>7. attrs'[e] = cols
      BY <1>1, <2>4, <3>4, Zenon
    <3> QED BY <2>2, <2>3, <3>6, <3>7, Zenon
  <2> QED BY <2>3, <2>4, Zenon
<1>3. CASE k # pc
  <2>1. k < pc /\ Analysed(k)
    BY <1>3, AnalyzeAt DEF Analysed
  <2>2. k \in DOMAIN members /\ \A d, e \in DOMAIN prog : Finds(k, d, e)
    BY <2>1, Zenon DEF MemberInv
  <2>3. members' = members \/ \E m : members' = Put(members, pc, m)
    BY AnalyzeAt, Zenon DEF Resolves
  <2>4. k \in DOMAIN members' /\ members'[k] = members[k]
    BY <1>3, <2>2, <2>3, Zenon DEF Put
  <2> QED BY <1>1, <2>2, <2>4, Zenon DEF Finds
<1> QED BY <1>2, <1>3, Zenon

\* Only analyze resolves: the passes after it leave what it found alone.
LEMMA ResolveStep ==
  ASSUME PassInv, ResolveInv, [Next]_vars
  PROVE  ResolveInv'
<1> USE DEF catalogue, context, tableaus
<1>1. ASSUME attrs' = attrs \/ attrs' = << >>
      PROVE  \A k \in DOMAIN attrs' : Columns(attrs'[k])
  BY <1>1 DEF ResolveInv, AttrsInv
<1>2. ASSUME attrs' = attrs \/ attrs' = << >>, \A k \in DOMAIN prog' : ~Analysed(k)',
             pass' = "analyze" => pc' = 1 /\ DOMAIN prog' \subseteq Nat \ {0}
      PROVE  ResolveInv'
  <2>1. AttrsInv'
    BY <1>1, <1>2, Zenon DEF AttrsInv, Columns
  <2>2. MemberInv'
    BY <1>2, Zenon DEF MemberInv
  <2>3. TypesInv'
    BY <1>2 DEF TypesInv, GivesType
  <2>4. VarInv'
    BY <1>2 DEF VarInv
  <2> QED BY <2>1, <2>2, <2>3, <2>4, Zenon DEF ResolveInv
<1>3. ASSUME UNCHANGED <<attrs, members, prog>>, pass' \in {"alloca", "codegen", "run"},
             \A k \in DOMAIN prog : Analysed(k)
      PROVE  ResolveInv'
  <2>1. AttrsInv'
    <3>1. \A k \in DOMAIN prog : prog[k].op \in {"define", "tuple"} => k \in DOMAIN attrs
      BY <1>3, ZenonT(30) DEF ResolveInv, AttrsInv
    <3>2. \A k \in DOMAIN attrs' : Columns(attrs'[k])
      BY <1>1, <1>3, Zenon
    <3>3. \A k \in DOMAIN prog' : prog'[k].op \in {"define", "tuple"} => k \in DOMAIN attrs'
      BY <1>3, <3>1, Zenon
    <3> QED BY <3>2, <3>3, Zenon DEF AttrsInv
  <2>2. MemberInv'
    BY <1>3 DEF ResolveInv, MemberInv, Finds
  <2>3. TypesInv' /\ VarInv'
    BY <1>3, Zenon DEF TypesInv, VarInv
  <2> QED BY <2>1, <2>2, <2>3, Zenon DEF ResolveInv
<1>4. CASE UNCHANGED vars
  <2>1. UNCHANGED <<attrs, members, prog, types, var_types, pass, pc>>
    BY <1>4, Zenon DEF vars
  <2>2. AttrsInv'
    BY <2>1, Zenon DEF ResolveInv, AttrsInv, Columns, Analysed
  <2>3. MemberInv'
    BY <2>1 DEF ResolveInv, MemberInv, Finds, Analysed
  <2>4. TypesInv'
    BY <2>1, Zenon DEF ResolveInv, TypesInv
  <2>5. VarInv'
    BY <2>1, Zenon DEF ResolveInv, VarInv
  <2> QED BY <2>2, <2>3, <2>4, <2>5, Zenon DEF ResolveInv
<1>5. CASE \E p \in Programs[workload] : Start(p)
  <2>1. attrs' = attrs /\ pass' = "analyze" /\ pc' = 1
    BY <1>5, Zenon DEF Start, PassInv
  <2>2. DOMAIN prog' \subseteq Nat \ {0}
    BY PassStep DEF PassInv, GoodProgram
  <2>3. \A k \in DOMAIN prog' : ~Analysed(k)'
    BY <2>1, <2>2 DEF Analysed
  <2> QED BY <1>2, <2>1, <2>2, <2>3, Zenon
<1>6. CASE Restart \/ Finish
  <2>1. attrs' = << >> /\ pass' = "idle"
    BY <1>6, Zenon DEF Restart, Finish, ClearContext
  <2> QED BY <1>2, <2>1, Zenon DEF Analysed
<1>7. CASE EndStep
  <2>1. attrs' = attrs /\ pass' \in Ends
    BY <1>7, Zenon DEF EndStep, End
  <2> QED BY <1>2, <2>1, Zenon DEF Analysed, Ends
<1>8. CASE NextPass
  <2>1. /\ UNCHANGED <<attrs, members, prog>> /\ pass' \in {"alloca", "codegen"}
        /\ pass \in {"analyze", "alloca"} /\ pc > Len(prog)
    BY <1>8, Zenon DEF NextPass
  <2>2. \A k \in DOMAIN prog : Analysed(k)
    BY <2>1 DEF PassInv, GoodProgram, Analysed
  <2> QED BY <1>3, <2>1, <2>2, Zenon
<1>9. CASE AllocaStep \/ CodegenStep \/ AddModule \/ RunStep
  <2>1. /\ UNCHANGED <<attrs, members, prog>> /\ pass' \in {"alloca", "codegen", "run"}
        /\ pass \in {"alloca", "codegen", "run"}
    BY <1>9, Zenon DEF AllocaStep, CodegenStep, AddModule, RunStep, Advance
  <2> QED BY <1>3, <2>1, Zenon DEF Analysed
<1>10. CASE AnalyzeStep
  BY <1>10, AnalyzeAttrs, AnalyzeTypes, AnalyzeVars, AnalyzeMembers, Zenon DEF ResolveInv
<1>11. CASE Next
  BY <1>5, <1>6, <1>7, <1>8, <1>9, <1>10, <1>11, Steps, ZenonT(30) DEF PassInv
<1> QED
  BY <1>4, <1>11, Zenon

\* What analyze resolved is right in every state.
THEOREM ResolvedRight == Spec => []ResolveInv
<1>1. Init => ResolveInv
  BY DEF Init, ResolveInv, AttrsInv, TypesInv, VarInv, MemberInv, Analysed
<1> QED
  BY <1>1, ResolveStep, PassesInOrder, PTL DEF Spec

-----------------------------------------------------------------------------
(* The schemas that rows are built with, and the slots of members *)

\* What Define::alloca_stack leaves of columns: columns of the same kind, and all
\* of them if all are stored.
SchemasKept ==
  \A S : \A cols \in Seq(S) :
    /\ SchemaOf(cols) \in Seq(S)
    /\ (\A i \in DOMAIN cols : cols[i].id \in Storable) => SchemaOf(cols) = cols

\* e defines n, and no statement from there to k defines it again.
LastDefine(p, e, k, n) ==
  /\ e \in DOMAIN p /\ p[e].op = "define" /\ p[e].name = n
  /\ \A j \in DOMAIN p : e < j /\ j < k => ~(p[j].op = "define" /\ p[j].name = n)

\* local_schema_table_ has the columns of the last Define so far.
SchemaInv ==
  pass = "alloca" => \A n \in DOMAIN schemas : \E e \in DOMAIN prog :
    e <= pc /\ LastDefine(prog, e, pc, n) /\ schemas[n] = SchemaOf(attrs[e])

\* A scan has those of the last Define above it, all integers.
ScanInv ==
  \A d \in DOMAIN prog : Allocated(d) /\ prog[d].op = "scan" =>
    /\ \A i \in DOMAIN bufs[d] : bufs[d][i].id = "INTEGER"
    /\ \E e \in DOMAIN prog :
         e < d /\ LastDefine(prog, e, d, prog[d].name) /\ bufs[d] = SchemaOf(attrs[e])

\* The variable of a member has the slot of the nearest declaration above,
\* unless it is declared again below.
MemberSlotInv ==
  \A k \in DOMAIN prog : Allocated(k) /\ prog[k].op = "member" =>
    /\ prog[k].name \in DOMAIN slots
    /\ \/ DeclaredAgain(prog, k, prog[k].name)
       \/ /\ slots[prog[k].name] < k
          /\ Nearest(prog, slots[prog[k].name], k, prog[k].name)

\* A schema that is in use was stored, and every one has columns.
HistoryInv ==
  /\ \A h \in history : Columns(h[2])
  /\ \A n \in DOMAIN schemas : <<n, schemas[n]>> \in history

PlaceInv == SchemaInv /\ ScanInv /\ MemberSlotInv /\ HistoryInv

\* A Define replaces the schema under its name, and nothing else does.
LEMMA SchemasStep ==
  ASSUME PassInv, AllocaStep, NEW n \in DOMAIN schemas'
  PROVE  \/ /\ prog[target].op = "define" /\ prog[target].name = n
            /\ schemas'[n] = SchemaOf(attrs[target])
         \/ /\ n \in DOMAIN schemas /\ schemas'[n] = schemas[n]
            /\ ~(prog[target].op = "define" /\ prog[target].name = n)
<1>1. CASE prog[target].op = "define"
  <2>1. schemas' = Put(schemas, prog[target].name, SchemaOf(attrs[target]))
    BY <1>1, Zenon DEF AllocaStep, Reserves
  <2> QED BY <1>1, <2>1, Zenon DEF Put
<1>2. CASE prog[target].op # "define"
  <2>1. schemas' = schemas
    BY <1>2, Zenon DEF AllocaStep, Reserves, shared
  <2> QED BY <1>2, <2>1, Zenon
<1> QED BY <1>1, <1>2, Zenon

LEMMA AllocaSchema ==
  ASSUME PassInv, SchemaInv, AllocaStep
  PROVE  SchemaInv'
<1>0. attrs' = attrs
  BY Zenon DEF AllocaStep
<1> SUFFICES ASSUME NEW n \in DOMAIN schemas'
             PROVE  \E e \in DOMAIN prog :
                      /\ e <= pc + 1 /\ LastDefine(prog, e, pc + 1, n)
                      /\ schemas'[n] = SchemaOf(attrs[e])
  BY <1>0, Target, Zenon DEF SchemaInv
<1>1. CASE /\ prog[target].op = "define" /\ prog[target].name = n
           /\ schemas'[n] = SchemaOf(attrs[target])
  <2>1. LastDefine(prog, target, pc + 1, n) /\ target <= pc + 1
    BY <1>1, Target DEF LastDefine
  <2> QED BY <1>1, <2>1, Target, Zenon
<1>2. CASE /\ n \in DOMAIN schemas /\ schemas'[n] = schemas[n]
           /\ ~(prog[target].op = "define" /\ prog[target].name = n)
  <2>1. PICK e \in DOMAIN prog :
          e <= pc /\ LastDefine(prog, e, pc, n) /\ schemas[n] = SchemaOf(attrs[e])
    BY <1>2, Target, Zenon DEF SchemaInv
  <2>2. ~(prog[pc].op = "define" /\ prog[pc].name = n)
    BY <1>2, Target, Zenon
  <2>3. LastDefine(prog, e, pc + 1, n)
    BY <2>1, <2>2, Target DEF LastDefine
  <2>4. e <= pc + 1
    BY <2>1, Target
  <2> QED BY <1>2, <2>1, <2>3, <2>4, Zenon
<1> QED BY <1>1, <1>2, SchemasStep, Zenon

LEMMA AllocaScans ==
  ASSUME PassInv, BuffersInv, SchemaInv, ScanInv, AllocaStep
  PROVE  ScanInv'
<1>0. attrs' = attrs
  BY Zenon DEF AllocaStep
<1> SUFFICES ASSUME NEW d \in DOMAIN prog, d < pc + 1, prog[d].op = "scan"
             PROVE  /\ \A i \in DOMAIN bufs'[d] : bufs'[d][i].id = "INTEGER"
                    /\ \E e \in DOMAIN prog :
                         /\ e < d /\ LastDefine(prog, e, d, prog[d].name)
                         /\ bufs'[d] = SchemaOf(attrs[e])
  BY <1>0, Target DEF ScanInv, Allocated
<1>1. CASE d < pc
  <2>1. Allocated(d)
    BY <1>1, Target, Zenon DEF Allocated
  <2>2. d \in DOMAIN bufs
    BY <2>1, Zenon DEF BuffersInv
  <2>3. bufs'[d] = bufs[d]
    BY <1>1, <2>2, BufsAbove, Zenon
  <2> QED BY <2>1, <2>3 DEF ScanInv
<1>2. CASE d = pc
  <2>1. PICK n, s : n = prog[d].name /\ s = schemas[n]
    BY Zenon
  <2>2. target = pc
    BY <1>2, Target, Zenon
  <2>3. /\ n \in DOMAIN schemas /\ bufs' = Put(bufs, d, s)
        /\ \A i \in DOMAIN s : s[i].id = "INTEGER"
    BY <1>2, <2>1, <2>2, Zenon DEF AllocaStep, Reserves
  <2>4. bufs'[d] = s
    BY <2>3, Zenon DEF Put
  <2>5. PICK e \in DOMAIN prog :
          e <= pc /\ LastDefine(prog, e, pc, n) /\ s = SchemaOf(attrs[e])
    BY <2>1, <2>3, Target, Zenon DEF SchemaInv
  <2>6. e # pc
    BY <1>2, <2>5, Zenon DEF LastDefine
  <2>7. e < d
    BY <1>2, <2>5, <2>6, Target
  <2> QED BY <1>2, <2>1, <2>3, <2>4, <2>5, <2>7, Zenon
<1> QED BY <1>1, <1>2, Target

LEMMA AllocaMembers ==
  ASSUME PassInv, SlotsInv, MemberSlotInv, AllocaStep
  PROVE  MemberSlotInv'
<1> SUFFICES ASSUME NEW k \in DOMAIN prog, k < pc + 1, prog[k].op = "member"
             PROVE  /\ prog[k].name \in DOMAIN slots'
                    /\ \/ DeclaredAgain(prog, k, prog[k].name)
                       \/ /\ slots'[prog[k].name] < k
                          /\ Nearest(prog, slots'[prog[k].name], k, prog[k].name)
  BY Target, Zenon DEF MemberSlotInv, Allocated
<1>0. PICK v : v = prog[k].name
  BY Zenon
<1>1. CASE k < pc
  <2>1. /\ v \in DOMAIN slots
        /\ \/ DeclaredAgain(prog, k, v)
           \/ slots[v] < k /\ Nearest(prog, slots[v], k, v)
    BY <1>0, <1>1, Target, Zenon DEF MemberSlotInv, Allocated
  <2>2. v \in DOMAIN slots'
    BY <2>1, SlotsStay, Zenon
  <2>3. target > k
    BY <1>1, Target, Zenon
  <2>4. Declares(prog[target], v) => DeclaredAgain(prog, k, v)
    BY <2>3, Target, Zenon DEF DeclaredAgain
  <2>5. slots'[v] = slots[v] \/ DeclaredAgain(prog, k, v)
    BY <2>2, <2>4, SlotsStep, Zenon
  <2> QED BY <1>0, <2>1, <2>2, <2>5, Zenon
<1>2. CASE k = pc
  <2>1. target = pc
    BY <1>2, Target, Zenon
  <2>2. v \in DOMAIN slots /\ slots' = slots
    BY <1>0, <1>2, <2>1, Zenon DEF AllocaStep, Reserves, shared
  <2>3. slots[v] <= pc /\ Nearest(prog, slots[v], pc, v)
    BY <2>2, Target, Zenon DEF SlotsInv
  <2>4. slots[v] # pc
    BY <1>2, <2>3, Zenon DEF Nearest, Declares
  <2>5. slots[v] < k
    BY <1>2, <2>3, <2>4, Target DEF Nearest
  <2> QED BY <1>0, <1>2, <2>2, <2>3, <2>5, Zenon
<1> QED BY <1>1, <1>2, Target

LEMMA AllocaHistory ==
  ASSUME SchemasKept, PassInv, AttrsInv, HistoryInv, AllocaStep
  PROVE  HistoryInv'
<1>1. CASE prog[target].op = "define"
  <2>1. PICK n, s : n = prog[target].name /\ s = SchemaOf(attrs[target])
    BY Zenon
  <2>2. schemas' = Put(schemas, n, s) /\ history' = history \cup {<<n, s>>}
    BY <1>1, <2>1, Zenon DEF AllocaStep, Reserves
  <2>3. target \in DOMAIN attrs
    BY <1>1, Target, Zenon DEF AttrsInv, Analysed
  <2>4. Columns(attrs[target])
    BY <2>3, Zenon DEF AttrsInv
  <2>5. Columns(s)
    <3>1. PICK S : attrs[target] \in Seq(S) /\ \A x \in S : x.key \in BOOLEAN /\ x.nullable \in BOOLEAN
      BY <2>4, Zenon DEF Columns
    <3>2. s \in Seq(S)
      BY <2>1, <3>1, Zenon DEF SchemasKept
    <3> QED BY <3>1, <3>2, Zenon DEF Columns
  <2>6. \A h \in history' : Columns(h[2])
    BY <2>2, <2>5 DEF HistoryInv
  <2>7. \A m \in DOMAIN schemas' : <<m, schemas'[m]>> \in history'
    BY <2>2, Zenon DEF HistoryInv, Put
  <2> QED BY <2>6, <2>7, Zenon DEF HistoryInv, Columns
<1>2. CASE prog[target].op # "define"
  <2>1. schemas' = schemas /\ history' = history
    BY <1>2, Zenon DEF AllocaStep, Reserves, shared
  <2> QED BY <2>1, Zenon DEF HistoryInv, Columns
<1> QED BY <1>1, <1>2, Zenon

\* Only alloca_stack changes the schemas and the slots, and the catalogue.
LEMMA PlaceStep ==
  ASSUME SchemasKept, PassInv, ReserveInv, ResolveInv, PlaceInv, [Next]_vars
  PROVE  PlaceInv'
<1> USE DEF catalogue, context, tableaus
<1>1. ASSUME history' = history, schemas' = schemas \/ schemas' = << >>
      PROVE  HistoryInv'
  BY <1>1 DEF PlaceInv, HistoryInv, Columns
<1>2. ASSUME history' = history, schemas' = schemas \/ schemas' = << >>,
             pass' = "alloca" => schemas' = << >>,
             \A k \in DOMAIN prog' : ~Allocated(k)'
      PROVE  PlaceInv'
  <2>1. ScanInv' /\ MemberSlotInv'
    BY <1>2, Zenon DEF ScanInv, MemberSlotInv
  <2>2. SchemaInv'
    BY <1>2 DEF SchemaInv
  <2> QED BY <1>1, <1>2, <2>1, <2>2, Zenon DEF PlaceInv
<1>3. ASSUME UNCHANGED <<shared, attrs, prog, history>>, pass' \in {"codegen", "run"},
             \A k \in DOMAIN prog : Allocated(k)
      PROVE  PlaceInv'
  <2>1. ScanInv'
    BY <1>3, Zenon DEF PlaceInv, ScanInv, shared
  <2>2. MemberSlotInv'
    BY <1>3, Zenon DEF PlaceInv, MemberSlotInv, shared
  <2>3. SchemaInv'
    BY <1>3, Zenon DEF SchemaInv
  <2> QED BY <1>1, <1>3, <2>1, <2>2, <2>3, Zenon DEF PlaceInv, shared
<1>4. CASE UNCHANGED vars
  <2>1. UNCHANGED <<schemas, slots, bufs, attrs, prog, pass, pc, history>>
    BY <1>4, Zenon DEF vars
  <2>2. ScanInv'
    BY <2>1, Zenon DEF PlaceInv, ScanInv, Allocated
  <2>3. MemberSlotInv'
    BY <2>1, Zenon DEF PlaceInv, MemberSlotInv, Allocated
  <2>4. SchemaInv'
    BY <2>1, Zenon DEF PlaceInv, SchemaInv
  <2> QED BY <1>1, <2>1, <2>2, <2>3, <2>4, Zenon DEF PlaceInv
<1>5. CASE (\E p \in Programs[workload] : Start(p)) \/ Restart \/ Finish
  <2>1. /\ history' = history /\ (schemas' = schemas \/ schemas' = << >>)
        /\ pass' \in {"analyze", "idle"}
    BY <1>5, Zenon DEF Start, Restart, Finish, ClearContext
  <2> QED BY <1>2, <2>1, Zenon DEF Allocated
<1>6. CASE EndStep \/ AnalyzeStep
  <2>1. history' = history /\ schemas' = schemas /\ pass' \in Ends \cup {"analyze"}
    BY <1>6, Zenon DEF EndStep, End, AnalyzeStep, Advance, shared
  <2> QED BY <1>2, <2>1, Zenon DEF Allocated, Ends
<1>7. CASE NextPass
  <2>1. /\ UNCHANGED <<shared, attrs, prog, history>> /\ pc' = 1 /\ pc > Len(prog)
        /\ \/ pass = "analyze" /\ pass' = "alloca"
           \/ pass = "alloca" /\ pass' = "codegen"
    BY <1>7, Zenon DEF NextPass, shared
  <2>2. CASE pass = "analyze"
    <3>1. schemas' = << >> /\ \A k \in DOMAIN prog' : ~Allocated(k)'
      BY <2>1, <2>2 DEF PassInv, GoodProgram, Allocated, shared
    <3> QED BY <1>2, <2>1, <3>1, Zenon
  <2>3. CASE pass = "alloca"
    <3>1. \A k \in DOMAIN prog : Allocated(k)
      BY <2>1, <2>3 DEF PassInv, GoodProgram, Allocated
    <3> QED BY <1>3, <2>1, <2>3, <3>1, Zenon
  <2> QED BY <2>1, <2>2, <2>3, Zenon
<1>8. CASE CodegenStep \/ AddModule \/ RunStep
  <2>1. /\ UNCHANGED <<shared, attrs, prog, history>> /\ pass' \in {"codegen", "run"}
        /\ pass \in {"codegen", "run"}
    BY <1>8, Zenon DEF CodegenStep, AddModule, RunStep, Advance, shared
  <2> QED BY <1>3, <2>1, Zenon DEF Allocated
<1>9. CASE AllocaStep
  BY <1>9, AllocaSchema, AllocaScans, AllocaMembers, AllocaHistory, Zenon
  DEF PlaceInv, ReserveInv, ResolveInv
<1>10. CASE Next
  BY <1>5, <1>6, <1>7, <1>8, <1>9, <1>10, Steps, Zenon DEF PassInv
<1> QED
  BY <1>4, <1>10, Zenon

-----------------------------------------------------------------------------
(* Members *)

\* The member that codegen is at reads the column of its name.
LEMMA MemberReads ==
  ASSUME SchemasKept, PassInv, ResolveInv, PlaceInv, pass = "codegen",
         NEW k \in DOMAIN prog, prog[k].op = "member",
         ~DeclaredAgain(prog, k, prog[k].name),
         NEW d, d = slots[prog[k].name], prog[d].op # "let",
         ~NameTaken(d), ~ColumnLeftOut(d)
  PROVE  bufs[d][members[k].offset + 1].name = prog[k].arg
<1>1. /\ DOMAIN prog = 1 .. Len(prog) /\ Len(prog) \in Nat
  BY DEF PassInv, GoodProgram
<1>2. /\ \A j \in DOMAIN prog : Analysed(j) /\ Allocated(j)
  BY Zenon DEF Analysed, Allocated
<1>3. d < k /\ Nearest(prog, d, k, prog[k].name)
  BY <1>2, Zenon DEF PlaceInv, MemberSlotInv
<1>4. d \in DOMAIN prog /\ prog[d].op = "scan" /\ prog[d].arg = prog[k].name
  BY <1>3, Zenon DEF Nearest, Declares
<1>5. PICK n : n = prog[d].name
  BY Zenon
<1>6. PICK e \in DOMAIN prog :
        e < d /\ LastDefine(prog, e, d, n) /\ bufs[d] = SchemaOf(attrs[e])
  BY <1>2, <1>4, <1>5, ZenonT(30) DEF PlaceInv, ScanInv
<1>7. prog[e].op = "define" /\ prog[e].name = n /\ e \in 1 .. d - 1
  BY <1>1, <1>4, <1>6 DEF LastDefine
<1>8. GivesType(prog, e, d, n)
  <2>1. ASSUME NEW j \in DOMAIN prog, e < j, j < d, Takes(prog[j], n)
        PROVE  FALSE
    <3>1. ~(prog[j].op = "define" /\ prog[j].name = n)
      BY <1>6, <2>1, Zenon DEF LastDefine
    <3>2. /\ prog[j].name = n
          /\ \/ prog[j].op = "tuple"
             \/ prog[j].op = "let" /\ (prog[j].cols # << >> \/ prog[j].arg = "array")
      BY <2>1, <3>1, ZenonT(30) DEF Takes
    <3>3. j \in 1 .. d - 1
      BY <1>1, <1>4, <2>1
    <3>4. ASSUME NEW i \in j + 1 .. d - 1
          PROVE  ~(prog[i].op = "define" /\ prog[i].name = n)
      <4>1. i \in DOMAIN prog /\ e < i /\ i < d
        BY <1>1, <1>4, <1>6, <2>1, <3>4
      <4> QED BY <1>6, <4>1, ZenonT(30) DEF LastDefine
    <3> QED BY <1>5, <3>2, <3>3, <3>4, Zenon DEF NameTaken
  <2> QED BY <1>6, <1>7, <2>1, Zenon DEF GivesType
<1>9. \A i \in DOMAIN attrs[e] : attrs[e][i].id \in Storable
  BY <1>5, <1>7, Zenon DEF ColumnLeftOut
<1>10. bufs[d] = attrs[e]
  <2>1. Columns(attrs[e])
    BY <1>2, <1>7, Zenon DEF ResolveInv, AttrsInv
  <2>2. PICK S : attrs[e] \in Seq(S)
    BY <2>1, Zenon DEF Columns
  <2>3. SchemaOf(attrs[e]) = attrs[e]
    BY <1>9, <2>2, Zenon DEF SchemasKept
  <2> QED BY <1>6, <2>3, ZenonT(30)
<1>11. Finds(k, d, e)
  BY <1>2, <1>4, Zenon DEF ResolveInv, MemberInv
<1>12. attrs[e][members[k].offset + 1].name = prog[k].arg
  BY <1>3, <1>4, <1>5, <1>8, <1>11, Zenon DEF Finds
<1> QED BY <1>10, <1>12, Zenon

LEMMA MembersStep ==
  ASSUME SchemasKept, PassInv, ResolveInv, PlaceInv, CodeBehind, MembersAgree,
         [Next]_vars
  PROVE  MembersAgree'
<1> USE DEF catalogue, context, tableaus
<1>1. CASE code' = << >>
  BY <1>1 DEF MembersAgree
<1>2. CASE UNCHANGED <<code, prog, bufs, attrs>>
  BY <1>2 DEF MembersAgree, NameTaken, ColumnLeftOut, DeclaredAgain
<1>3. CASE CodegenStep
  <2>1. /\ pass = "codegen" /\ prog' = prog /\ bufs' = bufs /\ attrs' = attrs
    BY <1>3, Zenon DEF CodegenStep, Advance, shared
  <2> DEFINE Good(k, d, o) ==
        \/ DeclaredAgain(prog, k, prog[k].name)
        \/ prog[d].op = "let"
        \/ NameTaken(d) \/ ColumnLeftOut(d)
        \/ bufs[d][o + 1].name = prog[k].arg
  <2>2. ASSUME NEW k \in DOMAIN code', prog[k].op = "member"
        PROVE  Good(k, code'[k].slot, code'[k].offset)
    <3>1. CASE k \in DOMAIN code
      <4>1. code'[k] = code[k]
        BY <1>3, <3>1, CodePut, Zenon
      <4>2. Good(k, code[k].slot, code[k].offset)
        BY <2>2, <3>1, Zenon DEF MembersAgree
      <4> QED BY <4>1, <4>2, Zenon
    <3>2. CASE k \notin DOMAIN code
      <4>1. k = pc /\ k \in DOMAIN prog /\ Fits(k, code'[k])
        BY <1>3, <2>2, <3>2, CodePut, Zenon
      <4>2. code'[k].slot = slots[prog[k].name] /\ code'[k].offset = members[k].offset
        BY <2>2, <4>1, Zenon DEF Fits
      <4>3. PICK d : d = slots[prog[k].name]
        BY Zenon
      <4>4. Good(k, d, members[k].offset)
        BY <2>1, <2>2, <4>1, <4>3, MemberReads, Zenon
      <4> QED BY <4>2, <4>3, <4>4, Zenon
    <3> QED BY <3>1, <3>2, Zenon
  <2>3. \A d : NameTaken(d)' = NameTaken(d) /\ ColumnLeftOut(d)' = ColumnLeftOut(d)
    BY <2>1, Zenon DEF NameTaken, ColumnLeftOut
  <2> QED BY <2>1, <2>2, <2>3, Zenon DEF MembersAgree
<1>4. CASE (\E p \in Programs[workload] : Start(p)) \/ Restart \/ Finish
  BY <1>1, <1>4, Zenon DEF Start, Restart, Finish, ClearContext, PassInv
<1>5. CASE NextPass \/ AnalyzeStep \/ AllocaStep
  BY <1>1, <1>2, <1>5, Zenon DEF NextPass, AnalyzeStep, AllocaStep, PassInv
<1>6. CASE EndStep \/ AddModule \/ RunStep
  BY <1>2, <1>6, Zenon DEF EndStep, End, AddModule, RunStep
<1>7. CASE Next
  BY <1>3, <1>4, <1>5, <1>6, <1>7, Steps, Zenon DEF PassInv
<1> QED
  BY <1>2, <1>7, Zenon DEF vars

-----------------------------------------------------------------------------
(* Rows *)

\* The row was made of a literal with the schema s.
MadeWith(row, s) ==
  /\ row.n \in Nat /\ row.n <= Len(s)
  /\ row.key = InsertBytes(s, row.n, TRUE) /\ row.value = InsertBytes(s, row.n, FALSE)

\* The code of an insert works with a schema that was stored for its table and
\* has a column for every element of the literal.
InsertInv ==
  /\ \A k \in DOMAIN code : prog[k].op = "insert" =>
       /\ <<prog[k].name, code[k].schema>> \in history
       /\ prog[k].n <= Len(code[k].schema)
  /\ \A k \in DOMAIN prog :
       prog[k].op = "insert" /\ (pass = "run" \/ (pass = "codegen" /\ k < pc)) =>
         k \in DOMAIN code

\* Every row was made with a schema that was stored for its table.
StoreInv ==
  \A row \in store : \E h \in history : h[1] = row.table /\ MadeWith(row, h[2])

RowInv == InsertInv /\ StoreInv

LEMMA CodegenInserts ==
  ASSUME PassInv, ReserveInv, PlaceInv, CodeBehind, InsertInv, CodegenStep
  PROVE  InsertInv'
<1>1. history' = history
  BY Zenon DEF CodegenStep, catalogue
<1>2. ASSUME NEW k \in DOMAIN code', prog[k].op = "insert"
      PROVE  /\ <<prog[k].name, code'[k].schema>> \in history
             /\ prog[k].n <= Len(code'[k].schema)
  <2>1. CASE k \in DOMAIN code
    BY <1>2, <2>1, CodePut, Zenon DEF InsertInv
  <2>2. CASE k \notin DOMAIN code
    <3>1. k = pc /\ k \in DOMAIN prog /\ Fits(k, code'[k])
      BY <1>2, <2>2, CodePut, Zenon
    <3>2. code'[k].schema = schemas[prog[k].name] /\ prog[k].n <= Len(code'[k].schema)
      BY <1>2, <3>1, Zenon DEF Fits
    <3>3. prog[k].name \in DOMAIN schemas
      BY <1>2, <3>1, CodePut, Zenon DEF ReserveInv, BuffersInv, Allocated
    <3>4. <<prog[k].name, schemas[prog[k].name]>> \in history
      BY <3>3, Zenon DEF PlaceInv, HistoryInv
    <3> QED BY <3>2, <3>4, Zenon
  <2> QED BY <2>1, <2>2, Zenon
<1>3. ASSUME NEW k \in DOMAIN prog, prog[k].op = "insert", k < pc + 1
      PROVE  k \in DOMAIN code'
  <2>1. CASE k = pc
    BY <1>3, <2>1, CodePut, Zenon
  <2>2. CASE k # pc
    <3>1. k < pc
      BY <1>3, <2>2, CodePut
    <3>2. k \in DOMAIN code
      BY <1>3, <3>1, CodePut, Zenon DEF InsertInv
    <3> QED BY <3>2, CodePut, Zenon
  <2> QED BY <2>1, <2>2, Zenon
<1> QED BY <1>1, <1>2, <1>3, CodePut, Zenon DEF InsertInv

\* An insert that runs stores a row of its own schema.
LEMMA RunStores ==
  ASSUME PassInv, RowInv, RunStep
  PROVE  StoreInv'
<1>0. history' = history
  BY Zenon DEF RunStep, catalogue
<1>1. CASE store' = store
  BY <1>0, <1>1, Zenon DEF RowInv, StoreInv
<1>2. CASE /\ pc <= Len(running.prog) /\ running.prog[pc].op = "insert"
           /\ store' = store \cup {RowOf(running.prog[pc], running.code[pc])}
  <2>1. running.prog = prog /\ running.code = code /\ pass = "run"
    BY DEF PassInv, running, RunStep
  <2>2. pc \in DOMAIN prog
    BY <1>2, <2>1 DEF PassInv, GoodProgram
  <2>3. pc \in DOMAIN code
    BY <1>2, <2>1, <2>2, Zenon DEF RowInv, InsertInv
  <2>4. PICK s, h, row : /\ s = code[pc].schema /\ h = <<prog[pc].name, s>>
                         /\ row = RowOf(prog[pc], code[pc])
    BY Zenon
  <2>5. h \in history /\ prog[pc].n <= Len(s)
    BY <1>2, <2>1, <2>3, <2>4, Zenon DEF RowInv, InsertInv
  <2>6. prog[pc].n \in Nat
    <3>1. prog[pc] \in StatementType
      BY <2>2 DEF PassInv, GoodProgram
    <3> QED BY <3>1, Zenon DEF StatementType
  <2>7. h[1] = row.table /\ MadeWith(row, h[2])
    BY <2>4, <2>5, <2>6, Zenon DEF RowOf, MadeWith
  <2>8. store' = store \cup {row}
    BY <1>2, <2>1, <2>4, Zenon
  <2> QED BY <1>0, <2>5, <2>7, <2>8, Zenon DEF RowInv, StoreInv
<1> QED BY <1>1, <1>2, Zenon DEF RunStep

LEMMA RowStep ==
  ASSUME PassInv, ReserveInv, ResolveInv, PlaceInv, CodeBehind, RowInv, [Next]_vars
  PROVE  RowInv'
<1> USE DEF catalogue, context, tableaus
<1>1. ASSUME history \subseteq history', store' = store
      PROVE  StoreInv'
  BY <1>1, Zenon DEF RowInv, StoreInv
<1>2. ASSUME code' = << >>, pass' # "run", pass' = "codegen" => pc' = 1,
             DOMAIN prog' \subseteq Nat \ {0}
      PROVE  InsertInv'
  BY <1>2 DEF InsertInv
<1>3. ASSUME UNCHANGED <<code, prog, history>>,
             pass' \in {"codegen", "run"} => UNCHANGED <<pass, pc>> \/ pass' = "run",
             pass' = "run" =>
               \A k \in DOMAIN prog : prog[k].op = "insert" => k \in DOMAIN code
      PROVE  InsertInv'
  BY <1>3, Zenon DEF RowInv, InsertInv
<1>4. DOMAIN prog' \subseteq Nat \ {0}
  BY PassStep DEF PassInv, GoodProgram
<1>5. CASE (\E p \in Programs[workload] : Start(p)) \/ Restart \/ Finish
  <2>1. /\ history' = history /\ store' = store
        /\ code' = << >> /\ pass' \in {"analyze", "idle"}
    BY <1>5, Zenon DEF Start, Restart, Finish, ClearContext, PassInv
  <2> QED BY <1>1, <1>2, <1>4, <2>1, Zenon DEF RowInv
<1>6. CASE NextPass
  <2>1. /\ history' = history /\ store' = store
        /\ code' = << >> /\ pass' \in {"alloca", "codegen"} /\ pc' = 1
    BY <1>6, Zenon DEF NextPass, PassInv
  <2> QED BY <1>1, <1>2, <1>4, <2>1, Zenon DEF RowInv
<1>7. CASE AnalyzeStep \/ AllocaStep
  <2>1. store' = store /\ code' = << >> /\ pass' \in {"analyze", "alloca"}
    BY <1>7, Zenon DEF AnalyzeStep, AllocaStep, Advance, PassInv
  <2>2. history \subseteq history'
    BY <1>7, Zenon DEF AnalyzeStep, AllocaStep, Reserves
  <2> QED BY <1>1, <1>2, <1>4, <2>1, <2>2, Zenon DEF RowInv
<1>8. CASE EndStep
  <2>1. UNCHANGED <<code, prog, history, store>> /\ pass' \notin {"codegen", "run"}
    BY <1>8, Zenon DEF EndStep, End, Ends
  <2> QED BY <1>1, <1>3, <2>1, Zenon DEF RowInv
<1>9. CASE CodegenStep
  <2>1. history' = history /\ store' = store
    BY <1>9, Zenon DEF CodegenStep, Advance
  <2> QED BY <1>1, <1>9, <2>1, CodegenInserts, Zenon DEF RowInv
<1>10. CASE AddModule
  <2>1. /\ UNCHANGED <<code, prog, history, store>> /\ pass' = "run"
        /\ pass = "codegen" /\ pc > Len(prog)
    BY <1>10, Zenon DEF AddModule
  <2>2. \A k \in DOMAIN prog : k < pc
    BY <2>1 DEF PassInv, GoodProgram
  <2>3. \A k \in DOMAIN prog : prog[k].op = "insert" => k \in DOMAIN code
    BY <2>1, <2>2, Zenon DEF RowInv, InsertInv
  <2> QED BY <1>1, <1>3, <2>1, <2>3, Zenon DEF RowInv
<1>11. CASE RunStep
  <2>1. UNCHANGED <<code, prog, history>> /\ pass = "run" /\ pass' = "run"
    BY <1>11, Zenon DEF RunStep
  <2>2. \A k \in DOMAIN prog : prog[k].op = "insert" => k \in DOMAIN code
    BY <2>1, Zenon DEF RowInv, InsertInv
  <2> QED BY <1>3, <1>11, <2>1, <2>2, RunStores, Zenon DEF RowInv
<1>12. CASE Next
  BY <1>5, <1>6, <1>7, <1>8, <1>9, <1>10, <1>11, <1>12, Steps, Zenon DEF PassInv
<1>13. CASE UNCHANGED vars
  <2>1. UNCHANGED <<code, prog, history, store, pass, pc>>
    BY <1>13, Zenon DEF vars
  <2>2. InsertInv'
    BY <2>1, Zenon DEF RowInv, InsertInv
  <2> QED BY <1>1, <2>1, <2>2, Zenon DEF RowInv
<1> QED
  BY <1>12, <1>13, Zenon

LEMMA RowFirst == Init => RowInv
  BY DEF Init, RowInv, InsertInv, StoreInv

\* A row that a scan meets, of a table that never had another schema, was made
\* with the schema of the scan, whose columns are integers.
LEMMA Met ==
  ASSUME PassInv, PlaceInv, RowInv, NEW k \in Statements, NEW row \in store,
         Meets(k, row), OnlySchema(row.table, bufs[k])
  PROVE  MadeWith(row, bufs[k]) /\ Integers64(bufs[k])
<1>1. k \in DOMAIN prog /\ prog[k].op = "scan" /\ Allocated(k)
  BY DEF Meets, Statements, PassInv, running, Allocated
<1>2. PICK h \in history : h[1] = row.table /\ MadeWith(row, h[2])
  BY Zenon DEF RowInv, StoreInv
<1>3. h[2] = bufs[k]
  BY <1>2, Zenon DEF OnlySchema
<1>4. PICK s : s = bufs[k]
  BY Zenon
<1>5. Columns(s)
  BY <1>2, <1>3, <1>4, Zenon DEF PlaceInv, HistoryInv
<1>6. \A i \in DOMAIN s : s[i].id = "INTEGER"
  BY <1>1, <1>4, Zenon DEF PlaceInv, ScanInv
<1>7. PICK S : s \in Seq(S) /\ \A x \in S : x.key \in BOOLEAN /\ x.nullable \in BOOLEAN
  BY <1>5, Zenon DEF Columns
<1>8. Integers64(s)
  BY <1>6, <1>7 DEF Integers64
<1> QED BY <1>2, <1>3, <1>4, <1>8, Zenon

\* The key and the value fit the room of the schema, and a scan reads back the
\* columns that are in step and no column that is the first out of step.
RowsLaidOut ==
  \A s : Integers64(s) =>
    \A m \in 0 .. Len(s) :
      /\ \A key \in BOOLEAN : Len(InsertBytes(s, m, key)) <= Room(s, key)
      /\ \A i \in 1 .. m : \A row :
           /\ InStep(s, i - 1)
           /\ row.key = InsertBytes(s, m, TRUE) /\ row.value = InsertBytes(s, m, FALSE)
           => (ScanBytes(s, row, i) = Bytes(W * (i - 1), W) <=> InStep(s, i))

LEMMA FitRows ==
  ASSUME RowsLaidOut, PassInv, PlaceInv, RowInv
  PROVE  RowsFit
<1> SUFFICES ASSUME NEW k \in Statements, NEW row \in store,
                    Meets(k, row), OnlySchema(row.table, bufs[k])
             PROVE  /\ Len(row.key) <= Room(bufs[k], TRUE)
                    /\ Len(row.value) <= Room(bufs[k], FALSE)
  BY Zenon DEF RowsFit
<1>1. PICK s, m : s = bufs[k] /\ m = row.n
  BY Zenon
<1>2. MadeWith(row, s) /\ Integers64(s)
  BY <1>1, Met, Zenon
<1>3. m \in 0 .. Len(s)
  BY <1>1, <1>2 DEF MadeWith, Integers64
<1>4. /\ Len(InsertBytes(s, m, TRUE)) <= Room(s, TRUE)
      /\ Len(InsertBytes(s, m, FALSE)) <= Room(s, FALSE)
  BY <1>2, <1>3, Zenon DEF RowsLaidOut
<1> QED BY <1>1, <1>2, <1>4, Zenon DEF MadeWith

LEMMA ReadRows ==
  ASSUME RowsLaidOut, PassInv, PlaceInv, RowInv
  PROVE  RowsReadBack
<1> SUFFICES ASSUME NEW k \in Statements, NEW row \in store,
                    Meets(k, row), OnlySchema(row.table, bufs[k]),
                    NEW i \in 1 .. row.n, InStep(bufs[k], i - 1)
             PROVE  ScanBytes(bufs[k], row, i) = Bytes(W * (i - 1), W)
                      <=> InStep(bufs[k], i)
  BY Zenon DEF RowsReadBack
<1>1. PICK s, m : s = bufs[k] /\ m = row.n
  BY Zenon
<1>2. MadeWith(row, s) /\ Integers64(s)
  BY <1>1, Met, Zenon
<1>3. m \in 0 .. Len(s)
  BY <1>1, <1>2 DEF MadeWith, Integers64
<1>4. /\ i \in 1 .. m /\ InStep(s, i - 1)
      /\ row.key = InsertBytes(s, m, TRUE) /\ row.value = InsertBytes(s, m, FALSE)
  BY <1>1, <1>2, Zenon DEF MadeWith
<1>5. ScanBytes(s, row, i) = Bytes(W * (i - 1), W) <=> InStep(s, i)
  BY <1>2, <1>3, <1>4, Zenon DEF RowsLaidOut
<1> QED BY <1>1, <1>5, Zenon

-----------------------------------------------------------------------------
(* The theorems, with what DataProofs shows of schemas and of the bytes of rows *)

R == INSTANCE DataProofs WITH Names <- {}

LEMMA KeptSchemas == SchemasKept
<1>1. \A cols : R!SchemaOf(cols) = SchemaOf(cols)
  BY Zenon DEF R!SchemaOf, SchemaOf, R!Concat, Concat, R!Storable, Storable
<1>2. ASSUME NEW S, NEW cols \in Seq(S) PROVE SchemaOf(cols) \in Seq(S)
  BY <1>1, R!SchemaColumns, Zenon
<1>3. ASSUME NEW S, NEW cols \in Seq(S), \A i \in DOMAIN cols : cols[i].id \in Storable
      PROVE  SchemaOf(cols) = cols
  <2>1. \A i \in DOMAIN cols : cols[i].id \in R!Storable
    BY <1>3, Zenon DEF R!Storable, Storable
  <2> QED BY <1>1, <2>1, R!SchemaWhole, Zenon
<1> QED BY <1>2, <1>3, Zenon DEF SchemasKept

LEMMA SameRows ==
  /\ \A s, n, k : R!InsertBytes(s, n, k) = InsertBytes(s, n, k)
  /\ \A s, k : R!Room(s, k) = Room(s, k)
  /\ \A s : R!Integers64(s) = Integers64(s)
  /\ \A s, n : R!InStep(s, n) = InStep(s, n)
  /\ \A s, row, i : R!ScanBytes(s, row, i) = ScanBytes(s, row, i)
  /\ \A i, n : R!Bytes(i, n) = Bytes(i, n)
  /\ R!W = W
<1>1. /\ R!W = W /\ R!Stale = Stale /\ \A i, n : R!Bytes(i, n) = Bytes(i, n)
      /\ \A n, x : R!Total(n, x) = Total(n, x) /\ R!Concat(n, x) = Concat(n, x)
  BY Zenon DEF R!W, W, R!Stale, Stale, R!Bytes, Bytes, R!Total, Total, R!Concat, Concat
<1>2. \A c : R!default_size(c) = default_size(c)
  BY <1>1, Zenon DEF R!default_size, default_size
<1>3. \A s, n, k : R!SizeOf(s, n, k) = SizeOf(s, n, k)
  BY <1>1, <1>2, Zenon DEF R!SizeOf, SizeOf
<1>4. \A s, i : R!InsertOffset(s, i) = InsertOffset(s, i)
  BY <1>3, Zenon DEF R!InsertOffset, InsertOffset
<1>5. \A s, n, k : R!InsertBytes(s, n, k) = InsertBytes(s, n, k)
  BY <1>1, <1>2, <1>4, Zenon DEF R!InsertBytes, InsertBytes
<1>6. \A s, k : R!Room(s, k) = Room(s, k)
  BY <1>3, Zenon DEF R!Room, Room
<1>7. \A s : R!Integers64(s) = Integers64(s)
  BY Zenon DEF R!Integers64, Integers64
<1>8. \A s, n : R!InStep(s, n) = InStep(s, n)
  BY Zenon DEF R!InStep, InStep
<1>9. \A s, row, i : R!ScanBytes(s, row, i) = ScanBytes(s, row, i)
  BY Zenon DEF R!ScanBytes, ScanBytes, R!ScanOffset, ScanOffset, R!Total, Total, R!W, W,
               R!Stale, Stale
<1> QED BY <1>1, <1>5, <1>6, <1>7, <1>8, <1>9, Zenon

LEMMA RowsKept == RowsLaidOut
<1> SUFFICES ASSUME NEW s, Integers64(s), NEW m \in 0 .. Len(s)
             PROVE  /\ \A key \in BOOLEAN : Len(InsertBytes(s, m, key)) <= Room(s, key)
                    /\ \A i \in 1 .. m : \A row :
                         /\ InStep(s, i - 1)
                         /\ row.key = InsertBytes(s, m, TRUE)
                         /\ row.value = InsertBytes(s, m, FALSE)
                         => (ScanBytes(s, row, i) = Bytes(W * (i - 1), W) <=> InStep(s, i))
  BY Zenon DEF RowsLaidOut
<1>1. Len(s) \in Nat /\ R!Integers64(s)
  BY SameRows, Zenon DEF Integers64
<1>2. ASSUME NEW key PROVE Len(InsertBytes(s, m, key)) <= Room(s, key)
  <2>1. Len(R!InsertBytes(s, m, key)) <= R!Room(s, key)
    BY <1>1, R!BytesFit, Zenon
  <2> QED BY <2>1, SameRows, Zenon
<1>3. ASSUME NEW i \in 1 .. m, NEW row, InStep(s, i - 1),
             row.key = InsertBytes(s, m, TRUE), row.value = InsertBytes(s, m, FALSE)
      PROVE  ScanBytes(s, row, i) = Bytes(W * (i - 1), W) <=> InStep(s, i)
  <2>1. /\ R!InStep(s, i - 1)
        /\ row.key = R!InsertBytes(s, m, TRUE) /\ row.value = R!InsertBytes(s, m, FALSE)
    BY <1>3, SameRows, Zenon
  <2>2. R!ScanBytes(s, row, i) = R!Bytes(R!W * (i - 1), R!W) <=> R!InStep(s, i)
    BY <1>1, <2>1, R!ReadsBack, Zenon
  <2> QED BY <2>2, SameRows, Zenon
<1> QED BY <1>2, <1>3, Zenon

\* The schemas and slots are right in every state.
THEOREM PlacedRight == Spec => []PlaceInv
<1>1. Init => PlaceInv
  BY DEF Init, PlaceInv, SchemaInv, ScanInv, MemberSlotInv, HistoryInv, Allocated
<1>2. PassInv /\ ReserveInv /\ ResolveInv /\ PlaceInv /\ [Next]_vars => PlaceInv'
  BY PlaceStep, KeptSchemas, Zenon
<1> QED
  BY <1>1, <1>2, PassesInOrder, ReservedRight, ResolvedRight, PTL DEF Spec

\* In every program the code of r.c reads the column called c of the schema that
\* the row r was built with, unless the variable is declared again below, a
\* column of the table is not stored or its name was taken.
THEOREM MembersAlwaysAgree == Spec => []MembersAgree
<1>1. Init => MembersAgree
  BY DEF Init, MembersAgree
<1>2. CodeInv => CodeBehind
  BY Zenon DEF CodeInv
<1>3. PassInv /\ ResolveInv /\ PlaceInv /\ CodeBehind /\ MembersAgree /\ [Next]_vars
        => MembersAgree'
  BY MembersStep, KeptSchemas, Zenon
<1> QED
  BY <1>1, <1>2, <1>3, PassesInOrder, ResolvedRight, PlacedRight, CodeRight, PTL DEF Spec

\* Every row in the store was made with a schema that was stored for its table.
THEOREM RowsMadeRight == Spec => []RowInv
<1>1. CodeInv => CodeBehind
  BY Zenon DEF CodeInv
<1> QED
  BY <1>1, RowFirst, RowStep, PassesInOrder, ReservedRight, ResolvedRight, PlacedRight,
     CodeRight, PTL DEF Spec

\* The buffers of a scan have room for every row it may meet, of any table, as
\* long as the table never had another schema.
THEOREM RowsAlwaysFit == Spec => []RowsFit
<1>1. PassInv /\ PlaceInv /\ RowInv => RowsFit
  BY FitRows, RowsKept, Zenon
<1> QED
  BY <1>1, PassesInOrder, PlacedRight, RowsMadeRight, PTL

\* A scan of a table that never had another schema reads every column back down
\* to the first that is of the key when a nullable one above it is not, or the
\* other way round, and does not read that one back: of tables with any columns.
THEOREM RowsAlwaysReadBack == Spec => []RowsReadBack
<1>1. PassInv /\ PlaceInv /\ RowInv => RowsReadBack
  BY ReadRows, RowsKept, Zenon
<1> QED
  BY <1>1, PassesInOrder, PlacedRight, RowsMadeRight, PTL
=============================================================================
