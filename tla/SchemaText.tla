----------------------------- MODULE SchemaText -----------------------------
(***************************************************************************)
(* The text that MetaData::create_table stores in LevelDB for a schema,    *)
(* and MetaData::get_schema reads back: Schema, Attribute and AttrType     *)
(* read it on one stream whose position they share.                        *)
(***************************************************************************)
EXTENDS Texts

CONSTANTS
  Schemas   \* schemas: a name and a sequence of attributes

ASSUME SchemaAssumption ==
  /\ \A n \in Names : n \in Seq(Items(n))
  /\ \A s \in Schemas : s.name \in Names /\ s.attrs \in Seq(Attribute)

VARIABLES
  source,  \* the schema that was stored
  text,    \* its text
  pos,     \* the position of the stream
  name,    \* name_ and attrs_ of the schema that is read
  attrs,
  phase    \* the step of get_schema, or how it ended

schemaVars == <<source, text, pos, name, attrs>>

-----------------------------------------------------------------------------
(* Schema::deserialize *)

SchemaInit ==
  /\ source \in Schemas
  /\ text = SchemaText(source)
  /\ pos = 1 /\ name = << >> /\ attrs = << >> /\ phase = "read_name"

ReadName ==
  /\ phase = "read_name"
  /\ LET colon == FindIn(text, {":"}, pos)
     IN  name' = SubSeq(text, pos, colon - 1) /\ pos' = colon + 1
  /\ phase' = "read"
  /\ UNCHANGED <<source, text, attrs>>

\* The loop of Schema::deserialize.  "error" is the exception of stoll, or a
\* search that goes on for ever, as none of them looks for the end of the text.
ReadAttribute ==
  /\ phase = "read" /\ pos <= Len(text)
  /\ LET f == Fields(text, pos)
     IN  /\ IF Readable(text, f)
            THEN attrs' = Append(attrs, AttributeOf(f)) /\ phase' = phase
            ELSE attrs' = attrs /\ phase' = "error"
         /\ pos' = f.close + 1
  /\ UNCHANGED <<source, text, name>>

ReadEnd ==
  /\ phase = "read" /\ pos > Len(text)
  /\ phase' = "schema"
  /\ UNCHANGED schemaVars

SchemaNext == ReadName \/ ReadAttribute \/ ReadEnd

-----------------------------------------------------------------------------
(* Properties *)

\* What get_schema returns is what create_table was given, name, types,
\* parameters and properties, exactly when the table's name is free of the
\* ':' that ends it, and the columns' names are free of the ' ' that ends
\* them: no other character is looked for where it could be part of a name
\* (Schema::deserialize, Attribute::deserialize, AttrType::deserialize).
SchemaReadsBack ==
  phase \notin {"read_name", "read"} =>
    (name = source.name /\ attrs = source.attrs
       <=> /\ ":" \notin Items(source.name)
           /\ \A i \in DOMAIN source.attrs : Blank \notin Items(source.attrs[i].name))
=============================================================================
