-------------------------------- MODULE Rows --------------------------------
(***************************************************************************)
(* The text of a row (query/executor.c): INSERT joins the values of its    *)
(* columns with bars and cuts the text to the size of a record; UPDATE     *)
(* takes the text apart with strtok, changes columns and joins it again.   *)
(* INSERT and DELETE read a row's id off the start of its text, UPDATE out *)
(* of the column `id', and the tree gets its keys from both.               *)
(*                                                                         *)
(* One table, and every statement a transaction of its own that commits    *)
(* (see Executor): a version is visible until it is marked.  A text is a   *)
(* sequence of tokens: numbers, words and bars.  Values are as clean_token *)
(* leaves them (no blank at an end, no quote), and the statement's text    *)
(* has been split at its commas and brackets: a value with one of those,   *)
(* which the code splits too, is left out, and so are texts that do not    *)
(* fit the buffers of 512 bytes.                                           *)
(***************************************************************************)
EXTENDS Integers, SequencesExt, FiniteSetsExt

CONSTANTS
  Schemas,        \* tables: the names of their columns, and the automatic ones
  Values,         \* what a statement can give for a column
  Ids,            \* what it can ask for
  PageCap,        \* versions in a page
  RecordSize,     \* MVCC_RECORD_VALUE_SIZE - 1, in tokens
  ValueSize,      \* char[128], in tokens
  MaxGiven,       \* bound: columns an INSERT names
  MaxSet,         \* bound: columns an UPDATE names
  MaxAutoId       \* bound: automatic ids given out

Bar == <<"bar", 0>>

Token == ({"number", "word"} \X Nat) \cup {Bar}

ASSUME RowsAssumption ==
  /\ \A s \in Schemas : s.names \in Seq(STRING) /\ s.auto \subseteq DOMAIN s.names
  /\ \A v \in Values : v \in Seq(Token)
  /\ Ids \subseteq Nat
  /\ PageCap \in Nat /\ RecordSize \in Nat \ {0} /\ ValueSize \in Nat \ {0}
  /\ MaxGiven \in Nat /\ MaxSet \in Nat /\ MaxAutoId \in Nat

VARIABLES
  table,          \* the table's columns
  page,           \* Seq([text, live, meant, kept]): its versions; the last two
                  \* observe: what the statements gave for its columns, and
                  \* whether every version it comes from was Plain
  tree,           \* ids to slots
  next_auto_id

vars == <<table, page, tree, next_auto_id>>

Columns == DOMAIN table.names

TypeOK ==
  /\ table \in Schemas
  /\ page \in Seq([text : Seq(Token), live : BOOLEAN,
                   meant : [Columns -> Seq(Token)], kept : BOOLEAN])
  /\ Len(page) <= PageCap
  /\ \A i \in DOMAIN page : Len(page[i].text) <= RecordSize
  /\ tree \in [DOMAIN tree -> DOMAIN page] /\ DOMAIN tree \subseteq Nat \ {0}
  /\ next_auto_id \in Nat \ {0}

\* CREATE TABLE with any of the schemas.
Init ==
  /\ table \in Schemas
  /\ page = <<>>
  /\ tree = [id \in {} |-> 0]
  /\ next_auto_id = 1

---------------------------------------------------------------------------
(* Texts.                                                                  *)

\* Faulty: as many as the array has room for, and the end goes past it.
CutAtEnd(text, size) == SubSeq(text, 1, IF Len(text) <= size THEN Len(text) ELSE size + 1)

\* Faulty: counts the end twice.
CutEarly(text, size) == SubSeq(text, 1, IF Len(text) < size THEN Len(text) ELSE size - 1)

\* strncpy and strncat into an array of this size
Cut(text, size) == SubSeq(text, 1, IF Len(text) < size THEN Len(text) ELSE size)

\* atoi
Number(text) == IF text # <<>> /\ text[1][1] = "number" THEN text[1][2] ELSE 0

\* strtok(text, "|") until it ends: what stands between bars, unless nothing
\* does.  `open' has it that the last field may go on.
Fields(text) ==
  LET read[i \in 0..Len(text)] ==
        IF i = 0 THEN [fields |-> <<>>, open |-> FALSE]
        ELSE LET r == read[i-1]
             IN IF text[i] = Bar THEN [fields |-> r.fields, open |-> FALSE]
                ELSE [fields |-> IF r.open
                                 THEN Append(Front(r.fields), Append(Last(r.fields), text[i]))
                                 ELSE Append(r.fields, <<text[i]>>),
                      open   |-> TRUE]
  IN read[Len(text)].fields

\* Faulty: counts before it stores.
split_late(text) ==
  [c \in Columns |-> IF c < Len(Fields(text)) THEN Cut(Fields(text)[c + 1], ValueSize) ELSE <<>>]

\* split_record_values, of the columns the table has.
split_record_values(text) ==
  [c \in Columns |-> IF c <= Len(Fields(text)) THEN Cut(Fields(text)[c], ValueSize) ELSE <<>>]

\* build_record_string
build_record_string(values) ==
  LET join[n \in 0..Len(values)] ==
        IF n = 0 THEN <<>>
        ELSE (IF n = 1 THEN <<>> ELSE Append(join[n-1], Bar)) \o values[n]
  IN join[Len(values)]

\* get_column_index: the first column of that name, 0 for none.
get_column_index(name) ==
  LET named == { c \in Columns : table.names[c] = name }
  IN IF named = {} THEN 0 ELSE Min(named)

\* An unknown column is skipped; of two values for a column the second is taken.
GivenFor(c, given) == { g \in DOMAIN given : get_column_index(given[g].column) = c }

\* apply_set_values, and the loop over the columns of an INSERT.
apply_set_values(values, given) ==
  [c \in Columns |-> IF GivenFor(c, given) = {} THEN values[c]
                     ELSE Cut(given[Max(GivenFor(c, given))].value, ValueSize)]

\* The values as the statement gives them, whole.
Meant(values, given) ==
  [c \in Columns |-> IF GivenFor(c, given) = {} THEN values[c]
                     ELSE given[Max(GivenFor(c, given))].value]

\* No bar in a value, none longer than the array, no empty column before one
\* that is not, and no text longer than a record.
Plain(values) ==
  /\ \A c \in DOMAIN values : /\ \A i \in DOMAIN values[c] : values[c][i] # Bar
                              /\ Len(values[c]) <= ValueSize
  /\ \A c, d \in DOMAIN values : c < d /\ values[c] = <<>> => values[d] = <<>>
  /\ Len(build_record_string(values)) <= RecordSize

---------------------------------------------------------------------------
(* Statements.                                                             *)

HasRoom == Len(page) < PageCap

\* Faulty: an id the tree has stays where it is.
AppendedOnce(versions, values, key, meant, kept) ==
  /\ page' = Append(versions, [text |-> Cut(build_record_string(values), RecordSize),
                               live |-> TRUE, meant |-> meant,
                               kept |-> kept /\ Plain(meant)])
  /\ tree' = IF key \in DOMAIN tree \cup {0} THEN tree
             ELSE [id \in DOMAIN tree \cup {key} |->
                     IF id = key THEN Len(versions) + 1 ELSE tree[id]]

\* page_append_mvcc_record to versions, and the tree's entry for its id.
Appended(versions, values, key, meant, kept) ==
  /\ page' = Append(versions, [text |-> Cut(build_record_string(values), RecordSize),
                               live |-> TRUE, meant |-> meant,
                               kept |-> kept /\ Plain(meant)])
  /\ tree' = IF key = 0 THEN tree
             ELSE [id \in DOMAIN tree \cup {key} |->
                     IF id = key THEN Len(versions) + 1 ELSE tree[id]]

Marked(i) == [page EXCEPT ![i].live = FALSE]

\* The automatic columns in their order, the others empty.
AutoValues ==
  [c \in Columns |->
     IF c \in table.auto
     THEN << <<"number", next_auto_id + Cardinality({ d \in table.auto : d < c })>> >>
     ELSE <<>>]

\* build_records_from_insert and do_insert, one row.
Insert(given) ==
  /\ next_auto_id <= MaxAutoId
  /\ next_auto_id' = next_auto_id + Cardinality(table.auto)
  /\ LET values == apply_set_values(AutoValues, given)
     IN IF HasRoom
        THEN Appended(page, values, Number(build_record_string(values)),
                      Meant(AutoValues, given), TRUE)
        ELSE UNCHANGED <<page, tree>>
  /\ UNCHANGED table

\* do_update_columns_where_id: refused without a column `id'; a full page
\* takes the mark and not the new version.
Update(id, given) ==
  LET column == get_column_index("id")
      found  == { i \in DOMAIN page : /\ page[i].live
                                      /\ Number(split_record_values(page[i].text)[column]) = id }
      slot   == Min(found)
      values == apply_set_values(split_record_values(page[slot].text), given)
  IN /\ IF column = 0 THEN UNCHANGED <<page, tree>>
        ELSE IF found = {} THEN UNCHANGED <<page, tree>>
        ELSE IF ~HasRoom THEN page' = Marked(slot) /\ UNCHANGED tree
        ELSE Appended(Marked(slot), values, Number(values[column]),
                      Meant(page[slot].meant, given), page[slot].kept)
     /\ UNCHANGED <<table, next_auto_id>>

\* do_delete_where_id
Delete(id) ==
  LET found == { i \in DOMAIN page : page[i].live /\ Number(page[i].text) = id }
  IN /\ page' = IF found = {} THEN page ELSE Marked(Min(found))
     /\ UNCHANGED <<table, tree, next_auto_id>>

Names == UNION { ToSet(s.names) : s \in Schemas }

Given(most) == UNION { [1..n -> [column : Names, value : Values]] : n \in 0..most }

Next ==
  \/ \E given \in Given(MaxGiven) : Insert(given)
  \/ \E id \in Ids : Delete(id) \/ \E given \in Given(MaxSet) : Update(id, given)

Spec == Init /\ [][Next]_vars

---------------------------------------------------------------------------
(* The columns of a row are what the statements gave for them, through any *)
(* number of UPDATEs, as long as it is Plain: strtok passes over an empty  *)
(* column and the rest moves to the left, a bar in a value makes two, and  *)
(* the end of a long value (128 bytes), or of a long text, is cut without  *)
(* a word.  (What was given is observed whole, before any cut.)            *)
ReadsAsGiven ==
  \A i \in DOMAIN page :
    page[i].kept => split_record_values(page[i].text) = page[i].meant

IdFirst == Columns # {} /\ table.names[1] = "id"

(* With the id in the first column, DELETE (which looks at the start of    *)
(* the text) and UPDATE (which looks at the column) take a row for the     *)
(* same id, and it is the one the row was given; when it was not kept,     *)
(* they may differ only where DELETE sees none.                            *)
IdIsOne ==
  IdFirst =>
    \A i \in DOMAIN page :
      LET id == Number(page[i].text)
      IN /\ id \in {0, Number(split_record_values(page[i].text)[1])}
         /\ page[i].kept => /\ id = Number(split_record_values(page[i].text)[1])
                            /\ id = Number(page[i].meant[1])

(* With the id in the first column, the tree leads an id to the newest     *)
(* version whose text starts with it, although INSERT takes the key from   *)
(* the text and UPDATE from the column.                                    *)
TreeLeadsToId ==
  IdFirst =>
    \A id \in DOMAIN tree :
      /\ Number(page[tree[id]].text) = id
      /\ \A i \in DOMAIN page : i > tree[id] => Number(page[i].text) # id
=============================================================================
