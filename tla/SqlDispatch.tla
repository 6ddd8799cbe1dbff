----------------------------- MODULE SqlDispatch -----------------------------
(***************************************************************************)
(* What execute_sql (query/executor.c) does with a text, and what          *)
(* parser_parse (query/parser.c) makes of the same text before: the two    *)
(* read it on their own, the parser from its first solid character and, but *)
(* for names, in any case, the executor from its first byte and, but for   *)
(* SET and WHERE of an UPDATE and HELP, as it is written.                  *)
(*                                                                         *)
(* A text is a sequence of tokens: words, signs, the blanks "sp" and "nl". *)
(* Tokens that follow each other without a blank touch.  "id=" stands for  *)
(* `id =' and the digits that follow are tokens of their own.  Texts are   *)
(* shorter than the buffers.                                               *)
(***************************************************************************)
EXTENDS Integers, SequencesExt

Blank == {"sp", "nl"}

Digits == {"1", "2"}

\* Words of the blocked list, or words that contain one.
Blocked == {"ALTER", "EXEC", "--", "WALTER"}

\* Every keyword that either of the two looks for, in lower case, and a name.
Capitals == [
  begin  |-> "BEGIN",  commit |-> "COMMIT", rollback |-> "ROLLBACK",
  create |-> "CREATE", drop   |-> "DROP",   show     |-> "SHOW",
  insert |-> "INSERT", update |-> "UPDATE", delete   |-> "DELETE",   select |-> "SELECT",
  table  |-> "TABLE",  tables |-> "TABLES", database |-> "DATABASE", databases |-> "DATABASES",
  into   |-> "INTO",   values |-> "VALUES", from     |-> "FROM",     join   |-> "JOIN",
  set    |-> "SET",    where  |-> "WHERE",  exit     |-> "EXIT",     help   |-> "HELP",
  alter  |-> "ALTER",  exec   |-> "EXEC",   Walter   |-> "WALTER"]

\* to_upper_copy.  (What no test looks for stays as it is.)
InUpper(w) == IF w \in DOMAIN Capitals THEN Capitals[w] ELSE w

Upper(text) == [i \in DOMAIN text |-> InUpper(text[i])]

---------------------------------------------------------------------------
(* The C functions both are written with.                                  *)

\* strstr
Has(text, part) == \E i \in DOMAIN text : IsPrefix(part, SubSeq(text, i, Len(text)))

\* The index of the first `part' (there is one).
First(text, part) == Min({ i \in DOMAIN text : IsPrefix(part, SubSeq(text, i, Len(text))) })

\* The places of the tokens up to place n that are not blank.
SolidUpTo(text, n) == { i \in 1..n : text[i] \notin Blank }

\* trim_semicolon: from the end only.
trim_semicolon(text) ==
  LET solid == { i \in DOMAIN text : text[i] \notin Blank \cup {";"} }
  IN IF solid = {} THEN <<>> ELSE SubSeq(text, 1, Max(solid))

\* trim: from both ends.
trim(text) ==
  LET solid == SolidUpTo(text, Len(text))
  IN IF solid = {} THEN <<>> ELSE trim_semicolon(SubSeq(text, Min(solid), Len(text)))

Solid(text) == SelectSeq(text, LAMBDA w : w \notin Blank)

\* Does the text start as a format's literal words do, which start at the
\* first byte and have any number of blanks, or none, between them?
Literal(text, words) ==
  /\ text # <<>> /\ text[1] = words[1]
  /\ \A k \in DOMAIN words : \E i \in DOMAIN text :
       text[i] = words[k] /\ Cardinality(SolidUpTo(text, i)) = k

\* sscanf(text, "words %s"): something follows.
Scan(text, words) == Literal(text, words) /\ Len(Solid(text)) > Len(words)

\* What is left of the text after "words %s": %s ends at a blank.
AfterName(text, words) ==
  LET solid == SolidUpTo(text, Len(text))
      name  == CHOOSE i \in solid : Cardinality(SolidUpTo(text, i)) = Len(words) + 1
      ends  == { i \in DOMAIN text : i > name /\ text[i] \in Blank }
  IN IF ends = {} THEN <<>> ELSE SubSeq(text, Min(ends), Len(text))

\* sscanf(text, "words %s then ...")
ScanThen(text, words, then) ==
  Scan(text, words) /\ IsPrefix(then, Solid(AfterName(text, words)))

\* Faulty: nothing may follow the digit.
HasIdConditionAlone(text) == \E d \in Digits : Solid(text) = <<"WHERE", "id=", d>>

\* `WHERE id = %d'
HasIdCondition(text) == \E d \in Digits : IsPrefix(<<"WHERE", "id=", d>>, Solid(text))

---------------------------------------------------------------------------
(* parser.c                                                                *)

\* parser_is_safe_sql
parser_is_safe_sql(text) == \A i \in DOMAIN text : InUpper(text[i]) \notin Blocked

\* A row of values in parentheses follows VALUES.
parse_insert(raw) ==
  /\ Scan(raw, <<"INSERT", "INTO">>)
  /\ Has(Upper(raw), <<"VALUES">>)
  /\ LET values == SubSeq(raw, First(Upper(raw), <<"VALUES">>), Len(raw))
     IN Has(values, <<"(">>) /\ Has(SubSeq(values, First(values, <<"(">>), Len(values)), <<")">>)

\* Columns stand between SELECT and FROM.
parse_select(raw) ==
  LET from == <<"sp", "FROM", "sp">>
  IN Has(Upper(raw), from) /\ First(Upper(raw), from) > 3

\* parser_parse: the type it finds, or the refusal.
parser_parse(text) ==
  LET raw       == trim(text)
      starts(w) == IsPrefix(w, Upper(raw))
      is(w)     == Upper(raw) = w
  IN IF ~parser_is_safe_sql(raw)            THEN "refused"
     ELSE IF is(<<"BEGIN">>)                THEN "begin"
     ELSE IF is(<<"COMMIT">>)               THEN "commit"
     ELSE IF is(<<"ROLLBACK">>)             THEN "rollback"
     ELSE IF is(<<"SHOW", "sp", "TABLES">>) THEN "show_tables"
     ELSE IF starts(<<"DROP", "sp", "TABLE">>) /\ Scan(raw, <<"DROP", "TABLE">>)      THEN "drop"
     ELSE IF starts(<<"CREATE", "sp", "TABLE">>) /\ Scan(raw, <<"CREATE", "TABLE">>)  THEN "create"
     ELSE IF starts(<<"INSERT", "sp", "INTO">>) /\ parse_insert(raw)                  THEN "insert"
     ELSE IF starts(<<"SELECT">>) /\ parse_select(raw)                                THEN "select"
     ELSE IF starts(<<"UPDATE">>) /\ Scan(raw, <<"UPDATE">>)                          THEN "update"
     ELSE IF starts(<<"DELETE", "sp", "FROM">>) /\ Scan(raw, <<"DELETE", "FROM">>)    THEN "delete"
     ELSE "refused"

---------------------------------------------------------------------------
(* executor.c                                                              *)

\* Faulty: DROP TABLE is forgotten.
NeedsDatabaseButDrop(q) ==
  \E w \in { <<"CREATE", "sp", "TABLE">>, <<"INSERT", "sp", "INTO">>, <<"SELECT">>,
             <<"UPDATE">>, <<"DELETE", "sp", "FROM">>, <<"SHOW", "sp", "TABLES">> } :
    IsPrefix(w, q)

\* The statements require_database_selected is asked for.
NeedsDatabase(q) ==
  \E w \in { <<"CREATE", "sp", "TABLE">>, <<"INSERT", "sp", "INTO">>, <<"SELECT">>,
             <<"UPDATE">>, <<"DELETE", "sp", "FROM">>, <<"DROP", "sp", "TABLE">>,
             <<"SHOW", "sp", "TABLES">> } : IsPrefix(w, q)

\* SET, something, and WHERE id = n, in this order: found in any case, but
\* the condition is read as `WHERE'.
IsUpdate(q) ==
  LET set == <<"sp", "SET", "sp">>  where == <<"sp", "WHERE", "sp">>
      u   == Upper(q)
  IN /\ Scan(q, <<"UPDATE">>)
     /\ Has(u, set) /\ Has(u, where)
     /\ First(u, set) + 3 < First(u, where)
     /\ HasIdCondition(SubSeq(q, First(u, where), Len(q)))

\* execute_sql: the handler that runs.
Handler(text, selected) ==
  LET q         == trim_semicolon(text)
      starts(w) == IsPrefix(w, q)
      all       == <<"SELECT", "*", "FROM">>
      delete    == <<"DELETE", "FROM">>
  IN IF Scan(q, <<"CREATE", "DATABASE">>)                  THEN "create_database"
     ELSE IF Scan(q, <<"DROP", "DATABASE">>)               THEN "drop_database"
     ELSE IF Scan(q, <<"\\c">>)                            THEN "use_database"
     ELSE IF q = <<"SHOW", "sp", "DATABASES">>             THEN "show_databases"
     ELSE IF q = <<"\\qdb">>                               THEN "quit_database"
     ELSE IF Upper(q) = <<"HELP">>                         THEN "help"
     ELSE IF parser_parse(text) = "refused"                THEN "refused"
     ELSE IF NeedsDatabase(q) /\ ~selected                 THEN "no_database"
     ELSE IF starts(<<"BEGIN">>)                           THEN "begin"
     ELSE IF starts(<<"COMMIT">>)                          THEN "commit"
     ELSE IF starts(<<"ROLLBACK">>)                        THEN "rollback"
     ELSE IF Scan(q, <<"DROP", "TABLE">>)                  THEN "drop_table"
     ELSE IF starts(<<"CREATE", "sp", "TABLE">>)           THEN "create_table"
     ELSE IF starts(<<"INSERT", "sp", "INTO">>) /\ Has(q, <<"(">>) THEN "insert"
     ELSE IF ScanThen(q, <<"INSERT", "INTO">>, <<"VALUES">>)       THEN "old_insert"
     ELSE IF IsUpdate(q)                                   THEN "update"
     ELSE IF starts(<<"UPDATE">>)                          THEN "bad_update"
     ELSE IF Scan(q, delete) /\ HasIdCondition(AfterName(q, delete)) THEN "delete_where_id"
     ELSE IF Scan(q, delete)                               THEN "delete_all"
     ELSE IF ScanThen(q, all, <<"JOIN">>) /\ Len(Solid(AfterName(q, all))) > 1 THEN "join"
     ELSE IF Scan(q, all) /\ HasIdCondition(AfterName(q, all))       THEN "select_where_id"
     ELSE IF Scan(q, all)                                  THEN "select"
     ELSE IF starts(<<"SHOW", "sp", "TABLES">>)            THEN "show_tables"
     ELSE "not_recognised"

---------------------------------------------------------------------------
(* main.c                                                                  *)

\* process_input_commands: how much of the console line is the next command.
CommandEnd(line) == IF Has(line, <<";">>) THEN First(line, <<";">>) ELSE Len(line)

\* Commands that are blank, or not safe, are left out.
IsCommand(text) == Solid(text) # <<>> /\ parser_is_safe_sql(text)
=============================================================================
