------------------------------ MODULE MCServer ------------------------------
(* Server with a few lines for TLC.                                        *)
EXTENDS Server

begin  == <<"BEGIN", "nl">>
use    == <<"\\c", "sp", "ventas", "nl">>
delete == <<"DELETE", "sp", "FROM", "sp", "t", "sp", "WHERE", "sp", "id=", "1", "2", "nl">>
exit   == <<"EXIT", "nl">>
leave  == <<"exit", "nl">>

MCLines == {begin, use, delete, exit, leave}

from   == <<"sp", "FROM", "sp", "t">>
values == <<"sp", "VALUES", "sp", "(", "x", ")", ";", "nl">>

\* Several commands on a line, keywords in lower case, no table, the old INSERT.
MCConsoleLines == {
  delete, use,
  <<"BEGIN", ";", "sp", "COMMIT", ";", "nl">>,
  <<"begin", ";", "COMMIT", "sp", ";", "ROLLBACK", "nl">>,
  <<"SELECT", "sp", "*">> \o from \o <<"sp", "JOIN", "sp", "u", ";", "DROP", "sp", "TABLE", "sp", "t", "nl">>,
  <<"SELECT", "sp", "*">> \o from \o <<"sp", "WHERE", "sp", "id=", "1", ";", "sp", "SELECT", "sp", "*">> \o from,
  <<"SELECT", "sp", "FROM", "sp", ";", "select", "sp", "*">> \o from,
  <<"DROP", "sp", "sp", "TABLE", "sp", "t", ";", "DELETE">> \o from \o <<"nl">>,
  <<"INSERT", "sp", "INTO", "sp", "t", "sp", "VALUES", "sp", "x", "nl">>,
  <<"INSERT", "sp", "INTO", "sp", "t", "sp", "(", "c", ")">> \o values,
  <<"INSERT", "sp", "INTO", "sp", "t", "sp", "(", "Walter", ")">> \o values,
  <<"UPDATE", "sp", "t", "sp", "SET", "sp", "c", "sp", "WHERE", "sp", "id=", "2", ";", "UPDATE", "sp", "t", "nl">>,
  <<"DELETE">> \o from \o <<"sp", "where", "sp", "id=", "1", ";", "SELECT", "sp", "*">> \o from \o <<"sp", "where", "sp", "id=", "2", "nl">>,
  <<"UPDATE", "sp", "t", "sp", "set", "sp", "c", "sp", "WHERE", "sp", "id=", "1", ";", "UPDATE", "sp", "t", "sp", "SET", "sp", "c", "sp", "where", "sp", "id=", "2", "nl">>,
  <<"SELECT", "sp", "*", "sp", "from", "sp", "t", ";", "DELETE", "sp", "from", "sp", "t", ";", "exec", "nl">>,
  <<"drop", "sp", "table", "sp", "t", ";", "DROP", "sp", "table", "sp", "t", ";", "INSERT", "sp", "INTO", "sp", "t", "(", "c", ")", "values", "(", "x", ")", "nl">>,
  <<"CREATE", "sp", "TABLE", "sp", "t", ";", "SHOW", "sp", "TABLES", ";", "SHOW", "sp", "DATABASES", "nl">>,
  <<"CREATE", "sp", "DATABASE", "sp", "ventas", ";", "DROP", "sp", "DATABASE", "sp", "ventas", ";", "\\qdb", "nl">> }
=============================================================================
