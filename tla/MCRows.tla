------------------------------- MODULE MCRows -------------------------------
(* Rows with three tables for TLC: the id first, last, and not automatic.  *)
EXTENDS Rows

two   == << <<"number", 2>> >>
piped == << <<"word", 1>>, Bar, <<"number", 2>> >>
long  == << <<"word", 1>>, <<"word", 1>>, <<"word", 1>> >>

MCValues == {<<>>, two, piped, long}

MCSchemas == { [names |-> <<"id", "a", "b">>, auto |-> {1}],
               [names |-> <<"a", "id">>,      auto |-> {}],
               [names |-> <<"id", "a">>,      auto |-> {}] }
=============================================================================
